--------------------------- MODULE ServoBusProofs ---------------------------
(* Theorems about ServoBus, for every value of its constants.              *)
EXTENDS ServoBus, TLAPS

USE SizesAssumption, PosesAssumption, FlagsAssumption DEF Servos, Threads, Owner

-----------------------------------------------------------------------------
(* Type correctness                                                        *)

\* Types hold before start().
LEMMA TypeInit == Init => TypeInv
<1> SUFFICES ASSUME Init PROVE TypeInv
  OBVIOUS
<1> USE DEF Init, Actors, Switch, Moves, Starting, Applying
<1>1. OwnerType /\ SlotType /\ CacheType
  BY DEF OwnerType, SlotType, CacheType
<1>2. BusType
  BY DEF BusType
<1>3. CallType /\ ArmType
  BY DEF CallType, ArmType
<1>4. Counters
  BY DEF Counters
<1>5. FlagType
  BY DEF FlagType
<1> QED
  BY <1>1, <1>2, <1>3, <1>4, <1>5 DEF TypeInv, TypeOK

\* No step of start() or stop() leaves the types.
LEMMA TypeOwner == ASSUME TypeInv, OwnerStep PROVE TypeInv'
<1> USE DEF TypeInv, TypeOK, OwnerType, BusType, SlotType, CacheType, CallType, ArmType,
            FlagType, Counters, Actors, Switch, Moves, Starting, Applying, ownerVars,
            busVars, slotVars, cacheVars, callVars, armVars, ghostVars
<1>1. CASE Start
  <2>1. OwnerType'
    BY <1>1 DEF Start
  <2>2. BusType'
    BY <1>1 DEF Start
  <2>3. SlotType' /\ CacheType'
    BY <1>1 DEF Start
  <2>4. CallType' /\ ArmType'
    BY <1>1 DEF Start
  <2>5. FlagType'
    BY <1>1 DEF Start
  <2>6. Counters'
    BY <1>1 DEF Start
  <2> QED
    BY <2>1, <2>2, <2>3, <2>4, <2>5, <2>6
<1>2. CASE Prime
  <2>1. OwnerType'
    BY <1>2 DEF Prime, ReadOnce, AfterPrime
  <2>2. BusType'
    BY <1>2 DEF Prime, ReadOnce, AfterPrime
  <2>3. SlotType' /\ CacheType'
    BY <1>2 DEF Prime, ReadOnce, AfterPrime
  <2>4. CallType' /\ ArmType'
    BY <1>2 DEF Prime, ReadOnce, AfterPrime
  <2>5. FlagType'
    BY <1>2 DEF Prime, ReadOnce, AfterPrime
  <2>6. Counters'
    BY <1>2 DEF Prime, ReadOnce, AfterPrime
  <2> QED
    BY <2>1, <2>2, <2>3, <2>4, <2>5, <2>6
<1>3. CASE EepromLock
  BY <1>3 DEF EepromLock
<1>4. CASE EepromCheck
  BY <1>4 DEF EepromCheck
<1>5. CASE StartPark
  <2>1. CASE owner' = "failed" /\ UNCHANGED <<goal, next>>
    BY <2>1, <1>5 DEF StartPark
  <2>2. CASE owner' = "power" /\ SyncWrite(cache) /\ next' = [next EXCEPT ![Owner] = 1]
    <3>1. UNCHANGED <<session, tries, pc, since, calls, epoch>> /\ owner = "park"
      BY <1>5 DEF StartPark
    <3>2. OwnerType' /\ SlotType' /\ CacheType'
      BY <2>2, <1>5 DEF StartPark
    <3>3. BusType'
      BY <2>2, <1>5 DEF StartPark
    <3>4. CallType' /\ ArmType'
      BY <2>2, <1>5 DEF StartPark, SyncWrite
    <3>5. FlagType'
      BY <2>2, <1>5 DEF StartPark
    <3>6. owner' = "power" => next'[Owner] <= N
      BY <2>2
    <3>7. \A b \in Threads : pc'[b] \in {"park", "torque"} => next'[b] <= N
      BY <2>2, <3>1
    <3>8. Counters'
      BY <2>2, <3>1, <3>6, <3>7
    <3> QED
      BY <3>2, <3>3, <3>4, <3>5, <3>8
  <2> QED
    BY <2>1, <2>2, <1>5 DEF StartPark
<1>6. CASE StartPower
  <2> USE <1>6 DEF StartPower
  <2>1. OwnerType'
    OBVIOUS
  <2>2. next' \in [{Owner} \cup Threads -> 1..(N + 1)]
    OBVIOUS
  <2>3. BusType'
    BY <2>2
  <2>4. SlotType' /\ CacheType'
    OBVIOUS
  <2>5. CallType' /\ FlagType'
    OBVIOUS
  <2>6. ArmType'
    BY DEF WriteTorque
  <2>7. owner' = "power" => next'[Owner] <= N
    OBVIOUS
  <2>8. \A b \in Threads : next'[b] = next[b] /\ pc'[b] = pc[b]
    OBVIOUS
  <2>9. Counters'
    BY <2>7, <2>8
  <2> QED
    BY <2>1, <2>3, <2>4, <2>5, <2>6, <2>9
<1>7. CASE Spawn
  BY <1>7 DEF Spawn
<1>8. CASE Stop
  BY <1>8 DEF Stop
<1>9. CASE Join
  BY <1>9 DEF Join
<1>10. CASE Close
  BY <1>10 DEF Close
<1> QED
  BY <1>1, <1>2, <1>3, <1>4, <1>5, <1>6, <1>7, <1>8, <1>9, <1>10 DEF OwnerStep

\* No step of a bus thread leaves the types.
LEMMA TypeBus == ASSUME NEW b \in Threads, TypeInv, BusStep(b) PROVE TypeInv'
<1> USE DEF TypeInv, TypeOK, OwnerType, BusType, SlotType, CacheType, CallType, ArmType,
            FlagType, Counters, Actors, Switch, Moves, Starting, Applying, ownerVars,
            busVars, slotVars, cacheVars, callVars, armVars, ghostVars
<1>1. CASE BusTest(b)
  <2>1. OwnerType' /\ SlotType' /\ CacheType'
    BY <1>1 DEF BusTest
  <2>2. BusType'
    BY <1>1 DEF BusTest
  <2>3. CallType' /\ ArmType' /\ FlagType'
    BY <1>1 DEF BusTest
  <2>4. Counters'
    BY <1>1 DEF BusTest
  <2> QED
    BY <2>1, <2>2, <2>3, <2>4
<1>2. CASE BusLock(b)
  BY <1>2 DEF BusLock
<1>3. CASE BusRead(b)
  <2>1. OwnerType'
    BY <1>3 DEF BusRead, ReadOnce
  <2>2. BusType'
    BY <1>3 DEF BusRead, ReadOnce
  <2>3. SlotType' /\ CacheType'
    BY <1>3 DEF BusRead, ReadOnce
  <2>4. CallType' /\ ArmType'
    BY <1>3 DEF BusRead, ReadOnce
  <2>5. FlagType'
    BY <1>3 DEF BusRead, ReadOnce
  <2>6. Counters'
    BY <1>3 DEF BusRead, ReadOnce
  <2> QED
    BY <2>1, <2>2, <2>3, <2>4, <2>5, <2>6
<1>4. CASE BusWant(b)
  <2>1. CASE pc' = [pc EXCEPT ![b] = "take"] /\ UNCHANGED <<want, next>>
    BY <2>1, <1>4 DEF BusWant
  <2>2. CASE /\ pendTorque \in Switch /\ srv
             /\ want' = [want EXCEPT ![b] = pendTorque]
             /\ next' = [next EXCEPT ![b] = 1]
             /\ pc' = [pc EXCEPT ![b] = "park"] \/ pc' = [pc EXCEPT ![b] = "torque"]
    <3>1. UNCHANGED <<ownerVars, cmd, ioLock, slotVars, cacheVars, callVars, armVars,
                      ghostVars>>
      BY <1>4 DEF BusWant
    <3>2. OwnerType' /\ SlotType' /\ CacheType'
      BY <3>1
    <3>3. CallType' /\ ArmType'
      BY <3>1
    <3>4. FlagType'
      BY <3>1
    <3>5. pc' \in [Threads -> {"none", "test", "lock", "read", "want", "take",
                              "send", "free", "exit"} \cup Applying]
      BY <2>2
    <3>6. want' \in [Threads -> Switch] /\ cmd' \in [Threads -> SUBSET Moves]
      BY <2>2, <3>1
    <3>7. next' \in [{Owner} \cup Threads -> 1..(N + 1)]
      BY <2>2
    <3>8. ioLock' \in Actors \cup {Nobody}
      BY <3>1
    <3>9. ASSUME NEW a \in Threads, pc'[a] \in {"park", "torque"} PROVE next'[a] <= N
      <4>1. CASE a = b
        BY <4>1, <2>2
      <4>2. CASE a # b
        BY <4>2, <2>2, <3>9
      <4> QED
        BY <4>1, <4>2
    <3>10. owner' = "power" => next'[Owner] <= N
      BY <2>2, <3>1
    <3>11. Counters'
      BY <3>1, <3>9, <3>10
    <3> QED
      BY <3>2, <3>3, <3>4, <3>5, <3>6, <3>7, <3>8, <3>11
  <2> QED
    BY <2>1, <2>2, <1>4 DEF BusWant
<1>5. CASE BusPark(b)
  BY <1>5 DEF BusPark, SyncWrite
<1>6. CASE BusTorque(b)
  <2>1. OwnerType'
    BY <1>6 DEF BusTorque, WriteTorque
  <2>2. BusType'
    BY <1>6 DEF BusTorque, WriteTorque
  <2>3. SlotType' /\ CacheType'
    BY <1>6 DEF BusTorque, WriteTorque
  <2>4. CallType' /\ ArmType'
    BY <1>6 DEF BusTorque, WriteTorque
  <2>5. FlagType'
    BY <1>6 DEF BusTorque, WriteTorque
  <2>6. Counters'
    BY <1>6 DEF BusTorque, WriteTorque
  <2> QED
    BY <2>1, <2>2, <2>3, <2>4, <2>5, <2>6
<1>7. CASE BusDone(b)
  BY <1>7 DEF BusDone
<1>8. CASE BusTake(b)
  <2>1. \/ pc' = [pc EXCEPT ![b] = "free"] /\ UNCHANGED cmd
        \/ pc' = [pc EXCEPT ![b] = "send"] /\ cmd' = [cmd EXCEPT ![b] = pendCmd]
    BY <1>8 DEF BusTake
  <2>2. UNCHANGED <<want, next, ioLock>>
    BY <1>8 DEF BusTake
  <2>3. OwnerType'
    BY <1>8 DEF BusTake
  <2>4. SlotType' /\ CacheType'
    BY <1>8 DEF BusTake
  <2>5. CallType' /\ ArmType'
    BY <1>8 DEF BusTake
  <2>6. FlagType'
    BY <1>8 DEF BusTake
  <2>7. Counters'
    BY <1>8 DEF BusTake
  <2>8. BusType'
    <3> HIDE DEF OwnerType, CacheType, CallType, ArmType, FlagType, Counters
    <3> QED
      BY <2>1, <2>2
  <2> QED
    BY <2>3, <2>4, <2>5, <2>6, <2>7, <2>8
<1>9. CASE BusSend(b)
  BY <1>9 DEF BusSend, SyncWrite
<1>10. CASE BusFree(b)
  BY <1>10 DEF BusFree
<1>11. CASE BusCrash(b)
  BY <1>11 DEF BusCrash, Raises
<1> QED
  BY <1>1, <1>2, <1>3, <1>4, <1>5, <1>6, <1>7, <1>8, <1>9, <1>10, <1>11 DEF BusStep

\* No call of an application thread leaves the types.
LEMMA TypeCall == ASSUME NEW c \in Callers, TypeInv, CallStep(c) PROVE TypeInv'
<1> USE DEF TypeInv, TypeOK, OwnerType, BusType, SlotType, CacheType, CallType, ArmType,
            FlagType, Counters, Actors, Switch, Moves, Starting, Applying, ownerVars,
            busVars, slotVars, cacheVars, callVars, armVars, ghostVars
<1>1. CASE Move(c)
  <2>1. OwnerType' /\ BusType'
    BY <1>1 DEF Move
  <2>2. SlotType' /\ CacheType'
    BY <1>1 DEF Move
  <2>3. CallType' /\ ArmType'
    BY <1>1 DEF Move
  <2>4. FlagType'
    BY <1>1 DEF Move
  <2>5. Counters'
    BY <1>1 DEF Move
  <2> QED
    BY <2>1, <2>2, <2>3, <2>4, <2>5
<1>2. CASE TorqueReturns(c)
  BY <1>2 DEF TorqueReturns
<1>3. CASE TorqueTimesOut(c)
  BY <1>3 DEF TorqueTimesOut
<1>4. CASE AskBus(c)
  BY <1>4 DEF AskBus
<1>5. CASE GetBus(c)
  <2>1. OwnerType'
    BY <1>5 DEF GetBus
  <2>2. BusType'
    BY <1>5 DEF GetBus
  <2>3. SlotType' /\ CacheType'
    BY <1>5 DEF GetBus
  <2>4. CallType' /\ ArmType'
    BY <1>5 DEF GetBus
  <2>5. FlagType'
    BY <1>5 DEF GetBus
  <2>6. Counters'
    BY <1>5 DEF GetBus
  <2> QED
    BY <2>1, <2>2, <2>3, <2>4, <2>5, <2>6
<1>6. CASE BusTimesOut(c)
  BY <1>6 DEF BusTimesOut
<1>7. CASE ReturnBus(c)
  BY <1>7 DEF ReturnBus
<1>8. ASSUME NEW t \in Switch, PostTorque(c, t) PROVE TypeInv'
  <2>1. OwnerType'
    BY <1>8 DEF PostTorque
  <2>2. BusType'
    BY <1>8 DEF PostTorque
  <2>3. SlotType' /\ CacheType'
    BY <1>8 DEF PostTorque
  <2>4. CallType' /\ ArmType'
    BY <1>8 DEF PostTorque
  <2>5. FlagType'
    BY <1>8 DEF PostTorque
  <2>6. Counters'
    BY <1>8 DEF PostTorque
  <2> QED
    BY <2>1, <2>2, <2>3, <2>4, <2>5, <2>6
<1> QED
  BY <1>1, <1>2, <1>3, <1>4, <1>5, <1>6, <1>7, <1>8 DEF CallStep

\* Every variable keeps its range, whatever may fail: the counters and the index
\* of the servo to be written next stay in bounds.
LEMMA TypeInvariant == Spec => []TypeInv
<1>1. TypeInv /\ [Next]_vars => TypeInv'
  <2> SUFFICES ASSUME TypeInv, [Next]_vars PROVE TypeInv'
    OBVIOUS
  <2>1. CASE OwnerStep
    BY <2>1, TypeOwner
  <2>2. ASSUME NEW b \in Threads, BusStep(b) PROVE TypeInv'
    BY <2>2, TypeBus
  <2>3. ASSUME NEW c \in Callers, CallStep(c) PROVE TypeInv'
    BY <2>3, TypeCall
  <2>4. CASE ArmFollows
    BY <2>4 DEF ArmFollows, TypeInv, TypeOK, OwnerType, BusType, SlotType, CacheType, CallType, ArmType,
            FlagType, Counters, Actors, Switch, Moves, Starting, Applying, ownerVars,
            busVars, slotVars, cacheVars, callVars, armVars, ghostVars
  <2>5. CASE ArmByHand
    BY <2>5 DEF ArmByHand, TypeInv, TypeOK, OwnerType, BusType, SlotType, CacheType, CallType, ArmType,
            FlagType, Counters, Actors, Switch, Moves, Starting, Applying, ownerVars,
            busVars, slotVars, cacheVars, callVars, armVars, ghostVars
  <2>6. CASE UNCHANGED vars
    BY <2>6 DEF vars, TypeInv, TypeOK, OwnerType, BusType, SlotType, CacheType, CallType, ArmType,
            FlagType, Counters, Actors, Switch, Moves, Starting, Applying, ownerVars,
            busVars, slotVars, cacheVars, callVars, armVars, ghostVars
  <2> QED
    BY <2>1, <2>2, <2>3, <2>4, <2>5, <2>6 DEF Next, Terminated
<1> QED
  BY TypeInit, <1>1, PTL DEF Spec

\* Types: every program counter, slot and flag is in its range in every state.
THEOREM TypeCorrect == Spec => []TypeOK
<1>1. TypeInv => TypeOK
  BY DEF TypeInv
<1> QED
  BY <1>1, TypeInvariant, PTL

-----------------------------------------------------------------------------
(* A returned disable_torque() holds                                       *)

\* With no expired join, start() finds no thread alive and spawns the only one.
LEMMA OneLoopStep ==
  ASSUME TypeInv, OneLoop, [Next]_vars, "join" \notin Faults
  PROVE  OneLoop'
<1> USE DEF OneLoop, Starting, vars, ownerVars, busVars
<1>1. CASE OwnerStep
  <2>1. CASE Start
    BY <2>1 DEF Start
  <2>2. CASE Prime
    BY <2>2 DEF Prime, AfterPrime
  <2>3. CASE EepromLock \/ EepromCheck \/ StartPark \/ StartPower
    BY <2>3 DEF EepromLock, EepromCheck, StartPark, StartPower
  <2>4. CASE Spawn
    BY <2>4 DEF Spawn, TypeInv, TypeOK, BusType
  <2>5. CASE Stop \/ Join \/ Close
    BY <2>5 DEF Stop, Join, Close
  <2> QED
    BY <1>1, <2>1, <2>2, <2>3, <2>4, <2>5 DEF OwnerStep
<1>2. ASSUME NEW b \in Threads, BusStep(b) PROVE OneLoop'
  <2>1. pc[b] \notin {"none", "exit"} /\ UNCHANGED <<owner, session>>
    BY <1>2 DEF BusStep, BusTest, BusLock, BusRead, BusWant, BusPark, BusTorque, BusDone,
                BusTake, BusSend, BusFree, BusCrash, Raises
  <2>2. \A a \in Threads : a # b => pc'[a] = pc[a]
    BY <1>2 DEF BusStep, BusTest, BusLock, BusRead, BusWant, BusPark, BusTorque, BusDone,
                BusTake, BusSend, BusFree, BusCrash, Raises, TypeInv, TypeOK, BusType
  <2> QED
    BY <2>1, <2>2
<1>3. ASSUME NEW c \in Callers, CallStep(c) PROVE OneLoop'
  BY <1>3 DEF CallStep, Move, TorqueReturns, TorqueTimesOut, PostTorque, AskBus, GetBus,
              BusTimesOut, ReturnBus
<1>4. CASE ArmFollows \/ ArmByHand \/ UNCHANGED vars
  BY <1>4 DEF ArmFollows, ArmByHand
<1> QED
  BY <1>1, <1>2, <1>3, <1>4 DEF Next, Terminated

\* At most one thread is applying a torque request.
OneApplies ==
  \A b1, b2 \in Threads : pc[b1] \in Applying /\ pc[b2] \in Applying => b1 = b2

\* The slot is emptied by the one thread that applies the request, at its end.
LEMMA SlotHeldStep ==
  ASSUME TypeInv, OneApplies, SlotHeld, [Next]_vars
  PROVE  SlotHeld'
<1> USE DEF SlotHeld, Applying, vars, ownerVars, busVars, slotVars
<1>1. CASE OwnerStep
  <2>1. CASE Spawn
    BY <2>1 DEF Spawn, TypeInv, TypeOK, BusType
  <2>2. CASE OwnerStep /\ ~Spawn
    BY <2>2 DEF OwnerStep, Start, Prime, EepromLock, EepromCheck, StartPark, StartPower,
                Stop, Join, Close
  <2> QED
    BY <1>1, <2>1, <2>2
<1>2. ASSUME NEW b \in Threads, BusStep(b) PROVE SlotHeld'
  <2> USE DEF TypeInv, TypeOK, BusType
  <2>1. CASE BusWant(b)
    BY <2>1 DEF BusWant
  <2>2. CASE BusPark(b) \/ BusTorque(b)
    BY <2>2 DEF BusPark, BusTorque
  <2>3. CASE BusDone(b)
    BY <2>3 DEF BusDone, OneApplies
  <2>4. CASE BusTest(b) \/ BusLock(b) \/ BusRead(b)
    BY <2>4 DEF BusTest, BusLock, BusRead
  <2>5. CASE BusTake(b) \/ BusSend(b)
    BY <2>5 DEF BusTake, BusSend
  <2>6. CASE BusFree(b) \/ BusCrash(b)
    BY <2>6 DEF BusFree, BusCrash, Raises
  <2> QED
    BY <1>2, <2>1, <2>2, <2>3, <2>4, <2>5, <2>6 DEF BusStep
<1>3. ASSUME NEW c \in Callers, CallStep(c) PROVE SlotHeld'
  BY <1>3 DEF CallStep, Move, TorqueReturns, TorqueTimesOut, PostTorque, AskBus, GetBus,
              BusTimesOut, ReturnBus, Switch
<1>4. CASE ArmFollows \/ ArmByHand \/ UNCHANGED vars
  BY <1>4 DEF ArmFollows, ArmByHand
<1> QED
  BY <1>1, <1>2, <1>3, <1>4 DEF Next, Terminated

\* A torque write that reaches its servo adds it to those told; nobody else
\* writes torque while a thread is at it.
LEMMA ToldStep ==
  ASSUME TypeInv, OneLoop, Told, [Next]_vars, "ack" \notin Faults
  PROVE  Told'
<1> USE DEF Told, Applying, vars, ownerVars, busVars, armVars
<1>1. CASE OwnerStep
  <2>1. CASE Spawn
    BY <2>1 DEF Spawn, TypeInv, TypeOK, BusType
  <2>2. CASE StartPower
    BY <2>2 DEF StartPower, OneLoop, Starting, TypeInv, TypeOK, BusType
  <2>3. CASE StartPark
    BY <2>3 DEF StartPark, OneLoop, Starting, TypeInv, TypeOK, BusType
  <2>4. CASE Start \/ Prime \/ EepromLock \/ EepromCheck
    BY <2>4 DEF Start, Prime, EepromLock, EepromCheck
  <2>5. CASE Stop \/ Join \/ Close
    BY <2>5 DEF Stop, Join, Close
  <2> QED
    BY <1>1, <2>1, <2>2, <2>3, <2>4, <2>5 DEF OwnerStep
<1>2. ASSUME NEW b \in Threads, BusStep(b) PROVE Told'
  <2> USE DEF TypeInv, TypeOK, BusType
  <2>1. \A a \in Threads : a # b => pc'[a] \notin Applying
    <3>1. \A a \in Threads : a # b => pc'[a] = pc[a]
      BY <1>2 DEF BusStep, BusTest, BusLock, BusRead, BusWant, BusPark, BusTorque,
                  BusDone, BusTake, BusSend, BusFree, BusCrash, Raises
    <3>2. pc[b] \notin {"none", "exit"}
      BY <1>2 DEF BusStep, BusTest, BusLock, BusRead, BusWant, BusPark, BusTorque,
                  BusDone, BusTake, BusSend, BusFree, BusCrash, Raises
    <3> QED
      BY <3>1, <3>2 DEF OneLoop
  <2>2. CASE BusWant(b)
    <3>1. pc'[b] = "take" \/ (next'[b] = 1 /\ pc'[b] \in {"park", "torque"})
      BY <2>2 DEF BusWant
    <3>2. \A s \in Servos : ~(s < 1)
      OBVIOUS
    <3>3. pc'[b] \in Applying => next'[b] = 1 /\ pc'[b] # "done"
      BY <3>1
    <3> QED
      BY <2>1, <3>2, <3>3
  <2>3. CASE BusPark(b)
    BY <2>1, <2>3 DEF BusPark
  <2>4. CASE BusTorque(b)
    <3>1. /\ pc[b] = "torque"
          /\ torque' = [torque EXCEPT ![next[b]] = want[b]]
          /\ next' = [next EXCEPT ![b] = @ + 1]
          /\ pc'[b] = "done" => next[b] = N
          /\ want' = want
      BY <2>4 DEF BusTorque, WriteTorque
    <3>2. next[b] \in Servos /\ next'[b] = next[b] + 1
      BY <3>1 DEF Counters
    <3>3. \A s \in Servos : s < next'[b] => torque'[s] = want'[b]
      BY <3>1, <3>2 DEF ArmType
    <3> QED
      BY <2>1, <3>1, <3>2, <3>3
  <2>5. CASE BusDone(b) \/ BusTake(b) \/ BusSend(b) \/ BusFree(b) \/ BusCrash(b)
    BY <2>1, <2>5 DEF BusDone, BusTake, BusSend, BusFree, BusCrash, Raises
  <2>6. CASE BusTest(b) \/ BusLock(b) \/ BusRead(b)
    BY <2>1, <2>6 DEF BusTest, BusLock, BusRead
  <2> QED
    BY <1>2, <2>2, <2>3, <2>4, <2>5, <2>6 DEF BusStep
<1>3. ASSUME NEW c \in Callers, CallStep(c) PROVE Told'
  BY <1>3 DEF CallStep, Move, TorqueReturns, TorqueTimesOut, PostTorque, AskBus, GetBus,
              BusTimesOut, ReturnBus
<1>4. CASE ArmFollows \/ ArmByHand \/ UNCHANGED vars
  BY <1>4 DEF ArmFollows, ArmByHand
<1> QED
  BY <1>1, <1>2, <1>3, <1>4 DEF Next, Terminated

\* The slot is emptied together with the flag's update, after every servo was told.
LEMMA AwaitedStep ==
  ASSUME TypeInv, OneLoop, SlotHeld, Told, Awaited, [Next]_vars, "ack" \notin Faults
  PROVE  Awaited'
<1> USE DEF Awaited, Starting, Switch, vars, ownerVars, busVars, slotVars, callVars, armVars
<1>1. CASE OwnerStep
  <2>1. CASE Start
    BY <2>1 DEF Start, TypeInv, TypeOK, OwnerType, CallType, Counters
  <2>2. CASE Prime
    BY <2>2 DEF Prime, AfterPrime
  <2>3. CASE EepromLock \/ EepromCheck
    BY <2>3 DEF EepromLock, EepromCheck
  <2>4. CASE StartPark \/ StartPower \/ Spawn
    BY <2>4 DEF StartPark, StartPower, Spawn
  <2>5. CASE Stop \/ Join \/ Close
    BY <2>5 DEF Stop, Join, Close
  <2> QED
    BY <1>1, <2>1, <2>2, <2>3, <2>4, <2>5 DEF OwnerStep
<1>2. ASSUME NEW b \in Threads, BusStep(b) PROVE Awaited'
  <2>1. CASE BusTorque(b)
    BY <2>1 DEF BusTorque, SlotHeld, Applying
  <2>2. CASE BusDone(b)
    <3>1. \A s \in Servos : torque[s] = want[b]
      BY <2>2 DEF BusDone, Told, Applying
    <3>2. owner \in {"up", "join"}
      BY <2>2 DEF BusDone, OneLoop
    <3> QED
      BY <2>2, <3>1, <3>2 DEF BusDone
  <2>3. CASE BusWant(b) \/ BusPark(b) \/ BusTake(b) \/ BusSend(b)
    BY <2>3 DEF BusWant, BusPark, BusTake, BusSend
  <2>4. CASE BusTest(b) \/ BusLock(b) \/ BusRead(b) \/ BusFree(b) \/ BusCrash(b)
    BY <2>4 DEF BusTest, BusLock, BusRead, BusFree, BusCrash, Raises
  <2> QED
    BY <1>2, <2>1, <2>2, <2>3, <2>4 DEF BusStep
<1>3. ASSUME NEW c \in Callers, CallStep(c) PROVE Awaited'
  <2> USE DEF TypeInv, TypeOK, CallType
  <2>1. CASE Move(c) \/ AskBus(c) \/ GetBus(c) \/ BusTimesOut(c) \/ ReturnBus(c)
    BY <2>1 DEF Move, AskBus, GetBus, BusTimesOut, ReturnBus
  <2>2. CASE TorqueReturns(c) \/ TorqueTimesOut(c)
    BY <2>2 DEF TorqueReturns, TorqueTimesOut
  <2>3. ASSUME NEW t \in Switch, PostTorque(c, t) PROVE Awaited'
    BY <2>3 DEF PostTorque
  <2> QED
    BY <1>3, <2>1, <2>2, <2>3 DEF CallStep
<1>4. CASE ArmFollows \/ ArmByHand \/ UNCHANGED vars
  BY <1>4 DEF ArmFollows, ArmByHand
<1> QED
  BY <1>1, <1>2, <1>3, <1>4 DEF Next, Terminated

\* A disable that returned found every servo limp, and only an enable or a start()
\* may power one, which ends the reliance.
LEMMA NobodyPowersStep ==
  ASSUME TypeInv, OneLoop, SlotHeld, Awaited, NobodyPowers, [Next]_vars
  PROVE  NobodyPowers'
<1> USE DEF NobodyPowers, Starting, Applying, vars, ownerVars, busVars, slotVars,
            armVars, ghostVars
<1>1. CASE OwnerStep
  <2>1. CASE Start
    BY <2>1 DEF Start
  <2>2. CASE Prime \/ EepromLock \/ EepromCheck \/ StartPark \/ StartPower
    BY <2>2 DEF Prime, EepromLock, EepromCheck, StartPark, StartPower
  <2>3. CASE Spawn
    BY <2>3 DEF Spawn
  <2>4. CASE Stop \/ Join \/ Close
    BY <2>4 DEF Stop, Join, Close
  <2> QED
    BY <1>1, <2>1, <2>2, <2>3, <2>4 DEF OwnerStep
<1>2. ASSUME NEW b \in Threads, BusStep(b) PROVE NobodyPowers'
  <2> USE DEF TypeInv, TypeOK, BusType, Switch
  <2>1. CASE BusWant(b)
    BY <2>1 DEF BusWant, SlotType
  <2>2. CASE BusTorque(b)
    BY <2>2 DEF BusTorque, WriteTorque, ArmType
  <2>3. CASE BusPark(b) \/ BusDone(b)
    BY <2>3 DEF BusPark, BusDone
  <2>4. CASE BusTake(b) \/ BusSend(b)
    BY <2>4 DEF BusTake, BusSend
  <2>5. CASE BusTest(b) \/ BusLock(b) \/ BusRead(b) \/ BusFree(b) \/ BusCrash(b)
    BY <2>5 DEF BusTest, BusLock, BusRead, BusFree, BusCrash, Raises
  <2> QED
    BY <1>2, <2>1, <2>2, <2>3, <2>4, <2>5 DEF BusStep
<1>3. ASSUME NEW c \in Callers, CallStep(c) PROVE NobodyPowers'
  <2>1. CASE Move(c) \/ AskBus(c) \/ GetBus(c) \/ BusTimesOut(c) \/ ReturnBus(c)
    BY <2>1 DEF Move, AskBus, GetBus, BusTimesOut, ReturnBus
  <2>2. CASE TorqueReturns(c)
    BY <2>2 DEF TorqueReturns, Awaited, SlotHeld, Switch
  <2>3. CASE TorqueTimesOut(c)
    BY <2>3 DEF TorqueTimesOut
  <2>4. ASSUME NEW t \in Switch, PostTorque(c, t) PROVE NobodyPowers'
    BY <2>4 DEF PostTorque, Switch
  <2> QED
    BY <1>3, <2>1, <2>2, <2>3, <2>4 DEF CallStep
<1>4. CASE ArmFollows \/ ArmByHand \/ UNCHANGED vars
  BY <1>4 DEF ArmFollows, ArmByHand
<1> QED
  BY <1>1, <1>2, <1>3, <1>4 DEF Next, Terminated

\* If torque writes reach their servos and stop() always joins its thread, then
\* from the return of a disable_torque() to the next enable request or start()
\* every servo is limp, however the calls of any number of threads interleave.
THEOREM LimpCorrect ==
  ASSUME "ack" \notin Faults, "join" \notin Faults
  PROVE  Spec => []LimpHolds
<1>1. Init => LimpInv
  BY DEF Init, LimpInv, OneLoop, SlotHeld, Told, Awaited, NobodyPowers, Applying, Switch
<1>2. TypeInv /\ LimpInv /\ [Next]_vars => LimpInv'
  <2>1. OneLoop => OneApplies
    BY DEF OneLoop, OneApplies, Applying
  <2> QED
    BY <2>1, OneLoopStep, SlotHeldStep, ToldStep, AwaitedStep, NobodyPowersStep DEF LimpInv
<1>3. LimpInv => LimpHolds
  BY DEF LimpInv, NobodyPowers, LimpHolds
<1> QED
  BY <1>1, <1>2, <1>3, TypeInvariant, PTL DEF Spec

-----------------------------------------------------------------------------
(* The bus is serialised by _io_lock                                       *)

\* The owner, the bus threads, the callers and Nobody are different actors.
LEMMA Distinct ==
  /\ Nobody \notin Threads /\ Nobody \notin Callers /\ Nobody # Owner
  /\ Owner \notin Threads /\ Owner \notin Callers
  /\ \A b \in Threads : b \notin Callers
  BY NamesAssumption DEF Actors

\* Before start() nobody holds the lock and no thread runs.
LEMMA LockInit == Init => LockInv
  BY Distinct DEF Init, LockInv, LockAccounted, Unborn, Inside, Applying, Starting

\* A thread leaves "none" only by being spawned, in the session of its own.
LEMMA UnbornStep == ASSUME TypeInv, Unborn, [Next]_vars PROVE Unborn'
<1> USE DEF Unborn, Starting, vars, ownerVars, busVars, TypeInv, TypeOK, OwnerType, BusType
<1>1. CASE OwnerStep
  <2>1. CASE Start
    BY <2>1 DEF Start
  <2>2. CASE Prime
    BY <2>2 DEF Prime, AfterPrime
  <2>3. CASE EepromLock \/ EepromCheck \/ StartPark \/ StartPower
    BY <2>3 DEF EepromLock, EepromCheck, StartPark, StartPower
  <2>4. CASE Spawn
    BY <2>4 DEF Spawn, Counters
  <2>5. CASE Stop \/ Join \/ Close
    BY <2>5 DEF Stop, Join, Close
  <2> QED
    BY <1>1, <2>1, <2>2, <2>3, <2>4, <2>5 DEF OwnerStep
<1>2. ASSUME NEW b \in Threads, BusStep(b) PROVE Unborn'
  <2>1. pc[b] # "none" /\ UNCHANGED <<owner, session>>
    BY <1>2 DEF BusStep, BusTest, BusLock, BusRead, BusWant, BusPark, BusTorque, BusDone,
                BusTake, BusSend, BusFree, BusCrash, Raises
  <2>2. \A a \in Threads : a # b => pc'[a] = pc[a]
    BY <1>2 DEF BusStep, BusTest, BusLock, BusRead, BusWant, BusPark, BusTorque, BusDone,
                BusTake, BusSend, BusFree, BusCrash, Raises
  <2> QED
    BY <2>1, <2>2
<1>3. ASSUME NEW c \in Callers, CallStep(c) PROVE Unborn'
  BY <1>3 DEF CallStep, Move, TorqueReturns, TorqueTimesOut, PostTorque, AskBus, GetBus,
              BusTimesOut, ReturnBus
<1>4. CASE ArmFollows \/ ArmByHand \/ UNCHANGED vars
  BY <1>4 DEF ArmFollows, ArmByHand
<1> QED
  BY <1>1, <1>2, <1>3, <1>4 DEF Next, Terminated

\* Whoever enters a with block on the lock found it free, and leaves it free.
LEMMA LockStep ==
  ASSUME TypeInv, LockAccounted, Unborn, [Next]_vars
  PROVE  LockAccounted'
<1> USE Distinct
    DEF LockAccounted, Inside, Applying, vars, ownerVars, busVars, callVars
<1>1. CASE OwnerStep
  <2>1. CASE Start
    BY <2>1 DEF Start
  <2>2. CASE Prime
    BY <2>2 DEF Prime, AfterPrime
  <2>3. CASE EepromLock
    BY <2>3 DEF EepromLock
  <2>4. CASE EepromCheck
    BY <2>4 DEF EepromCheck
  <2>5. CASE StartPark \/ StartPower
    BY <2>5 DEF StartPark, StartPower
  <2>6. CASE Spawn
    <3>1. session \in Threads /\ pc[session] = "none"
      BY <2>6 DEF Spawn, Unborn, Starting, TypeInv, TypeOK, OwnerType, Counters
    <3> QED
      BY <2>6, <3>1 DEF Spawn, TypeInv, TypeOK, BusType
  <2>7. CASE Stop \/ Join \/ Close
    BY <2>7 DEF Stop, Join, Close
  <2> QED
    BY <1>1, <2>1, <2>2, <2>3, <2>4, <2>5, <2>6, <2>7 DEF OwnerStep
<1>2. ASSUME NEW b \in Threads, BusStep(b) PROVE LockAccounted'
  <2> USE DEF TypeInv, TypeOK, BusType
  <2>1. CASE BusTest(b)
    BY <2>1 DEF BusTest
  <2>2. CASE BusLock(b)
    BY <2>2 DEF BusLock
  <2>3. CASE BusRead(b) \/ BusWant(b) \/ BusPark(b)
    BY <2>3 DEF BusRead, BusWant, BusPark
  <2>4. CASE BusTorque(b) \/ BusDone(b)
    BY <2>4 DEF BusTorque, BusDone
  <2>7. CASE BusTake(b) \/ BusSend(b)
    BY <2>7 DEF BusTake, BusSend
  <2>5. CASE BusFree(b)
    BY <2>5 DEF BusFree
  <2>6. CASE BusCrash(b)
    BY <2>6 DEF BusCrash, Raises
  <2> QED
    BY <1>2, <2>1, <2>2, <2>3, <2>4, <2>5, <2>6, <2>7 DEF BusStep
<1>3. ASSUME NEW c \in Callers, CallStep(c) PROVE LockAccounted'
  <2> USE DEF TypeInv, TypeOK, CallType
  <2>1. CASE Move(c) \/ AskBus(c) \/ BusTimesOut(c)
    BY <2>1 DEF Move, AskBus, BusTimesOut
  <2>2. CASE TorqueReturns(c) \/ TorqueTimesOut(c)
    BY <2>2 DEF TorqueReturns, TorqueTimesOut, Switch
  <2>3. ASSUME NEW t \in Switch, PostTorque(c, t) PROVE LockAccounted'
    BY <2>3 DEF PostTorque, Switch
  <2>4. CASE GetBus(c)
    BY <2>4 DEF GetBus
  <2>5. CASE ReturnBus(c)
    BY <2>5 DEF ReturnBus
  <2> QED
    BY <1>3, <2>1, <2>2, <2>3, <2>4, <2>5 DEF CallStep
<1>4. CASE ArmFollows \/ ArmByHand \/ UNCHANGED vars
  BY <1>4 DEF ArmFollows, ArmByHand
<1> QED
  BY <1>1, <1>2, <1>3, <1>4 DEF Next, Terminated

\* Every step keeps the lock accounted for, and no thread runs before its start().
LEMMA LockInvariant == Spec => []LockInv
<1>1. TypeInv /\ LockInv /\ [Next]_vars => LockInv'
  BY LockStep, UnbornStep DEF LockInv
<1> QED
  BY <1>1, LockInit, TypeInvariant, PTL DEF Spec

\* _io_lock is with whoever is inside a with block on it, whatever fails: a join that
\* expires, a thread that dies or a caller that gives up does not lose or leak it.
THEOREM LockKept == Spec => []LockAccounted
<1>1. LockInv => LockAccounted
  BY DEF LockInv
<1> QED
  BY <1>1, LockInvariant, PTL

\* Bus threads, borrowers and start()'s EEPROM check are never in a transaction at the
\* same time, whatever fails and however many threads stop() left behind.  (The other
\* transactions of start() take no lock and are not among them.)
THEOREM BusSerialised == Spec => []BorrowExclusive
<1>1. LockInv => BorrowExclusive
  BY DEF LockInv, LockAccounted, BorrowExclusive, Transacting, Inside, Applying
<1> QED
  BY <1>1, LockInvariant, PTL

\* A torque request stays in its slot until the thread that read it has applied it.
THEOREM SlotKept == Spec => []SlotHeld
<1>1. Init => SlotHeld
  BY DEF Init, SlotHeld, Applying
<1>2. TypeInv /\ LockInv /\ SlotHeld /\ [Next]_vars => SlotHeld'
  <2>1. LockInv => OneApplies
    BY DEF LockInv, LockAccounted, OneApplies, Inside
  <2> QED
    BY <2>1, SlotHeldStep
<1> QED
  BY <1>1, <1>2, TypeInvariant, LockInvariant, PTL DEF Spec

-----------------------------------------------------------------------------
(* No move outlives a disable: the one in the slot is as new as the latest *)

FreshMove == \A m \in pendCmd : m.epoch = epoch

LEMMA FreshMoveStep == ASSUME FreshMove, [Next]_vars PROVE FreshMove'
<1> USE DEF FreshMove, vars, slotVars, ghostVars
<1>1. CASE OwnerStep
  BY <1>1 DEF OwnerStep, Start, Prime, EepromLock, EepromCheck, StartPark, StartPower,
              Spawn, Stop, Join, Close
<1>2. ASSUME NEW b \in Threads, BusStep(b) PROVE FreshMove'
  BY <1>2 DEF BusStep, BusTest, BusLock, BusRead, BusWant, BusPark, BusTorque, BusDone,
              BusTake, BusSend, BusFree, BusCrash, Raises
<1>3. ASSUME NEW c \in Callers, CallStep(c) PROVE FreshMove'
  <2>1. CASE Move(c)
    BY <2>1 DEF Move
  <2>2. ASSUME NEW t \in Switch, PostTorque(c, t) PROVE FreshMove'
    BY <2>2 DEF PostTorque
  <2>3. CASE ~Move(c) /\ ~\E t \in Switch : PostTorque(c, t)
    BY <1>3, <2>3 DEF CallStep, TorqueReturns, TorqueTimesOut, AskBus, GetBus,
                      BusTimesOut, ReturnBus
  <2> QED
    BY <2>1, <2>2, <2>3
<1>4. CASE ArmFollows \/ ArmByHand \/ Terminated \/ UNCHANGED vars
  BY <1>4 DEF ArmFollows, ArmByHand, Terminated
<1> QED
  BY <1>1, <1>2, <1>3, <1>4 DEF Next

\* A move that goes on the wire was queued after the latest disable request, whatever
\* fails and whichever thread sends it: set_torque drops the queued move and takes the
\* slot in one critical section.
THEOREM NoMoveOutlives == Spec => NoStaleMove
<1>1. Init => FreshMove
  BY DEF Init, FreshMove
<1>2. FreshMove => [\A b \in Threads :
        pc[b] = "take" /\ pc'[b] = "send" => \A m \in pendCmd : m.epoch = epoch]_vars
  BY DEF FreshMove
<1> QED
  BY <1>1, <1>2, FreshMoveStep, PTL DEF Spec, NoStaleMove

-----------------------------------------------------------------------------
(* A limp joint takes no goal                                              *)

\* Stop() and a start() that raised come before Close, and nothing else closes the port.
LEMMA PortOpenStep == ASSUME PortOpen, [Next]_vars PROVE PortOpen'
<1> USE DEF PortOpen, Starting, vars, ownerVars
<1>1. CASE OwnerStep
  <2>1. CASE Start \/ Prime
    BY <2>1 DEF Start, Prime, AfterPrime
  <2>2. CASE EepromLock \/ EepromCheck \/ StartPark \/ StartPower \/ Spawn
    BY <2>2 DEF EepromLock, EepromCheck, StartPark, StartPower, Spawn
  <2>3. CASE Stop \/ Join \/ Close
    BY <2>3 DEF Stop, Join, Close
  <2> QED
    BY <1>1, <2>1, <2>2, <2>3 DEF OwnerStep
<1>2. ASSUME NEW b \in Threads, BusStep(b) PROVE PortOpen'
  BY <1>2 DEF BusStep, BusTest, BusLock, BusRead, BusWant, BusPark, BusTorque, BusDone,
              BusTake, BusSend, BusFree, BusCrash, Raises
<1>3. ASSUME NEW c \in Callers, CallStep(c) PROVE PortOpen'
  BY <1>3 DEF CallStep, Move, TorqueReturns, TorqueTimesOut, PostTorque, AskBus, GetBus,
              BusTimesOut, ReturnBus
<1>4. CASE ArmFollows \/ ArmByHand \/ Terminated \/ UNCHANGED vars
  BY <1>4 DEF ArmFollows, ArmByHand, Terminated
<1> QED
  BY <1>1, <1>2, <1>3, <1>4 DEF Next

\* Only a thread that applies a request writes torque beside start(), and none of
\* those is alive then.
LEMMA PowerUpStep ==
  ASSUME TypeInv, OneLoop, PowerUp, [Next]_vars, "ack" \notin Faults
  PROVE  PowerUp'
<1> USE DEF PowerUp, AllOn, vars, ownerVars, busVars, armVars
<1>1. CASE OwnerStep
  <2>1. CASE StartPower
    <3>1. /\ next[Owner] \in Servos
          /\ torque' = [torque EXCEPT ![next[Owner]] = "on"]
          /\ next'[Owner] = next[Owner] + 1
          /\ owner' = "spawn" => next[Owner] = N
      BY <2>1 DEF StartPower, WriteTorque, TypeInv, TypeOK, BusType, Counters
    <3>2. \A s \in Servos : s < next[Owner] + 1 => torque'[s] = "on"
      BY <2>1, <3>1 DEF StartPower, TypeInv, TypeOK, ArmType
    <3> QED
      BY <3>1, <3>2
  <2>2. CASE StartPark
    <3>1. owner' = "power" => next'[Owner] = 1
      BY <2>2 DEF StartPark, TypeInv, TypeOK, BusType
    <3> QED
      BY <2>2, <3>1 DEF StartPark
  <2>3. CASE Start \/ Prime \/ EepromLock \/ EepromCheck
    BY <2>3 DEF Start, Prime, AfterPrime, EepromLock, EepromCheck
  <2>4. CASE Spawn \/ Stop \/ Join \/ Close
    BY <2>4 DEF Spawn, Stop, Join, Close
  <2> QED
    BY <1>1, <2>1, <2>2, <2>3, <2>4 DEF OwnerStep
<1>2. ASSUME NEW b \in Threads, BusStep(b) PROVE PowerUp'
  <2>1. owner \in {"up", "join"} /\ owner' = owner
    BY <1>2 DEF OneLoop, BusStep, BusTest, BusLock, BusRead, BusWant, BusPark, BusTorque,
                BusDone, BusTake, BusSend, BusFree, BusCrash, Raises
  <2> QED
    BY <2>1
<1>3. ASSUME NEW c \in Callers, CallStep(c) PROVE PowerUp'
  BY <1>3 DEF CallStep, Move, TorqueReturns, TorqueTimesOut, PostTorque, AskBus, GetBus,
              BusTimesOut, ReturnBus
<1>4. CASE ArmFollows \/ ArmByHand \/ Terminated \/ UNCHANGED vars
  BY <1>4 DEF ArmFollows, ArmByHand, Terminated
<1> QED
  BY <1>1, <1>2, <1>3, <1>4 DEF Next

\* The flag turns on when every servo was told, and a thread that is told to cut
\* torque turns it off when it is done.
LEMMA PoweredStep ==
  ASSUME TypeInv, OneLoop, SlotHeld, Told, PortOpen, PowerUp, Powered, SendPowered,
         [Next]_vars
  PROVE  Powered'
<1> USE DEF Powered, AllOn, vars, ownerVars, busVars, slotVars, armVars
<1>1. CASE OwnerStep
  <2>1. CASE Spawn
    <3>1. \A b \in Threads : pc[b] \in {"none", "exit"}
      BY <2>1 DEF Spawn, OneLoop
    <3>2. enabled = "on" => AllOn \/ pendTorque # "none"
      BY <2>1, <3>1 DEF Spawn, PowerUp
    <3>3. \A b \in Threads : pc'[b] \in {"none", "test", "exit"}
      BY <2>1, <3>1 DEF Spawn, TypeInv, TypeOK, BusType
    <3> QED
      BY <2>1, <3>2, <3>3 DEF Spawn
  <2>2. CASE StartPower
    <3>1. AllOn => AllOn'
      BY <2>2 DEF StartPower, WriteTorque, TypeInv, TypeOK, ArmType
    <3> QED
      BY <2>2, <3>1 DEF StartPower
  <2>3. CASE Start \/ Prime \/ EepromLock \/ EepromCheck \/ StartPark
    BY <2>3 DEF Start, Prime, EepromLock, EepromCheck, StartPark
  <2>4. CASE Stop \/ Join \/ Close
    BY <2>4 DEF Stop, Join, Close
  <2> QED
    BY <1>1, <2>1, <2>2, <2>3, <2>4 DEF OwnerStep
<1>2. ASSUME NEW b \in Threads, BusStep(b) PROVE Powered'
  <2> USE DEF TypeInv, TypeOK, BusType
  <2>1. /\ pc[b] \notin {"none", "exit"} /\ srv
        /\ \A a \in Threads : a # b => pc[a] \in {"none", "exit"}
    BY <1>2 DEF OneLoop, PortOpen, BusStep, BusTest, BusLock, BusRead, BusWant, BusPark,
                BusTorque, BusDone, BusTake, BusSend, BusFree, BusCrash, Raises
  <2> DEFINE Due == /\ pendTorque # "none"
                    /\ pc[b] \in {"test", "lock", "read", "want", "park"}
  <2>2. enabled = "on" => AllOn \/ pc[b] \in {"torque", "done"} \/ Due
    BY <2>1
  <2>3. CASE BusTorque(b)
    BY <2>3 DEF BusTorque
  <2>4. CASE BusDone(b)
    <3>1. \A s \in Servos : torque[s] = want[b]
      BY <2>4 DEF BusDone, Told, Applying
    <3> QED
      BY <2>4, <3>1 DEF BusDone
  <2>5. CASE BusTake(b) \/ BusSend(b) \/ BusFree(b)
    BY <2>2, <2>5 DEF BusTake, BusSend, BusFree
  <2>6. CASE BusTest(b) \/ BusLock(b) \/ BusRead(b) \/ BusWant(b) \/ BusPark(b)
    <3>1. /\ pc'[b] \in {"test", "lock", "read", "want", "park", "torque", "take", "exit"}
          /\ pc'[b] = "take" => pendTorque = "none"
          /\ pc[b] \in {"test", "lock", "read", "want", "park"}
          /\ UNCHANGED <<enabled, pendTorque, torque>>
          /\ \A a \in Threads : a # b => pc'[a] = pc[a]
      BY <2>1, <2>6 DEF BusTest, BusLock, BusRead, BusWant, BusPark
    <3>2. Due => pc'[b] # "take"
      BY <3>1
    <3> QED
      BY <2>1, <2>2, <3>1, <3>2
  <2>7. CASE BusCrash(b)
    <3>1. pc[b] = "torque" => pendTorque # "none"
      BY <2>7 DEF SlotHeld, Applying
    <3>2. \A a \in Threads : pc'[a] \in {"none", "exit"}
      BY <2>1, <2>7 DEF BusCrash
    <3>3. pc[b] # "done"
      BY <2>7 DEF BusCrash, Raises
    <3> QED
      BY <2>2, <2>7, <3>1, <3>2, <3>3 DEF BusCrash
  <2> QED
    BY <1>2, <2>3, <2>4, <2>5, <2>6, <2>7 DEF BusStep
<1>3. ASSUME NEW c \in Callers, CallStep(c) PROVE Powered'
  <2>1. ASSUME NEW t \in Switch, PostTorque(c, t) PROVE Powered'
    BY <2>1 DEF PostTorque, Switch
  <2>2. CASE Move(c) \/ AskBus(c) \/ GetBus(c) \/ BusTimesOut(c) \/ ReturnBus(c)
    BY <2>2 DEF Move, AskBus, GetBus, BusTimesOut, ReturnBus
  <2>3. CASE TorqueReturns(c) \/ TorqueTimesOut(c)
    BY <2>3 DEF TorqueReturns, TorqueTimesOut
  <2> QED
    BY <1>3, <2>1, <2>2, <2>3 DEF CallStep
<1>4. CASE ArmFollows \/ ArmByHand \/ Terminated \/ UNCHANGED vars
  BY <1>4 DEF ArmFollows, ArmByHand, Terminated
<1> QED
  BY <1>1, <1>2, <1>3, <1>4 DEF Next

\* A thread goes on to send a move only over the flag, and it is the only one.
LEMMA SendPoweredStep ==
  ASSUME TypeInv, OneLoop, Powered, SendPowered, [Next]_vars
  PROVE  SendPowered'
<1> USE DEF SendPowered, AllOn, vars, ownerVars, busVars, slotVars, armVars
<1>1. CASE OwnerStep
  <2>1. CASE Spawn
    BY <2>1 DEF Spawn, TypeInv, TypeOK, BusType
  <2>2. CASE StartPower
    BY <2>2 DEF StartPower, WriteTorque, TypeInv, TypeOK, ArmType
  <2>3. CASE Start \/ Prime \/ EepromLock \/ EepromCheck \/ StartPark
    BY <2>3 DEF Start, Prime, EepromLock, EepromCheck, StartPark
  <2>4. CASE Stop \/ Join \/ Close
    BY <2>4 DEF Stop, Join, Close
  <2> QED
    BY <1>1, <2>1, <2>2, <2>3, <2>4 DEF OwnerStep
<1>2. ASSUME NEW b \in Threads, BusStep(b) PROVE SendPowered'
  <2> USE DEF TypeInv, TypeOK, BusType
  <2>1. \A a \in Threads : a # b => pc[a] \in {"none", "exit"} /\ pc'[a] = pc[a]
    BY <1>2 DEF OneLoop, BusStep, BusTest, BusLock, BusRead, BusWant, BusPark, BusTorque,
                BusDone, BusTake, BusSend, BusFree, BusCrash, Raises
  <2>2. CASE BusTake(b)
    <3>1. pc'[b] = "send" => enabled # "off"
      BY <2>2 DEF BusTake
    <3>2. enabled = "on" => AllOn
      BY <2>1, <2>2 DEF BusTake, Powered
    <3> QED
      BY <2>1, <2>2, <3>1, <3>2 DEF BusTake, SlotType, Switch
  <2>3. CASE ~BusTake(b)
    <3>1. pc'[b] # "send"
      BY <1>2, <2>3 DEF BusStep, BusTest, BusLock, BusRead, BusWant, BusPark, BusTorque,
                        BusDone, BusSend, BusFree, BusCrash, Raises
    <3> QED
      BY <2>1, <3>1
  <2> QED
    BY <2>2, <2>3
<1>3. ASSUME NEW c \in Callers, CallStep(c) PROVE SendPowered'
  BY <1>3 DEF CallStep, Move, TorqueReturns, TorqueTimesOut, PostTorque, AskBus, GetBus,
              BusTimesOut, ReturnBus
<1>4. CASE ArmFollows \/ ArmByHand \/ Terminated \/ UNCHANGED vars
  BY <1>4 DEF ArmFollows, ArmByHand, Terminated
<1> QED
  BY <1>1, <1>2, <1>3, <1>4 DEF Next

\* If torque writes reach their servos and stop() always joins its thread, a move is
\* written only while every servo is powered, across any number of restarts: the flag
\* that _write_if_pending tests never claims a torque that is not there.
THEOREM LimpGetsNoGoal ==
  ASSUME "ack" \notin Faults, "join" \notin Faults
  PROVE  Spec => LimpTakesNoGoal
<1>1. Init => GoalInv
  BY DEF Init, GoalInv, OneLoop, SlotHeld, Told, PortOpen, PowerUp, Powered, SendPowered, Starting,
         Applying
<1>2. TypeInv /\ GoalInv /\ [Next]_vars => GoalInv'
  <2>1. OneLoop => OneApplies
    BY DEF OneLoop, OneApplies, Applying
  <2> QED
    BY <2>1, OneLoopStep, SlotHeldStep, ToldStep, PortOpenStep, PowerUpStep, PoweredStep,
       SendPoweredStep DEF GoalInv
<1>3. GoalInv => [\A b \in Threads : pc[b] = "send" /\ pc'[b] = "free"
                    => \A s \in Servos : torque[s] = "on"]_vars
  BY DEF GoalInv, SendPowered, AllOn
<1> QED
  BY <1>1, <1>2, <1>3, TypeInvariant, PTL DEF Spec, LimpTakesNoGoal

-----------------------------------------------------------------------------
(* A servo that is powered up holds its pose                               *)

\* From the read to the park the cache is where the arm is, from the park until the
\* last servo is powered its goal is; an arm that is powered throughout may move.
ReadFirst ==
    /\ owner = "park" => AllOn \/ cache = arm
    /\ owner = "power" => AllOn \/ goal = arm
    /\ \A b \in Threads :
         /\ pc[b] \in {"want", "park"} => AllOn \/ cache = arm
         /\ pc[b] = "torque" /\ want[b] = "on" => AllOn \/ goal = arm

\* Without a calibration on record start() never compares one with the servos.
Unchecked == owner \notin {"eeprom", "limits"}

LEMMA UncheckedStep == ASSUME Unchecked, [Next]_vars, ~Recorded PROVE Unchecked'
<1> USE DEF Unchecked, vars, ownerVars
<1>1. CASE OwnerStep
  BY <1>1 DEF OwnerStep, Start, Prime, AfterPrime, EepromLock, EepromCheck, StartPark,
              StartPower, Spawn, Stop, Join, Close
<1>2. ASSUME NEW b \in Threads, BusStep(b) PROVE Unchecked'
  BY <1>2 DEF BusStep, BusTest, BusLock, BusRead, BusWant, BusPark, BusTorque, BusDone,
              BusTake, BusSend, BusFree, BusCrash
<1>3. ASSUME NEW c \in Callers, CallStep(c) PROVE Unchecked'
  BY <1>3 DEF CallStep, Move, TorqueReturns, TorqueTimesOut, PostTorque, AskBus, GetBus,
              BusTimesOut, ReturnBus
<1>4. CASE ArmFollows \/ ArmByHand \/ Terminated \/ UNCHANGED vars
  BY <1>4 DEF ArmFollows, ArmByHand, Terminated
<1> QED
  BY <1>1, <1>2, <1>3, <1>4 DEF Next

LEMMA ReadFirstStep ==
  ASSUME TypeInv, OneLoop, PortOpen, Unchecked, ReadFirst, [Next]_vars, ~Recorded,
         "read" \notin Faults, "sync" \notin Faults
  PROVE  ReadFirst'
<1> USE DEF vars, ownerVars, busVars, cacheVars, armVars
<1>1. CASE OwnerStep
  <2>1. CASE Prime
    <3>1. /\ owner' \in {"prime", "park", "spawn"} /\ cache' = arm
          /\ UNCHANGED <<arm, goal, torque, pc, want>>
      BY <2>1 DEF Prime, ReadOnce, AfterPrime
    <3>2. \A b \in Threads : pc[b] \in {"none", "exit"}
      BY <2>1 DEF Prime, OneLoop
    <3> QED
      BY <3>1, <3>2 DEF ReadFirst
  <2>2. CASE StartPark
    <3>1. /\ owner' \in {"failed", "power"} /\ UNCHANGED <<arm, cache, torque, pc, want>>
          /\ owner' = "power" => goal' = cache
          /\ owner = "park"
      BY <2>2 DEF StartPark, SyncWrite
    <3>2. \A b \in Threads : pc[b] \in {"none", "exit"}
      BY <3>1 DEF OneLoop
    <3> QED
      BY <3>1, <3>2 DEF ReadFirst, AllOn
  <2>3. CASE StartPower
    <3>1. /\ owner = "power" /\ owner' \in {"power", "spawn"}
          /\ UNCHANGED <<arm, goal, cache, pc, want>>
      BY <2>3 DEF StartPower
    <3>2. AllOn => AllOn'
      BY <2>3 DEF StartPower, WriteTorque, AllOn, TypeInv, TypeOK, ArmType
    <3> QED
      BY <3>1, <3>2 DEF ReadFirst
  <2>4. CASE Spawn
    BY <2>4 DEF Spawn, ReadFirst, AllOn, TypeInv, TypeOK, BusType
  <2>5. CASE EepromLock \/ EepromCheck
    BY <2>5 DEF EepromLock, EepromCheck, Unchecked
  <2>6. CASE Start \/ Stop \/ Join \/ Close
    BY <2>6 DEF Start, Stop, Join, Close, ReadFirst, AllOn
  <2> QED
    BY <1>1, <2>1, <2>2, <2>3, <2>4, <2>5, <2>6 DEF OwnerStep
<1>2. ASSUME NEW b \in Threads, BusStep(b) PROVE ReadFirst'
  <2> USE DEF TypeInv, TypeOK, BusType
  <2>1. /\ \A a \in Threads : a # b => pc[a] \in {"none", "exit"} /\ pc'[a] = pc[a]
        /\ srv /\ owner \in {"up", "join"} /\ UNCHANGED <<owner, arm>>
    BY <1>2 DEF OneLoop, PortOpen, BusStep, BusTest, BusLock, BusRead, BusWant, BusPark,
                BusTorque, BusDone, BusTake, BusSend, BusFree, BusCrash, Raises
  <2>2. CASE BusRead(b)
    <3>1. cache' = arm
      BY <2>1, <2>2 DEF BusRead, ReadOnce
    <3> QED
      BY <2>1, <2>2, <3>1 DEF BusRead, ReadFirst
  <2>3. CASE BusWant(b)
    <3>1. pc'[b] = "torque" => want'[b] # "on"
      BY <2>3 DEF BusWant
    <3>2. pc'[b] # "want" /\ UNCHANGED <<cache, torque>>
      BY <2>3 DEF BusWant
    <3>3. AllOn \/ cache = arm
      BY <2>3 DEF BusWant, ReadFirst
    <3> QED
      BY <2>1, <3>1, <3>2, <3>3 DEF ReadFirst, AllOn
  <2>4. CASE BusPark(b)
    <3>1. /\ goal' = cache /\ pc'[b] = "torque" /\ UNCHANGED torque
          /\ AllOn \/ cache = arm
      BY <2>1, <2>4 DEF BusPark, SyncWrite, ReadFirst
    <3> QED
      BY <2>1, <3>1 DEF ReadFirst, AllOn
  <2>5. CASE BusTorque(b)
    <3>1. want'[b] = want[b] /\ goal' = goal /\ pc[b] = "torque" /\ pc'[b] \in {"torque", "done"}
      BY <2>5 DEF BusTorque
    <3>2. want[b] = "on" /\ AllOn => AllOn'
      BY <2>5 DEF BusTorque, WriteTorque, AllOn, ArmType
    <3> QED
      BY <2>1, <3>1, <3>2 DEF ReadFirst
  <2>6. CASE BusTest(b) \/ BusLock(b) \/ BusDone(b) \/ BusTake(b)
    <3>1. pc'[b] \notin {"want", "park", "torque"}
      BY <2>6 DEF BusTest, BusLock, BusDone, BusTake
    <3> QED
      BY <2>1, <3>1 DEF ReadFirst
  <2>7. CASE BusSend(b) \/ BusFree(b) \/ BusCrash(b)
    <3>1. pc'[b] \notin {"want", "park", "torque"}
      BY <2>7 DEF BusSend, BusFree, BusCrash
    <3> QED
      BY <2>1, <3>1 DEF ReadFirst
  <2> QED
    BY <1>2, <2>2, <2>3, <2>4, <2>5, <2>6, <2>7 DEF BusStep
<1>3. ASSUME NEW c \in Callers, CallStep(c) PROVE ReadFirst'
  BY <1>3 DEF CallStep, Move, TorqueReturns, TorqueTimesOut, PostTorque, AskBus, GetBus,
              BusTimesOut, ReturnBus, ReadFirst, AllOn
<1>4. CASE ArmFollows
  BY <1>4 DEF ArmFollows, ReadFirst, AllOn
<1>5. CASE ArmByHand
  BY <1>5 DEF ArmByHand, ReadFirst, AllOn
<1>6. CASE Terminated \/ UNCHANGED vars
  BY <1>6 DEF Terminated, ReadFirst, AllOn
<1> QED
  BY <1>1, <1>2, <1>3, <1>4, <1>5, <1>6 DEF Next

\* "Parking first makes enabling torque a hold rather than a move": if reads and park
\* broadcasts succeed, stop() joins its thread and no calibration is compared with the
\* servos between the read and the park, a servo is powered only with its goal at the
\* pose the arm is in, in start() and after set_torque() alike; torque writes may be lost.
THEOREM EnablingHolds ==
  ASSUME "read" \notin Faults, "sync" \notin Faults, "join" \notin Faults, ~Recorded
  PROVE  Spec => EnableIsHold
<1> DEFINE Inv == OneLoop /\ PortOpen /\ Unchecked /\ ReadFirst
<1>1. Init => Inv
  BY DEF Init, OneLoop, PortOpen, Unchecked, ReadFirst, Starting
<1>2. TypeInv /\ Inv /\ [Next]_vars => Inv'
  BY OneLoopStep, PortOpenStep, UncheckedStep, ReadFirstStep
<1>3. TypeInv /\ Inv /\ [Next]_vars
        => [\A s \in Servos : torque[s] = "off" /\ torque'[s] = "on" => goal = arm]_vars
  <2> SUFFICES ASSUME TypeInv, Inv, Next, NEW s \in Servos, torque[s] = "off", torque'[s] = "on"
               PROVE  goal = arm
    OBVIOUS
  <2>1. ~AllOn
    BY DEF AllOn
  <2>2. CASE StartPower
    BY <2>1, <2>2 DEF StartPower, ReadFirst
  <2>3. ASSUME NEW b \in Threads, BusTorque(b) PROVE goal = arm
    <3>1. want[b] = "on"
      BY <2>3 DEF BusTorque, WriteTorque, TypeInv, TypeOK, ArmType
    <3> QED
      BY <2>1, <2>3, <3>1 DEF BusTorque, ReadFirst
  <2>4. CASE UNCHANGED torque
    BY <2>4
  <2>5. CASE OwnerStep
    BY <2>2, <2>4, <2>5 DEF OwnerStep, Start, Prime, EepromLock, EepromCheck, StartPark,
                            Spawn, Stop, Join, Close, armVars
  <2>6. ASSUME NEW b \in Threads, BusStep(b) PROVE goal = arm
    BY <2>3, <2>4, <2>6 DEF BusStep, BusTest, BusLock, BusRead, BusWant, BusPark, BusDone,
                            BusTake, BusSend, BusFree, BusCrash, armVars
  <2>7. ASSUME NEW c \in Callers, CallStep(c) PROVE goal = arm
    BY <2>4, <2>7 DEF CallStep, Move, TorqueReturns, TorqueTimesOut, PostTorque, AskBus,
                      GetBus, BusTimesOut, ReturnBus, armVars
  <2>8. CASE ArmFollows \/ ArmByHand \/ Terminated
    BY <2>4, <2>8 DEF ArmFollows, ArmByHand, Terminated, vars, armVars
  <2> QED
    BY <2>5, <2>6, <2>7, <2>8 DEF Next
<1> QED
  BY <1>1, <1>2, <1>3, TypeInvariant, PTL DEF Spec, EnableIsHold

=============================================================================
