------------------------------ MODULE ServoBus ------------------------------
(***************************************************************************)
(* ServoHardwareInterface (robot/hardware.py): one owner thread that calls *)
(* start() and stop(), the bus thread each start() spawns, and any number  *)
(* of caller threads that queue moves, switch torque and borrow the bus.   *)
(*                                                                         *)
(* Grain of atomicity: one action per lock-protected block and one per bus *)
(* transaction, so that every interleaving of the threads between two of   *)
(* those is explored.                                                      *)
(*                                                                         *)
(* The arm is abstracted to one pose.  A goal is a broadcast sync-write    *)
(* that all servos take or all miss; torque is written servo by servo.     *)
(***************************************************************************)
EXTENDS Naturals

CONSTANTS
    N,             \* number of servos on the bus; joint_ids is 1..N
    Callers,       \* threads that call the public methods
    Nobody,        \* the value of a lock that is not held
    Poses,         \* the poses of the arm that are told apart
    Zero,          \* the pose every joint reports at TICK_ZERO
    TorqueOnStart, \* the constructor's torque_on_start
    Recorded,      \* a calibration is given whose EEPROM limits start() checks
    Faults,        \* what may go wrong, a subset of FaultKinds
    MaxSessions,   \* bound: how often start() is called
    MaxCalls       \* bound: how many calls the callers make in all

FaultKinds ==
    { "open",   \* the port cannot be opened
      "read",   \* a sync-read transaction, or a register read, fails
      "ack",    \* a torque write does not reach its servo
      "sync",   \* a sync-write broadcast reaches no servo
      "line",   \* the port raises under the bus thread
      "join" }  \* a borrower keeps the bus beyond the 2 s stop() waits

Servos  == 1..N
Threads == 1..MaxSessions   \* the bus thread of each start()
Owner   == 0                \* the thread that calls start() and stop()
Actors  == {Owner} \cup Threads \cup Callers

ASSUME SizesAssumption ==
    N \in Nat \ {0} /\ MaxSessions \in Nat \ {0} /\ MaxCalls \in Nat
ASSUME PosesAssumption   == Zero \in Poses
ASSUME FaultsAssumption  == Faults \subseteq FaultKinds
ASSUME FlagsAssumption   == TorqueOnStart \in BOOLEAN /\ Recorded \in BOOLEAN
ASSUME NamesAssumption   ==
    /\ Nobody \notin Actors
    /\ Callers \cap ({Owner} \cup Threads) = {}

VARIABLES
    \* the owner thread and what start()/stop() set
    owner,       \* where the owner thread is
    session,     \* how many times start() was called
    tries,       \* reads left to prime the cache with
    srv,         \* _srv is set (the port is open)
    running,     \* _running
    \* the bus threads
    pc,          \* where each bus thread is in _read_loop
    want,        \* its local copy of the torque request
    cmd,         \* its local copy of the move: {} or {move}
    next,        \* the servo whose torque is written next, by the owner or a thread
    \* locks and slots shared by all threads
    ioLock,      \* holder of _io_lock
    pendTorque,  \* _pending_torque
    pendCmd,     \* _pending_command: {} or {move}
    enabled,     \* _torque_enabled
    cache,       \* _cached_positions_ticks
    everRead,    \* _last_read_time > 0
    sent,        \* _sent_ticks: {} or {pose}
    \* the callers
    op,          \* the call each caller is in
    since,       \* history: the session in which that call began
    calls,       \* calls left
    \* the arm
    arm,         \* where it is
    goal,        \* GOAL_POSITION
    torque,      \* TORQUE_ENABLE of each servo
    \* history
    epoch,       \* disable requests posted so far
    safe         \* a caller was told that the arm is limp, and nobody
                 \* has asked for torque since

ownerVars == <<owner, session, tries, srv, running>>
busVars   == <<pc, want, cmd, next, ioLock>>
slotVars  == <<pendTorque, pendCmd, enabled>>
cacheVars == <<cache, everRead, sent>>
callVars  == <<op, since, calls>>
armVars   == <<arm, goal, torque>>
ghostVars == <<epoch, safe>>
vars == <<ownerVars, busVars, slotVars, cacheVars, callVars, armVars, ghostVars>>

Switch == {"on", "off"}
Moves  == [to : Poses, epoch : 0..MaxCalls]

Starting == {"prime", "eeprom", "limits", "park", "power", "spawn"}
Applying == {"park", "torque", "done"}

OwnerType ==
    /\ owner \in {"idle", "failed", "up", "join", "close"} \cup Starting
    /\ session \in 0..MaxSessions
    /\ tries \in 0..3
BusType ==
    /\ pc \in [Threads -> {"none", "test", "lock", "read", "want", "take",
                           "send", "free", "exit"} \cup Applying]
    /\ want \in [Threads -> Switch]
    /\ cmd \in [Threads -> SUBSET Moves]
    /\ next \in [{Owner} \cup Threads -> 1..(N + 1)]
    /\ ioLock \in Actors \cup {Nobody}
SlotType ==
    /\ pendTorque \in Switch \cup {"none"}
    /\ pendCmd \in SUBSET Moves
    /\ enabled \in Switch
CacheType == cache \in Poses /\ sent \in SUBSET Poses
CallType ==
    /\ op \in [Callers -> {"idle", "borrow", "use"} \cup Switch]
    /\ since \in [Callers -> 0..MaxSessions]
    /\ calls \in 0..MaxCalls
    /\ epoch \in 0..MaxCalls
ArmType   == arm \in Poses /\ goal \in Poses /\ torque \in [Servos -> Switch]
FlagType  == {srv, running, everRead, safe} \subseteq BOOLEAN

\* The ranges of the variables: no counter or index of the code leaves its own.
TypeOK == /\ OwnerType /\ BusType /\ SlotType /\ CacheType /\ CallType
          /\ ArmType   /\ FlagType

(***************************************************************************)
(* The servos may have been left powered, with any goal, by an earlier     *)
(* program: stop() does not cut torque.                                    *)
(***************************************************************************)
Init ==
    /\ owner = "idle" /\ session = 0 /\ tries = 0
    /\ srv = FALSE /\ running = FALSE
    /\ pc = [b \in Threads |-> "none"]
    /\ want = [b \in Threads |-> "off"]
    /\ cmd = [b \in Threads |-> {}]
    /\ next = [a \in {Owner} \cup Threads |-> 1]
    /\ ioLock = Nobody
    /\ pendTorque = "none" /\ pendCmd = {}
    /\ enabled = IF TorqueOnStart THEN "on" ELSE "off"
    /\ cache = Zero /\ everRead = FALSE /\ sent = {}
    /\ op = [c \in Callers |-> "idle"]
    /\ since = [c \in Callers |-> 0]
    /\ calls = MaxCalls
    /\ arm \in Poses /\ goal \in Poses
    /\ \E t \in Switch : torque = [s \in Servos |-> t]
    /\ epoch = 0 /\ safe = FALSE

-----------------------------------------------------------------------------
(* What a bus transaction does                                             *)

\* GroupSyncRead.txRxPacket and the cache update of _read_once.
ReadOnce ==
    \/ cache' = arm /\ everRead' = TRUE
    \/ "read" \in Faults /\ UNCHANGED <<cache, everRead>>

\* One GroupSyncWrite.txPacket carrying the goal p: a broadcast, no answer.
SyncWrite(p) ==
    \/ goal' = p
    \/ "sync" \in Faults /\ goal' = goal

\* write1ByteTxRx(sid, STS_TORQUE_ENABLE, ...): its result is discarded.
WriteTorque(s, t) ==
    \/ torque' = [torque EXCEPT ![s] = t]
    \/ "ack" \in Faults /\ torque' = torque

-----------------------------------------------------------------------------
(* start() and stop(), on the owner thread                                 *)

Start ==
    /\ owner \in {"idle", "failed"}
    /\ session < MaxSessions
    /\ session' = session + 1
    /\ safe' = FALSE
    /\ \/ owner' = "prime" /\ tries' = 3 /\ srv' = TRUE
       \/ "open" \in Faults /\ owner' = "failed" /\ UNCHANGED <<tries, srv>>
    /\ UNCHANGED <<running, busVars, slotVars, cacheVars, callVars, armVars, epoch>>

\* Where start() goes once the cache is primed.
AfterPrime == IF Recorded THEN "eeprom"
              ELSE IF TorqueOnStart THEN "park" ELSE "spawn"

\* Up to three reads, without _io_lock; everRead may date from an earlier session.
Prime ==
    /\ owner = "prime"
    /\ ReadOnce
    /\ tries' = tries - 1
    /\ owner' = IF everRead' \/ tries' = 0 THEN AfterPrime ELSE "prime"
    /\ UNCHANGED <<session, srv, running, busVars, slotVars, sent, callVars,
                   armVars, ghostVars>>

\* _check_eeprom_limits borrows the bus; a borrower that keeps it makes start() raise.
EepromLock ==
    /\ owner = "eeprom"
    /\ \/ ioLock = Nobody /\ ioLock' = Owner /\ owner' = "limits"
       \/ ioLock # Nobody /\ owner' = "failed" /\ UNCHANGED ioLock
    /\ UNCHANGED <<session, tries, srv, running, pc, want, cmd, next, slotVars,
                   cacheVars, callVars, armVars, ghostVars>>

\* A limit that disagrees with the calibration makes start() raise; so does one whose
\* read fails, for it is read as 0.
EepromCheck ==
    /\ owner = "limits"
    /\ ioLock' = Nobody
    /\ \/ owner' = IF TorqueOnStart THEN "park" ELSE "spawn"
       \/ owner' = "failed"
    /\ UNCHANGED <<session, tries, srv, running, pc, want, cmd, next, slotVars,
                   cacheVars, callVars, armVars, ghostVars>>

\* start() raises unless some read ever succeeded, else parks; without _io_lock.
StartPark ==
    /\ owner = "park"
    /\ \/ ~everRead /\ owner' = "failed" /\ UNCHANGED <<goal, next>>
       \/ /\ everRead
          /\ SyncWrite(cache)
          /\ next' = [next EXCEPT ![Owner] = 1]
          /\ owner' = "power"
    /\ UNCHANGED <<session, tries, srv, running, pc, want, cmd, ioLock, slotVars,
                   cacheVars, callVars, arm, torque, ghostVars>>

\* Mutant: one servo too many.
StartPowerPastEnd ==
    /\ owner = "power"
    /\ next' = [next EXCEPT ![Owner] = @ + 1]
    /\ owner' = IF next[Owner] > N THEN "spawn" ELSE "power"
    /\ UNCHANGED <<session, tries, srv, running, pc, want, cmd, ioLock, slotVars,
                   cacheVars, callVars, armVars, ghostVars>>

StartPower ==
    /\ owner = "power"
    /\ WriteTorque(next[Owner], "on")
    /\ next' = [next EXCEPT ![Owner] = @ + 1]
    /\ owner' = IF next[Owner] = N THEN "spawn" ELSE "power"
    /\ UNCHANGED <<session, tries, srv, running, pc, want, cmd, ioLock, slotVars,
                   cacheVars, callVars, arm, goal, ghostVars>>

Spawn ==
    /\ owner = "spawn"
    /\ owner' = "up"
    /\ running' = TRUE
    /\ pc' = [pc EXCEPT ![session] = "test"]
    /\ UNCHANGED <<session, tries, srv, want, cmd, next, ioLock, slotVars,
                   cacheVars, callVars, armVars, ghostVars>>

\* stop(); after a start() that raised there is no thread to wait for.
Stop ==
    /\ \/ owner = "up" /\ owner' = "join"
       \/ owner = "failed" /\ owner' = "close"
    /\ running' = FALSE
    /\ UNCHANGED <<session, tries, srv, busVars, slotVars, cacheVars, callVars,
                   armVars, ghostVars>>

\* join(timeout=2.0) only expires on a thread that waits for a borrower.
Join ==
    /\ owner = "join"
    /\ \/ pc[session] = "exit"
       \/ "join" \in Faults /\ pc[session] = "lock" /\ ioLock \in Callers
    /\ owner' = "close"
    /\ UNCHANGED <<session, tries, srv, running, busVars, slotVars, cacheVars,
                   callVars, armVars, ghostVars>>

\* closePort() and the handles set to None.
Close ==
    /\ owner = "close"
    /\ owner' = "idle"
    /\ srv' = FALSE
    /\ UNCHANGED <<session, tries, running, busVars, slotVars, cacheVars, callVars,
                   armVars, ghostVars>>

-----------------------------------------------------------------------------
(* _read_loop, on the bus thread b                                         *)

BusTest(b) ==
    /\ pc[b] = "test"
    /\ pc' = [pc EXCEPT ![b] = IF running THEN "lock" ELSE "exit"]
    /\ UNCHANGED <<ownerVars, want, cmd, next, ioLock, slotVars, cacheVars,
                   callVars, armVars, ghostVars>>

BusLock(b) ==
    /\ pc[b] = "lock"
    /\ ioLock = Nobody
    /\ ioLock' = b
    /\ pc' = [pc EXCEPT ![b] = "read"]
    /\ UNCHANGED <<ownerVars, want, cmd, next, slotVars, cacheVars, callVars,
                   armVars, ghostVars>>

BusRead(b) ==
    /\ pc[b] = "read"
    /\ IF srv THEN ReadOnce ELSE UNCHANGED <<cache, everRead>>
    /\ pc' = [pc EXCEPT ![b] = "want"]
    /\ UNCHANGED <<ownerVars, want, cmd, next, ioLock, slotVars, sent, callVars,
                   armVars, ghostVars>>

\* Mutant: the request is taken out of the slot, as a move is.
BusWantTakes(b) ==
    /\ pc[b] = "want"
    /\ pendTorque' = "none"
    /\ IF pendTorque = "none" \/ ~srv
       THEN pc' = [pc EXCEPT ![b] = "take"] /\ UNCHANGED <<want, next>>
       ELSE /\ want' = [want EXCEPT ![b] = pendTorque]
            /\ next' = [next EXCEPT ![b] = 1]
            /\ pc' = [pc EXCEPT ![b] = IF pendTorque = "on" THEN "park" ELSE "torque"]
    /\ UNCHANGED <<ownerVars, cmd, ioLock, pendCmd, enabled, cacheVars, callVars,
                   armVars, ghostVars>>

\* _apply_pending_torque: the request is read under _cmd_lock, not taken.
BusWant(b) ==
    /\ pc[b] = "want"
    /\ \/ /\ pendTorque = "none" \/ ~srv
          /\ pc' = [pc EXCEPT ![b] = "take"]
          /\ UNCHANGED <<want, next>>
       \/ /\ pendTorque # "none" /\ srv
          /\ want' = [want EXCEPT ![b] = pendTorque]
          /\ next' = [next EXCEPT ![b] = 1]
          /\ pc' = [pc EXCEPT ![b] = IF pendTorque = "on" THEN "park" ELSE "torque"]
    /\ UNCHANGED <<ownerVars, cmd, ioLock, slotVars, cacheVars, callVars,
                   armVars, ghostVars>>

\* Mutant: torque is enabled without parking first.
BusParkSkipped(b) ==
    /\ pc[b] = "park"
    /\ pc' = [pc EXCEPT ![b] = "torque"]
    /\ UNCHANGED <<ownerVars, want, cmd, next, ioLock, slotVars, cacheVars,
                   callVars, armVars, ghostVars>>

BusPark(b) ==
    /\ pc[b] = "park"
    /\ IF srv THEN SyncWrite(cache) ELSE UNCHANGED goal
    /\ pc' = [pc EXCEPT ![b] = "torque"]
    /\ UNCHANGED <<ownerVars, want, cmd, next, ioLock, slotVars, cacheVars,
                   callVars, arm, torque, ghostVars>>

BusTorque(b) ==
    /\ pc[b] = "torque" /\ srv
    /\ WriteTorque(next[b], want[b])
    /\ next' = [next EXCEPT ![b] = @ + 1]
    /\ pc' = [pc EXCEPT ![b] = IF next[b] = N THEN "done" ELSE "torque"]
    /\ UNCHANGED <<ownerVars, want, cmd, ioLock, slotVars, cacheVars, callVars,
                   arm, goal, ghostVars>>

\* Mutant: the applied request stays in the slot.
BusDoneKeeps(b) ==
    /\ pc[b] = "done"
    /\ enabled' = want[b]
    /\ pc' = [pc EXCEPT ![b] = "take"]
    /\ UNCHANGED <<ownerVars, want, cmd, next, ioLock, pendTorque, pendCmd, cacheVars,
                   callVars, armVars, ghostVars>>

\* Whatever request is in the slot now is the one that is cleared.
BusDone(b) ==
    /\ pc[b] = "done"
    /\ enabled' = want[b]
    /\ pendTorque' = "none"
    /\ pc' = [pc EXCEPT ![b] = "take"]
    /\ UNCHANGED <<ownerVars, want, cmd, next, ioLock, pendCmd, cacheVars,
                   callVars, armVars, ghostVars>>

\* Mutant: the move is not dropped when the arm is limp.
BusTakeAlways(b) ==
    /\ pc[b] = "take"
    /\ pendCmd' = {}
    /\ cmd' = [cmd EXCEPT ![b] = pendCmd]
    /\ pc' = [pc EXCEPT ![b] = IF pendCmd = {} \/ ~srv THEN "free" ELSE "send"]
    /\ UNCHANGED <<ownerVars, want, next, ioLock, pendTorque, enabled, cacheVars,
                   callVars, armVars, ghostVars>>

\* _write_if_pending takes the move, and drops it if the arm is limp.
BusTake(b) ==
    /\ pc[b] = "take"
    /\ pendCmd' = {}
    /\ IF pendCmd = {} \/ ~srv \/ enabled = "off"
       THEN /\ pc' = [pc EXCEPT ![b] = "free"]
            /\ UNCHANGED cmd
       ELSE /\ pc' = [pc EXCEPT ![b] = "send"]
            /\ cmd' = [cmd EXCEPT ![b] = pendCmd]
    /\ UNCHANGED <<ownerVars, want, next, ioLock, pendTorque, enabled, cacheVars,
                   callVars, armVars, ghostVars>>

BusSend(b) ==
    /\ pc[b] = "send" /\ srv
    /\ \E m \in cmd[b] : SyncWrite(m.to) /\ sent' = {m.to}
    /\ cmd' = [cmd EXCEPT ![b] = {}]
    /\ pc' = [pc EXCEPT ![b] = "free"]
    /\ UNCHANGED <<ownerVars, want, next, ioLock, slotVars, cache, everRead,
                   callVars, arm, torque, ghostVars>>

BusFree(b) ==
    /\ pc[b] = "free"
    /\ ioLock' = Nobody
    /\ pc' = [pc EXCEPT ![b] = "test"]
    /\ UNCHANGED <<ownerVars, want, cmd, next, slotVars, cacheVars, callVars,
                   armVars, ghostVars>>

\* stop() closed the port under a thread whose join expired, and self._srv is
\* None; or the line fails in a transaction.
Raises(b) ==
    \/ pc[b] \in {"torque", "send"} /\ ~srv
    \/ "line" \in Faults /\ srv /\ pc[b] \in {"read", "park", "torque", "send"}

\* Mutant: a thread that dies in its tick keeps _io_lock.
BusCrashHolding(b) ==
    /\ Raises(b)
    /\ pc' = [pc EXCEPT ![b] = "exit"]
    /\ cmd' = [cmd EXCEPT ![b] = {}]
    /\ UNCHANGED <<ownerVars, want, next, ioLock, slotVars, cacheVars, callVars,
                   armVars, ghostVars>>

\* Nothing catches it: the with block gives the lock back, and the thread ends.
BusCrash(b) ==
    /\ Raises(b)
    /\ ioLock' = Nobody
    /\ pc' = [pc EXCEPT ![b] = "exit"]
    /\ cmd' = [cmd EXCEPT ![b] = {}]
    /\ UNCHANGED <<ownerVars, want, next, slotVars, cacheVars, callVars,
                   armVars, ghostVars>>

BusStep(b) ==
    \/ BusTest(b)   \/ BusLock(b)  \/ BusRead(b) \/ BusWant(b) \/ BusPark(b)
    \/ BusTorque(b) \/ BusDone(b)  \/ BusTake(b) \/ BusSend(b) \/ BusFree(b)
    \/ BusCrash(b)

-----------------------------------------------------------------------------
(* The public methods, on a caller thread c                                *)

\* set_robot_joint_positions: the slot holds the latest move only.
Move(c) ==
    /\ op[c] = "idle" /\ calls > 0
    /\ calls' = calls - 1
    /\ \E p \in Poses : pendCmd' = {[to |-> p, epoch |-> epoch]}
    /\ UNCHANGED <<ownerVars, busVars, pendTorque, enabled, cacheVars, op, since,
                   armVars, ghostVars>>

\* Mutant: a disable leaves the queued move.
PostTorqueKeepsMove(c, t) ==
    /\ op[c] = "idle" /\ calls > 0
    /\ calls' = calls - 1
    /\ op' = [op EXCEPT ![c] = t]
    /\ since' = [since EXCEPT ![c] = session]
    /\ pendTorque' = t
    /\ IF t = "off" THEN epoch' = epoch + 1 /\ safe' = safe
                    ELSE safe' = FALSE /\ epoch' = epoch
    /\ UNCHANGED <<ownerVars, busVars, pendCmd, enabled, cacheVars, armVars>>

\* set_torque posts the request; a disable also drops the queued move.
PostTorque(c, t) ==
    /\ op[c] = "idle" /\ calls > 0
    /\ calls' = calls - 1
    /\ op' = [op EXCEPT ![c] = t]
    /\ since' = [since EXCEPT ![c] = session]
    /\ pendTorque' = t
    /\ IF t = "off"
       THEN pendCmd' = {} /\ epoch' = epoch + 1 /\ safe' = safe
       ELSE safe' = FALSE /\ UNCHANGED <<pendCmd, epoch>>
    /\ UNCHANGED <<ownerVars, busVars, enabled, cacheVars, armVars>>

\* Mutant: the wait tests the flag alone.
TorqueReturnsOnFlag(c) ==
    /\ op[c] \in Switch
    /\ enabled = op[c]
    /\ op' = [op EXCEPT ![c] = "idle"]
    /\ since' = [since EXCEPT ![c] = 0]
    /\ safe' = (safe \/ (op[c] = "off" /\ since[c] = session))
    /\ UNCHANGED <<ownerVars, busVars, slotVars, cacheVars, calls, armVars, epoch>>

\* set_torque returns: the slot is empty and the flag is what was asked for.
TorqueReturns(c) ==
    /\ op[c] \in Switch
    /\ pendTorque = "none" /\ enabled = op[c]
    /\ op' = [op EXCEPT ![c] = "idle"]
    /\ since' = [since EXCEPT ![c] = 0]
    /\ safe' = (safe \/ (op[c] = "off" /\ since[c] = session))
    /\ UNCHANGED <<ownerVars, busVars, slotVars, cacheVars, calls, armVars, epoch>>

\* set_torque raises after timeout_s; the request stays in the slot.
TorqueTimesOut(c) ==
    /\ op[c] \in Switch
    /\ pendTorque # "none" \/ enabled # op[c]
    /\ op' = [op EXCEPT ![c] = "idle"]
    /\ since' = [since EXCEPT ![c] = 0]
    /\ UNCHANGED <<ownerVars, busVars, slotVars, cacheVars, calls, armVars, ghostVars>>

\* lend_bus tests _srv, and only then waits for the lock.
AskBus(c) ==
    /\ op[c] = "idle" /\ calls > 0 /\ srv
    /\ calls' = calls - 1
    /\ op' = [op EXCEPT ![c] = "borrow"]
    /\ UNCHANGED <<ownerVars, busVars, slotVars, cacheVars, since, armVars, ghostVars>>

GetBus(c) ==
    /\ op[c] = "borrow" /\ ioLock = Nobody
    /\ ioLock' = c
    /\ op' = [op EXCEPT ![c] = "use"]
    /\ UNCHANGED <<ownerVars, pc, want, cmd, next, slotVars, cacheVars, since, calls,
                   armVars, ghostVars>>

\* Mutant: the result of acquire(timeout=...) is not looked at.
BusTimesOutUnseen(c) ==
    /\ op[c] = "borrow" /\ ioLock # Nobody
    /\ op' = [op EXCEPT ![c] = "use"]
    /\ UNCHANGED <<ownerVars, busVars, slotVars, cacheVars, since, calls, armVars,
                   ghostVars>>

BusTimesOut(c) ==
    /\ op[c] = "borrow" /\ ioLock # Nobody
    /\ op' = [op EXCEPT ![c] = "idle"]
    /\ UNCHANGED <<ownerVars, busVars, slotVars, cacheVars, since, calls, armVars,
                   ghostVars>>

\* The body of the with statement ends; it leaves goal and torque alone.
ReturnBus(c) ==
    /\ op[c] = "use"
    /\ ioLock' = Nobody
    /\ op' = [op EXCEPT ![c] = "idle"]
    /\ UNCHANGED <<ownerVars, pc, want, cmd, next, slotVars, cacheVars, since, calls,
                   armVars, ghostVars>>

CallStep(c) ==
    \/ Move(c) \/ TorqueReturns(c) \/ TorqueTimesOut(c)
    \/ \E t \in Switch : PostTorque(c, t)
    \/ AskBus(c) \/ GetBus(c) \/ BusTimesOut(c) \/ ReturnBus(c)

-----------------------------------------------------------------------------
(* The arm                                                                 *)

\* The servos drive a powered arm to its goal.
ArmFollows ==
    /\ \A s \in Servos : torque[s] = "on"
    /\ arm # goal
    /\ arm' = goal
    /\ UNCHANGED <<ownerVars, busVars, slotVars, cacheVars, callVars, goal, torque,
                   ghostVars>>

\* Somebody moves a limp arm; not within the milliseconds from a read to the park.
ArmByHand ==
    /\ \A s \in Servos : torque[s] = "off"
    /\ owner \notin {"park", "power"}
    /\ \A b \in Threads : pc[b] \notin {"want", "park", "torque"}
    /\ arm' \in Poses \ {arm}
    /\ UNCHANGED <<ownerVars, busVars, slotVars, cacheVars, callVars, goal, torque,
                   ghostVars>>

-----------------------------------------------------------------------------
OwnerStep == \/ Start \/ Prime \/ EepromLock \/ EepromCheck \/ StartPark
             \/ StartPower \/ Spawn \/ Stop \/ Join \/ Close

\* Everything has been stopped and every call has returned.
Terminated ==
    /\ owner = "idle" /\ session = MaxSessions
    /\ \A b \in Threads : pc[b] \in {"none", "exit"}
    /\ \A c \in Callers : op[c] = "idle"
    /\ UNCHANGED vars

Next ==
    \/ OwnerStep
    \/ \E b \in Threads : BusStep(b)
    \/ \E c \in Callers : CallStep(c)
    \/ ArmFollows
    \/ ArmByHand
    \/ Terminated

Spec == Init /\ [][Next]_vars

\* The bus thread is scheduled and a borrower leaves its with block.
Fairness ==
    /\ \A b \in Threads : WF_vars(BusStep(b))
    /\ \A c \in Callers : WF_vars(ReturnBus(c))

FairSpec == Spec /\ Fairness

-----------------------------------------------------------------------------
(* Properties                                                              *)

\* Between the read of a request and its clearing the slot is never empty:
\* a caller that finds it empty never sees a half-applied switch.
SlotHeld == \A b \in Threads : pc[b] \in Applying => pendTorque # "none"

\* Who is between two transactions of its own on the open port.
Transacting ==
    {b \in Threads : srv /\ pc[b] \in {"read", "park", "torque", "send"}}
        \cup {c \in Callers : srv /\ op[c] = "use"}
        \cup {a \in {Owner} : owner = "limits"}

\* _io_lock keeps bus threads, borrowers and start()'s EEPROM check apart on
\* the wire, a thread left over from an expired join included.
BorrowExclusive == \A a1, a2 \in Transacting : a1 = a2

\* The holder of _io_lock is whoever is inside a with block on it: a thread that
\* ends or dies there has given it back.
Inside == {"read", "want", "take", "send", "free"} \cup Applying
LockAccounted ==
    /\ \A b \in Threads : ioLock = b <=> pc[b] \in Inside
    /\ \A c \in Callers : ioLock = c <=> op[c] = "use"
    /\ ioLock = Owner <=> owner = "limits"

\* Once disable_torque() returned, every servo is limp until somebody asks for
\* torque again or calls start(): what a caller tells the person at the arm.
LimpHolds == safe => \A s \in Servos : torque[s] = "off"

\* "Whether torque was last commanded on": while the loop runs and is not
\* switching torque, every servo is as torque_enabled says.
TorqueBelief ==
    (running /\ \A b \in Threads : pc[b] \notin Applying)
        => \A s \in Servos : torque[s] = enabled

\* "Parking first makes enabling torque a hold rather than a move": a servo
\* that is powered up has its goal at the pose the arm is in.
EnableIsHold ==
    [][\A s \in Servos : torque[s] = "off" /\ torque'[s] = "on" => goal = arm]_vars

\* "A queued move must not outlive the decision to go limp": a move that goes
\* on the wire was queued after the latest disable request.
NoStaleMove ==
    [][\A b \in Threads :
         pc[b] = "take" /\ pc'[b] = "send" => \A m \in pendCmd : m.epoch = epoch]_vars

\* "A limp joint takes no goal": a move is written only to a powered arm.
LimpTakesNoGoal ==
    [][\A b \in Threads : pc[b] = "send" /\ pc'[b] = "free"
         => \A s \in Servos : torque[s] = "on"]_vars

\* Every request and every move in a slot is consumed while the loop runs.
SlotsDrain ==
    /\ (pendTorque # "none" /\ running) ~> (pendTorque = "none" \/ ~running)
    /\ (pendCmd # {} /\ running) ~> (pendCmd = {} \/ ~running)

-----------------------------------------------------------------------------
(* Inductive invariants                                                    *)

\* What TypeOK needs: no counter is used outside its range.
Counters ==
    /\ epoch + calls <= MaxCalls
    /\ owner \in Starting \cup {"up", "join"} => session >= 1
    /\ owner = "prime" => tries >= 1
    /\ owner = "power" => next[Owner] <= N
    /\ \A b \in Threads : pc[b] \in {"park", "torque"} => next[b] <= N
    /\ \A c \in Callers : since[c] <= session

TypeInv == TypeOK /\ Counters

\* If no join expires there is one loop, that of the latest start().
OneLoop ==
    \A b \in Threads :
        pc[b] \notin {"none", "exit"} => b = session /\ owner \in {"up", "join"}

\* The servos before the next one have been told.
Told ==
    \A b \in Threads : pc[b] \in Applying =>
        /\ \A s \in Servos : s < next[b] => torque[s] = want[b]
        /\ pc[b] = "done" => next[b] = N + 1

\* What a caller of set_torque waits for is still in the slot, or every servo
\* has the value of the flag, unless start() was called since.
Awaited ==
    \A c \in Callers : op[c] \in Switch /\ since[c] = session =>
        \/ pendTorque # "none"
        \/ owner \notin Starting /\ \A s \in Servos : torque[s] = enabled

\* While somebody relies on the arm being limp, nobody is about to power it.
NobodyPowers ==
    safe => /\ \A s \in Servos : torque[s] = "off"
            /\ pendTorque # "on"
            /\ owner \notin Starting
            /\ \A b \in Threads : pc[b] \in Applying => want[b] = "off"

\* A thread is not running before start() spawns it.
Unborn ==
    \A b \in Threads :
        b > session \/ (b = session /\ owner \in Starting) => pc[b] = "none"

\* The port is open while start() is under way and while the loop may run.
PortOpen == owner \in Starting \cup {"up", "join"} => srv

AllOn == \A s \in Servos : torque[s] = "on"

\* start() powers the servos one after the other, and all of them before the loop.
PowerUp ==
    /\ owner = "power" => \A s \in Servos : s < next[Owner] => torque[s] = "on"
    /\ owner = "spawn" /\ TorqueOnStart => AllOn

\* The flag is on over a limp servo only while torque is being switched, before a
\* loop runs, or after one died in a switch, whose request the next loop finds.
Powered ==
    enabled = "on" =>
        \/ AllOn
        \/ \E b \in Threads : pc[b] \in {"torque", "done"}
        \/ TorqueOnStart /\ \A b \in Threads : pc[b] \in {"none", "exit"}
        \/ /\ pendTorque # "none"
           /\ \A b \in Threads : pc[b] \in {"none", "test", "lock", "read", "want",
                                           "park", "exit"}

SendPowered == \A b \in Threads : pc[b] = "send" => AllOn

GoalInv == OneLoop /\ SlotHeld /\ Told /\ PortOpen /\ PowerUp /\ Powered /\ SendPowered
LimpInv == OneLoop /\ SlotHeld /\ Told /\ Awaited /\ NobodyPowers
LockInv == LockAccounted /\ Unborn
=============================================================================
