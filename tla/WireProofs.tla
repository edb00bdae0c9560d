------------------------------ MODULE WireProofs ------------------------------
(* Theorems about Wire, for every set of servos, of faults and of late answers: *)
(* its types, a port that is not left in use, and that it implements Exchange.  *)
EXTENDS Wire, FiniteSetTheorems, SequenceTheorems, TLAPS

\* Every step is one of these.
Step ==
  \/ openPort \/ closePort
  \/ \E op \in Ops \ {"pinged"}, S \in (SUBSET Servos) \ {{}} :
       /\ Idle \/ (call # NoCall /\ call.op = "pinged")
       /\ op # "sync" => \E s \in Servos : S = {s}
       /\ txPacket(op, S)
  \/ \E S \in SUBSET Servos : addParam(S)
  \/ writeTxOnly \/ syncWriteTxOnly
  \/ Rx \/ Raise
  \/ Arrive \/ Disturb

\* A call in progress that is not of a group is to one servo.
OneServo ==
  call # NoCall /\ call.op # "sync" => \E s \in Servos : call.to = {s}

\* An answer on its way or read comes from a servo, and it answers the request in
\* progress only if that servo carried the request out; between two requests no
\* servo did.
Traced ==
  /\ ~Waiting => did = {}
  /\ \A u \in due : u.from \in Servos /\ (u.own => Waiting /\ u.from \in did)
  /\ Waiting => \A i \in DOMAIN input : input[i].own => input[i].from \in did

FlagTypes == opened \in BOOLEAN /\ using \in BOOLEAN /\ raised \in BOOLEAN

CallTypes ==
  /\ call \in Calls \cup {NoCall}
  /\ call # NoCall => opened /\ call.to # {}
  /\ OneServo

LineTypes == input \in Seq(Units) /\ due \subseteq Units

GroupTypes ==
  /\ data \in [Servos -> {"absent", "empty", "held"}]
  /\ did \subseteq Servos /\ answered \subseteq Servos

Types == FlagTypes /\ CallTypes /\ LineTypes /\ GroupTypes

WireInv == Types /\ Traced /\ PortFree

-----------------------------------------------------------------------------
(* The actions, by what their proofs need. *)

LEMMA StepOfNext == ASSUME Types, Next PROVE Step
<1> USE DEF Types, CallTypes, Ops
<1>1. ASSUME NEW s \in Servos,
             Idle /\ (\E op \in {"read", "write", "ping"} : txPacket(op, {s}))
      PROVE  Step
  BY <1>1 DEF Step
<1>2. CASE \E s \in Servos : \/ ReadPos(s) \/ ReadStatus(s)
                             \/ WritePosEx(s) \/ LockEprom(s) \/ regWriteTxRx(s)
                             \/ WritePos(s) \/ ReadPosSpeed(s) \/ PWMMode(s)
                             \/ ping(s)
  BY <1>1, <1>2 DEF ReadPos, ReadStatus, WritePosEx, LockEprom, regWriteTxRx, WritePos,
     ReadPosSpeed, PWMMode, ping, readTxRx, writeTxRx
<1>3. CASE pingRead
  <2>1. call.to \in (SUBSET Servos) \ {{}} /\ \E s \in Servos : call.to = {s}
    BY <1>3 DEF pingRead, OneServo, Calls
  <2> QED
    BY <1>3, <2>1 DEF pingRead, Step
<1>4. CASE syncRead
  BY <1>4 DEF syncRead, Step, Group
<1> QED
  BY <1>2, <1>3, <1>4 DEF Next, Step

\* A unit stays a unit when the request it answers is over.
LEMMA AgedUnit ==
  ASSUME NEW u \in Units
  PROVE  Aged(u) \in Units /\ Aged(u).from = u.from /\ Aged(u).own = FALSE
BY DEF Units, Aged

\* What is due after a packet went out: what was due, of requests that are over,
\* and answers to this one from servos that carried it out.
LEMMA SentUnits ==
  ASSUME due \subseteq Units, NEW op, NEW S \in SUBSET Servos, TxSent(op, S)
  PROVE  \A u \in due' :
           /\ u \in Units
           /\ ~u.own => \E v \in due : u.from = v.from
           /\ u.own => u.from \in did'
<1>1. PICK doers \in SUBSET S : \E answering \in SUBSET doers : \E good \in SUBSET answering :
         /\ did' = doers
         /\ due' = {Aged(u) : u \in due} \cup Answers(answering, good)
  BY DEF TxSent
<1>2. PICK answering \in SUBSET doers : \E good \in SUBSET answering :
         due' = {Aged(u) : u \in due} \cup Answers(answering, good)
  BY <1>1
<1>3. PICK good \in SUBSET answering :
         due' = {Aged(u) : u \in due} \cup Answers(answering, good)
  BY <1>2
<1>4. \A u \in Answers(answering, good) : u \in Units /\ u.own = TRUE /\ u.from \in doers
  <2> SUFFICES ASSUME NEW s \in answering, NEW u,
                      u = [from |-> s, whole |-> s \in good, own |-> TRUE]
               PROVE  u \in Units /\ u.own = TRUE /\ u.from \in doers
    BY DEF Answers
  <2>1. (s \in good) \in BOOLEAN
    OBVIOUS
  <2> QED
    BY <2>1 DEF Units
<1>5. \A u \in {Aged(v) : v \in due} :
         u \in Units /\ u.own = FALSE /\ \E v \in due : u.from = v.from
  BY AgedUnit
<1> QED
  BY <1>1, <1>3, <1>4, <1>5

\* Clearing the port leaves a sequence of units.
LEMMA ClearedInput ==
  ASSUME input \in Seq(Units), input' = input \/ input' = <<>>
  PROVE  input' \in Seq(Units)
<1>1. <<>> \in Seq(Units)
  BY EmptySeq
<1> QED
  BY <1>1

-----------------------------------------------------------------------------
(* Types. *)

\* The types hold before the port is opened.
LEMMA TypesInit == Init => Types
<1> SUFFICES ASSUME Init PROVE Types
  OBVIOUS
<1>1. FlagTypes
  BY DEF Init, FlagTypes
<1>2. CallTypes
  BY DEF Init, CallTypes, OneServo
<1>3. LineTypes
  BY DEF Init, LineTypes
<1>4. GroupTypes
  BY DEF Init, GroupTypes
<1> QED
  BY <1>1, <1>2, <1>3, <1>4 DEF Types

\* The end of an exchange that leaves the port alone keeps the types of the call
\* and of what is due.
LEMMA TypesReturn ==
  ASSUME Types, NEW heard \in SUBSET Servos, NEW next, Return(heard, next),
         opened' = opened,
         \/ next = NoCall
         \/ call # NoCall /\ call.op # "sync" /\ next = [call EXCEPT !.op = "pinged"]
  PROVE  CallTypes' /\ due' \subseteq Units /\ did' \subseteq Servos
           /\ answered' \subseteq Servos
<1>1. due' \subseteq Units /\ did' \subseteq Servos /\ answered' \subseteq Servos
  BY AgedUnit DEF Return, Types, LineTypes
<1>2. CASE next = NoCall
  BY <1>1, <1>2 DEF Return, CallTypes, OneServo
<1>3. CASE call # NoCall /\ call.op # "sync" /\ next = [call EXCEPT !.op = "pinged"]
  <2>1. call \in Calls /\ call.to # {} /\ opened /\ \E s \in Servos : call.to = {s}
    BY <1>3 DEF Types, CallTypes, OneServo
  <2>2. call' \in Calls /\ call'.to = call.to
    BY <1>3, <2>1 DEF Return, Calls, Ops
  <2> QED
    BY <1>1, <2>1, <2>2 DEF CallTypes, OneServo
<1> QED
  BY <1>2, <1>3

\* No packet leaves the types.
LEMMA TypesTx ==
  ASSUME Types, NEW op \in Ops \ {"pinged"}, NEW S \in (SUBSET Servos) \ {{}},
         Idle \/ (call # NoCall /\ call.op = "pinged"),
         op # "sync" => \E s \in Servos : S = {s},
         txPacket(op, S)
  PROVE  Types'
<1>1. data' = data /\ opened' = opened
  BY DEF txPacket, TxBusy, TxShort, TxRaises, TxSent
<1>2. FlagTypes'
  BY DEF txPacket, TxBusy, TxShort, TxRaises, TxSent, Types, FlagTypes
<1>3. input' \in Seq(Units)
  <2>1. input' = input \/ input' = <<>>
    BY DEF txPacket, TxBusy, TxShort, TxRaises, TxSent, clearPort
  <2> QED
    BY <2>1, ClearedInput DEF Types, LineTypes
<1>4. CASE TxBusy \/ TxShort \/ TxRaises
  <2>1. Return({}, NoCall)
    BY <1>4 DEF TxBusy, TxShort, TxRaises
  <2> QED
    BY <1>1, <1>2, <1>3, <2>1, TypesReturn DEF Types, LineTypes, GroupTypes
<1>5. CASE TxSent(op, S)
  <2>1. call' \in Calls /\ call'.to = S /\ call'.op = op
    BY <1>5 DEF TxSent, Calls
  <2>2. opened'
    BY <1>1 DEF Idle, Types, CallTypes
  <2>3. CallTypes'
    BY <2>1, <2>2 DEF CallTypes, OneServo
  <2>4. \A u \in due' : u \in Units
    BY <1>5, SentUnits DEF Types, LineTypes
  <2>5. did' \subseteq S /\ answered' = {}
    BY <1>5 DEF TxSent
  <2> QED
    BY <1>1, <1>2, <1>3, <2>3, <2>4, <2>5 DEF Types, LineTypes, GroupTypes
<1> QED
  BY <1>4, <1>5 DEF txPacket

\* No packet read leaves the types.
LEMMA TypesRx == ASSUME Types, Rx PROVE Types'
<1> USE DEF Types
<1>1. ASSUME input # <<>> PROVE Head(input) \in Units /\ Tail(input) \in Seq(Units)
  BY <1>1 DEF LineTypes
<1>2. opened' = opened /\ FlagTypes'
  BY DEF Rx, DropNoise, RxCorrupt, RxOther, RxAnswer, RxTimeout, syncReadRx, FlagTypes
<1>3. CASE DropNoise \/ RxOther
  BY <1>1, <1>2, <1>3
     DEF DropNoise, RxOther, RxOne, CallTypes, OneServo, LineTypes, GroupTypes
<1>4. CASE RxCorrupt \/ RxTimeout
  <2>1. Return({}, NoCall) /\ data' = data /\ input' \in Seq(Units)
    BY <1>1, <1>4 DEF RxCorrupt, RxTimeout, RxOne, LineTypes
  <2> QED
    BY <1>2, <2>1, TypesReturn DEF LineTypes, GroupTypes
<1>5. CASE RxAnswer
  <2>1. /\ call # NoCall /\ call.op # "sync" /\ call.to \in SUBSET Servos
        /\ data' = data /\ input' \in Seq(Units)
    BY <1>1, <1>5 DEF RxAnswer, RxOne, Waiting, CallTypes, Calls
  <2>2. CASE Return(call.to, NoCall)
    BY <1>2, <2>1, <2>2, TypesReturn DEF LineTypes, GroupTypes
  <2>3. CASE Return(call.to, [call EXCEPT !.op = "pinged"])
    BY <1>2, <2>1, <2>3, TypesReturn DEF LineTypes, GroupTypes
  <2> QED
    BY <1>5, <2>2, <2>3 DEF RxAnswer
<1>6. CASE syncReadRx
  <2>1. call.to \in SUBSET Servos
    BY <1>6 DEF syncReadRx, Waiting, CallTypes, Calls
  <2> DEFINE n == Cardinality(call.to)
  <2>2. n \in Nat
    BY <2>1, ServosAssumption, FS_Subset, FS_CardinalityType DEF ServosAssumption
  <2>3. input' \in Seq(Units)
    <3>1. input' = SubSeq(input, n + 1, Len(input)) /\ input \in Seq(Units)
      BY <1>6 DEF syncReadRx, LineTypes
    <3>2. \A i \in (n + 1) .. Len(input) : i \in 1 .. Len(input)
      BY <2>2, <3>1
    <3> HIDE DEF n
    <3> QED
      BY <2>2, <3>1, <3>2, SubSeqProperties
  <2>4. data' \in [Servos -> {"absent", "empty", "held"}]
    BY <1>6 DEF syncReadRx, Blocks, Block, GroupTypes
  <2>5. {s \in call.to : isAvailable(s)'} \in SUBSET Servos
    BY <2>1
  <2>6. Return({s \in call.to : isAvailable(s)'}, NoCall)
    BY <1>6 DEF syncReadRx
  <2> QED
    BY <1>2, <2>3, <2>4, <2>5, <2>6, TypesReturn DEF LineTypes, GroupTypes
<1> QED
  BY <1>3, <1>4, <1>5, <1>6 DEF Rx

\* No step leaves the types.
LEMMA TypesStep == Types /\ [Next]_vars => Types'
<1> SUFFICES ASSUME Types, [Next]_vars PROVE Types'
  OBVIOUS
<1> USE DEF Types
<1>1. CASE Raise
  BY <1>1, TypesReturn DEF Raise, FlagTypes, LineTypes, GroupTypes
<1>2. CASE Disturb
  <2>1. call \in Calls /\ call # NoCall
    BY <1>2 DEF Disturb, Waiting, CallTypes
  <2>2. call' \in Calls /\ call'.op = call.op /\ call'.to = call.to
    BY <1>2, <2>1 DEF Disturb, Calls
  <2>3. CallTypes'
    BY <1>2, <2>1, <2>2 DEF Disturb, CallTypes, OneServo
  <2>4. input' \in Seq(Units)
    BY <1>2 DEF Disturb, LineTypes, Units
  <2> QED
    BY <1>2, <2>3, <2>4 DEF Disturb, FlagTypes, LineTypes, GroupTypes
<1>3. CASE Arrive
  <2>1. LineTypes'
    BY <1>3 DEF Arrive, LineTypes
  <2> QED
    BY <1>3, <2>1 DEF Arrive, FlagTypes, CallTypes, OneServo, GroupTypes
<1>4. CASE openPort
  <2>1. LineTypes'
    BY <1>4, ClearedInput DEF openPort, LineTypes
  <2> QED
    BY <1>4, <2>1 DEF openPort, FlagTypes, CallTypes, OneServo, GroupTypes
<1>5. CASE closePort
  BY <1>5 DEF closePort, FlagTypes, CallTypes, OneServo, LineTypes, GroupTypes
<1>6. CASE writeTxOnly \/ syncWriteTxOnly
  <2>1. using' = FALSE /\ answered' = {} /\ UNCHANGED <<opened, raised, call, due, data, did>>
    BY <1>6 DEF writeTxOnly, syncWriteTxOnly
  <2>2. input' = input \/ input' = <<>>
    BY <1>6 DEF writeTxOnly, syncWriteTxOnly, clearPort
  <2>3. LineTypes'
    BY <2>1, <2>2, ClearedInput DEF LineTypes
  <2>4. FlagTypes' /\ CallTypes'
    BY <2>1 DEF FlagTypes, CallTypes, OneServo
  <2>5. GroupTypes'
    BY <2>1 DEF GroupTypes
  <2> QED
    BY <2>3, <2>4, <2>5
<1>7. CASE \E S \in SUBSET Servos : addParam(S)
  BY <1>7 DEF addParam, FlagTypes, CallTypes, OneServo, LineTypes, GroupTypes
<1>8. CASE UNCHANGED vars
  BY <1>8 DEF vars, FlagTypes, CallTypes, OneServo, LineTypes, GroupTypes
<1>9. CASE Next
  <2>1. CASE \E op \in Ops \ {"pinged"}, S \in (SUBSET Servos) \ {{}} :
          /\ Idle \/ (call # NoCall /\ call.op = "pinged")
          /\ op # "sync" => \E s \in Servos : S = {s}
          /\ txPacket(op, S)
    BY <2>1, TypesTx
  <2> QED
    BY <1>1, <1>2, <1>3, <1>4, <1>5, <1>6, <1>7, <1>9, <2>1, StepOfNext, TypesRx DEF Step
<1> QED
  BY <1>8, <1>9

\* The types of the port, of the group and of the line hold in every state.
THEOREM WireTypes == Spec => []TypeOK
<1>1. Types => TypeOK
  BY DEF Types, FlagTypes, CallTypes, LineTypes, GroupTypes, TypeOK
<1> QED
  BY TypesInit, TypesStep, <1>1, PTL DEF Spec

-----------------------------------------------------------------------------
(* A port that is not left in use. *)

LEMMA PortFreeStep == Types /\ PortFree /\ [Next]_vars => PortFree'
<1> SUFFICES ASSUME Types, PortFree, [Next]_vars PROVE PortFree'
  OBVIOUS
<1> USE DEF PortFree, Waiting
<1>1. CASE Rx
  BY <1>1 DEF Rx, DropNoise, RxCorrupt, RxOther, RxAnswer, RxTimeout, syncReadRx
<1>2. CASE Raise
  BY <1>2 DEF Raise
<1>3. CASE Disturb
  <2>1. call \in Calls /\ call # NoCall
    BY <1>3 DEF Disturb, Types, CallTypes
  <2>2. call' \in Calls /\ call'.op = call.op
    BY <1>3, <2>1 DEF Disturb, Calls
  <2> QED
    BY <1>3, <2>1, <2>2, NoCallAssumption DEF Disturb, NoCallAssumption
<1>4. CASE Arrive \/ openPort \/ closePort \/ writeTxOnly \/ syncWriteTxOnly \/ UNCHANGED vars
  BY <1>4 DEF Arrive, openPort, closePort, writeTxOnly, syncWriteTxOnly, vars
<1>5. CASE \E S \in SUBSET Servos : addParam(S)
  BY <1>5 DEF addParam
<1>6. ASSUME NEW op \in Ops \ {"pinged"}, NEW S \in (SUBSET Servos) \ {{}},
             Idle \/ (call # NoCall /\ call.op = "pinged"), txPacket(op, S)
      PROVE  PortFree'
  <2>1. CASE TxBusy
    BY <1>6, <2>1 DEF TxBusy, PortBusy, Idle
  <2>2. CASE TxShort \/ TxRaises
    BY <2>2 DEF TxShort, TxRaises
  <2>3. CASE TxSent(op, S)
    <3>1. call' \in Calls /\ call'.op # "pinged"
      BY <2>3 DEF TxSent, Calls, Ops
    <3> QED
      BY <3>1, NoCallAssumption DEF NoCallAssumption
  <2> QED
    BY <1>6, <2>1, <2>2, <2>3 DEF txPacket
<1>7. CASE Next
  BY <1>1, <1>2, <1>3, <1>4, <1>5, <1>6, <1>7, StepOfNext DEF Step
<1> QED
  BY <1>4, <1>7

\* No port is left marked in use, unless the line raised under the call.
THEOREM WirePortFree == Spec => []PortFree
<1>1. Init => PortFree
  BY DEF Init, PortFree
<1> QED
  BY TypesInit, TypesStep, <1>1, PortFreeStep, PTL DEF Spec

-----------------------------------------------------------------------------
(* Answers are traced to who gave them. *)

\* When the exchange in progress is over no answer on its way is to a request in
\* progress.
LEMMA TracedReturn ==
  ASSUME Types, Traced, NEW heard, NEW next, Return(heard, next),
         next = NoCall \/ next.op = "pinged"
  PROVE  Traced'
<1>1. ~Waiting' /\ did' = {}
  BY DEF Return, Waiting
<1>2. \A u \in due : Aged(u).from = u.from /\ Aged(u).own = FALSE
  BY AgedUnit DEF Types, LineTypes
<1>3. \A u \in due' : u.from \in Servos /\ ~u.own
  BY <1>2 DEF Return, Traced
<1> QED
  BY <1>1, <1>3 DEF Traced

LEMMA TracedStep == Types /\ Traced /\ [Next]_vars => Traced'
<1> SUFFICES ASSUME Types, Traced, [Next]_vars PROVE Traced'
  OBVIOUS
<1>1. CASE DropNoise \/ RxOther
  <2>1. input # <<>> /\ input' = Tail(input) /\ UNCHANGED <<call, due, did>>
    BY <1>1 DEF DropNoise, RxOther, RxOne
  <2>2. \A i \in DOMAIN input' : i + 1 \in DOMAIN input /\ input'[i] = input[i + 1]
    BY <2>1 DEF Types, LineTypes
  <2> QED
    BY <2>1, <2>2 DEF Traced, Waiting
<1>2. CASE RxCorrupt \/ RxTimeout \/ Raise
  BY <1>2, TracedReturn DEF RxCorrupt, RxTimeout, Raise
<1>3. CASE RxAnswer
  <2>1. call \in Calls
    BY <1>3 DEF RxAnswer, RxOne, Waiting, Types, CallTypes
  <2>2. [call EXCEPT !.op = "pinged"].op = "pinged"
    BY <2>1 DEF Calls
  <2> QED
    BY <1>3, <2>2, TracedReturn DEF RxAnswer
<1>4. CASE syncReadRx
  BY <1>4, TracedReturn DEF syncReadRx
<1>5. CASE Disturb
  <2>1. call \in Calls /\ Waiting
    BY <1>5 DEF Disturb, Waiting, Types, CallTypes
  <2>2. call' \in Calls /\ call'.op = call.op
    BY <1>5, <2>1 DEF Disturb, Calls
  <2>3. Waiting'
    BY <2>1, <2>2, NoCallAssumption DEF Waiting, NoCallAssumption
  <2> DEFINE noise == [from |-> Noise, whole |-> FALSE, own |-> FALSE]
  <2>4. noise.own = FALSE /\ noise \in Units
    BY DEF Units
  <2>5. input' = Append(input, noise) /\ UNCHANGED <<due, did>>
    BY <1>5 DEF Disturb
  <2> HIDE DEF noise
  <2>6. \A i \in DOMAIN input' :
          input'[i] = noise \/ (i \in DOMAIN input /\ input'[i] = input[i])
    BY <2>4, <2>5 DEF Types, LineTypes
  <2> QED
    BY <2>1, <2>3, <2>4, <2>5, <2>6 DEF Traced
<1>6. CASE Arrive
  <2>1. PICK u \in due : due' = due \ {u} /\ input' = Append(input, u)
    BY <1>6 DEF Arrive
  <2>2. UNCHANGED <<call, did>> /\ u \in Units
    BY <1>6 DEF Arrive, Types, LineTypes
  <2>3. \A i \in DOMAIN input' :
          input'[i] = u \/ (i \in DOMAIN input /\ input'[i] = input[i])
    BY <2>1, <2>2 DEF Types, LineTypes
  <2> QED
    BY <2>1, <2>2, <2>3 DEF Traced, Waiting
<1>7. CASE openPort \/ writeTxOnly \/ syncWriteTxOnly
  <2>1. UNCHANGED <<call, due, did>> /\ (input' = input \/ input' = <<>>)
    BY <1>7 DEF openPort, writeTxOnly, syncWriteTxOnly, clearPort
  <2> QED
    BY <2>1 DEF Traced, Waiting
<1>8. CASE closePort \/ (\E S \in SUBSET Servos : addParam(S)) \/ UNCHANGED vars
  <2>1. UNCHANGED <<call, due, did, input>>
    BY <1>8 DEF closePort, addParam, vars
  <2> QED
    BY <2>1 DEF Traced, Waiting
<1>9. ASSUME NEW op \in Ops \ {"pinged"}, NEW S \in (SUBSET Servos) \ {{}}, txPacket(op, S)
      PROVE  Traced'
  <2>1. CASE TxBusy \/ TxShort \/ TxRaises
    BY <2>1, TracedReturn DEF TxBusy, TxShort, TxRaises
  <2>2. CASE TxSent(op, S)
    <3>1. \A u \in due' : u.from \in Servos /\ (u.own => u.from \in did')
      BY <2>2, SentUnits DEF Traced, Types, LineTypes, TxSent
    <3>2. call' \in Calls /\ call'.op # "pinged"
      BY <2>2 DEF TxSent, Calls, Ops
    <3>3. Waiting'
      BY <3>2, NoCallAssumption DEF Waiting, NoCallAssumption
    <3>4. input' = <<>>
      BY <2>2 DEF TxSent, clearPort
    <3> QED
      BY <3>1, <3>3, <3>4 DEF Traced
  <2> QED
    BY <1>9, <2>1, <2>2 DEF txPacket
<1>10. CASE Next
  BY <1>1, <1>2, <1>3, <1>4, <1>5, <1>6, <1>7, <1>8, <1>9, <1>10, StepOfNext DEF Step, Rx
<1> QED
  BY <1>8, <1>10

-----------------------------------------------------------------------------
(* Wire implements Exchange. *)

\* The values Exchange sees.
Asked == IF Waiting THEN call.to ELSE {}
StaleDue == {u.from : u \in {v \in due : ~v.own /\ v.from # Noise}}
StaleIn == {input[i].from : i \in {k \in DOMAIN input :
              ~input[k].own /\ input[k].from # Noise}}
Owed == StaleDue \cup (IF Waiting THEN StaleIn ELSE {})

AskStep == Asked = {} /\ Asked' \in (SUBSET Servos) \ {{}} /\ did' \in SUBSET Asked'
             /\ answered' = {} /\ Owed' \subseteq Owed
AnswerStep == Asked # {} /\ answered' \subseteq Asked \cap (did \cup Owed)
                /\ Asked' = {} /\ did' = {} /\ Owed' \subseteq Owed \cup did
ExpireStep == Owed' \subseteq Owed /\ UNCHANGED <<Asked, did, answered>>
RefuseStep == Asked = {} /\ answered' = {} /\ Owed' \subseteq Owed
                /\ UNCHANGED <<Asked, did>>

\* What Exchange owes, element by element.
LEMMA OwedIs ==
  /\ \A s : s \in StaleDue <=> \E u \in due : ~u.own /\ u.from # Noise /\ s = u.from
  /\ \A s : s \in StaleIn <=>
       \E i \in DOMAIN input : ~input[i].own /\ input[i].from # Noise /\ s = input[i].from
BY DEF StaleDue, StaleIn

\* The end of the exchange in progress is an answer, when who it heard of did as
\* asked or owed one.
LEMMA ReturnIsAnswer ==
  ASSUME Types, Traced, Waiting, NEW heard, NEW next, Return(heard, next),
         next = NoCall \/ next.op = "pinged",
         heard \subseteq call.to \cap (did \cup Owed)
  PROVE  AnswerStep
<1>1. ~Waiting' /\ Asked' = {} /\ Asked = call.to /\ call.to # {}
  BY DEF Return, Waiting, Asked, Types, CallTypes
<1>2. did' = {} /\ answered' = heard
  BY DEF Return
<1>3. Owed' = StaleDue'
  BY <1>1 DEF Owed
<1>4. StaleDue' \subseteq StaleDue \cup did
  <2> SUFFICES ASSUME NEW s \in StaleDue' PROVE s \in StaleDue \cup did
    OBVIOUS
  <2>1. PICK u \in due' : ~u.own /\ u.from # Noise /\ s = u.from
    BY DEF StaleDue
  <2>2. PICK v \in due : u = Aged(v)
    BY DEF Return
  <2>3. s = v.from
    BY <2>1, <2>2, AgedUnit DEF Types, LineTypes
  <2>4. CASE v.own
    BY <2>3, <2>4 DEF Traced
  <2>5. CASE ~v.own
    BY <2>1, <2>3, <2>5 DEF StaleDue
  <2> QED
    BY <2>4, <2>5
<1> QED
  BY <1>1, <1>2, <1>3, <1>4 DEF AnswerStep, Owed

\* The end of a call that asked nobody is a refusal.
LEMMA ReturnIsRefusal ==
  ASSUME Types, Traced, ~Waiting, NEW heard, NEW next, Return(heard, next),
         next = NoCall, heard = {}, did = {}
  PROVE  RefuseStep
<1>1. ~Waiting' /\ Asked' = {} /\ Asked = {}
  BY DEF Return, Waiting, Asked
<1>2. did' = {} /\ answered' = {}
  BY DEF Return
<1>3. StaleDue' \subseteq StaleDue
  <2> SUFFICES ASSUME NEW s \in StaleDue' PROVE s \in StaleDue
    OBVIOUS
  <2>1. PICK u \in due' : ~u.own /\ u.from # Noise /\ s = u.from
    BY DEF StaleDue
  <2>2. PICK v \in due : u = Aged(v)
    BY DEF Return
  <2>3. s = v.from /\ ~v.own
    BY <2>1, <2>2, AgedUnit DEF Types, LineTypes, Traced
  <2> QED
    BY <2>1, <2>3 DEF StaleDue
<1> QED
  BY <1>1, <1>2, <1>3 DEF RefuseStep, Owed

\* The steps above are those of Exchange.
LEMMA StepsAreSteps ==
  ASSUME AskStep \/ AnswerStep \/ ExpireStep \/ RefuseStep
  PROVE  [Abstract!Next]_(Abstract!vars)
<1>1. CASE AskStep
  BY <1>1 DEF AskStep, Abstract!Next, Abstract!Ask, Asked, Owed, StaleDue, StaleIn
<1>2. CASE AnswerStep
  BY <1>2 DEF AnswerStep, Abstract!Next, Abstract!Answer, Asked, Owed, StaleDue, StaleIn
<1>3. CASE ExpireStep
  BY <1>3 DEF ExpireStep, Abstract!Next, Abstract!Expire, Asked, Owed, StaleDue, StaleIn
<1>4. CASE RefuseStep
  BY <1>4 DEF RefuseStep, Abstract!Next, Abstract!Refuse, Asked, Owed, StaleDue, StaleIn
<1> QED
  BY <1>1, <1>2, <1>3, <1>4

\* A packet to be sent is a request that goes out, or a call that asked nobody.
LEMMA TxIsExchange ==
  ASSUME Types, Traced, NEW op \in Ops \ {"pinged"}, NEW S \in (SUBSET Servos) \ {{}},
         Idle \/ (call # NoCall /\ call.op = "pinged"), txPacket(op, S)
  PROVE  AskStep \/ RefuseStep
<1>1. ~Waiting /\ did = {} /\ Asked = {}
  BY DEF Idle, Waiting, Traced, Asked
<1>2. CASE TxBusy \/ TxShort \/ TxRaises
  BY <1>1, <1>2, ReturnIsRefusal DEF TxBusy, TxShort, TxRaises
<1>3. CASE TxSent(op, S)
  <2>1. call' \in Calls /\ call'.to = S /\ call'.op # "pinged"
    BY <1>3 DEF TxSent, Calls, Ops
  <2>2. Waiting' /\ Asked' = S
    BY <2>1, NoCallAssumption DEF Waiting, Asked, NoCallAssumption
  <2>3. did' \subseteq S /\ answered' = {} /\ input' = <<>>
    BY <1>3 DEF TxSent, clearPort
  <2>4. StaleIn' = {}
    BY <2>3, OwedIs DEF StaleIn
  <2>5. StaleDue' \subseteq StaleDue
    <3> SUFFICES ASSUME NEW s \in StaleDue' PROVE s \in StaleDue
      OBVIOUS
    <3>1. PICK u \in due' : ~u.own /\ u.from # Noise /\ s = u.from
      BY DEF StaleDue
    <3>2. PICK v \in due : u.from = v.from
      BY <1>3, <3>1, SentUnits DEF Types, LineTypes
    <3>3. ~v.own
      BY <1>1 DEF Traced
    <3> QED
      BY <3>1, <3>2, <3>3 DEF StaleDue
  <2>6. Owed' \subseteq Owed
    BY <1>1, <2>2, <2>4, <2>5 DEF Owed
  <2> QED
    BY <1>1, <2>2, <2>3, <2>6 DEF AskStep
<1> QED
  BY <1>2, <1>3 DEF txPacket

\* A packet that is read is the answer to the request, or makes no difference.
LEMMA RxIsExchange ==
  ASSUME Types, Traced, Rx PROVE AnswerStep \/ ExpireStep
<1>1. Waiting /\ call \in Calls
  BY DEF Rx, DropNoise, RxCorrupt, RxOther, RxAnswer, RxTimeout, syncReadRx, RxOne,
     Waiting, Types, CallTypes
<1>2. CASE DropNoise \/ RxOther
  <2>1. input # <<>> /\ input' = Tail(input) /\ UNCHANGED <<call, due, did, answered>>
    BY <1>2 DEF DropNoise, RxOther, RxOne
  <2>2. \A i \in DOMAIN input' : i + 1 \in DOMAIN input /\ input'[i] = input[i + 1]
    BY <2>1 DEF Types, LineTypes
  <2>3. StaleIn' \subseteq StaleIn
    BY <2>2 DEF StaleIn
  <2>4. Waiting' /\ Asked' = Asked /\ StaleDue' = StaleDue
    BY <1>1, <2>1 DEF Waiting, Asked, StaleDue
  <2>5. Owed = StaleDue \cup StaleIn /\ Owed' = StaleDue' \cup StaleIn'
    BY <1>1, <2>4 DEF Owed
  <2> QED
    BY <2>1, <2>3, <2>4, <2>5 DEF ExpireStep
<1>3. CASE RxCorrupt \/ RxTimeout
  <2>1. Return({}, NoCall)
    BY <1>3 DEF RxCorrupt, RxTimeout
  <2> QED
    BY <1>1, <2>1, ReturnIsAnswer
<1>4. CASE RxAnswer
  <2>1. call.op # "sync" /\ input # <<>> /\ Head(input).from \in call.to
    BY <1>4 DEF RxAnswer, RxOne
  <2>2. PICK s \in Servos : call.to = {s}
    BY <1>1, <2>1, NoCallAssumption DEF Types, CallTypes, OneServo, NoCallAssumption
  <2>3. 1 \in DOMAIN input /\ Head(input) = input[1] /\ input[1].from = s
    BY <2>1, <2>2 DEF Types, LineTypes
  <2>4. s # Noise
    BY ServosAssumption DEF ServosAssumption
  <2>5. s \in did \cup Owed
    <3>1. CASE input[1].own
      BY <1>1, <2>3, <3>1 DEF Traced
    <3>2. CASE ~input[1].own
      BY <1>1, <2>3, <2>4, <3>2, OwedIs DEF Owed
    <3> QED
      BY <3>1, <3>2
  <2>6. call.to \subseteq call.to \cap (did \cup Owed)
    BY <2>2, <2>5
  <2>7. [call EXCEPT !.op = "pinged"].op = "pinged"
    BY <1>1 DEF Calls
  <2>8. \/ Return(call.to, NoCall)
        \/ Return(call.to, [call EXCEPT !.op = "pinged"])
    BY <1>4 DEF RxAnswer
  <2> QED
    BY <1>1, <2>6, <2>7, <2>8, ReturnIsAnswer
<1>5. CASE syncReadRx
  <2> DEFINE n == Cardinality(call.to)
             raw == SubSeq(input, 1, n)
             heard == {s \in call.to : isAvailable(s)'}
  <2>1. n \in Nat /\ n <= Len(input)
    BY <1>1, <1>5, ServosAssumption, FS_Subset, FS_CardinalityType
       DEF ServosAssumption, Calls, syncReadRx
  <2>2. data' = Blocks(raw) /\ Return(heard, NoCall)
    BY <1>5 DEF syncReadRx
  <2> HIDE DEF n
  <2>3. \A i \in DOMAIN raw : i \in DOMAIN input /\ raw[i] = input[i]
    BY <2>1 DEF Types, LineTypes
  <2>4. ASSUME NEW s \in heard PROVE s \in did \cup Owed
    <3>1. s \in Servos /\ data'[s] = "held"
      BY <1>1, <2>4 DEF isAvailable, Calls
    <3>2. Block(raw, s) = "held"
      BY <2>2, <3>1 DEF Blocks, Group
    <3>3. PICK i \in DOMAIN raw : raw[i].from = s
      BY <3>2 DEF Block
    <3>4. s # Noise
      BY <3>1, ServosAssumption DEF ServosAssumption
    <3>5. i \in DOMAIN input /\ input[i].from = s
      BY <2>3, <3>3
    <3>6. CASE input[i].own
      BY <1>1, <3>5, <3>6 DEF Traced
    <3>7. CASE ~input[i].own
      BY <1>1, <3>4, <3>5, <3>7, OwedIs DEF Owed
    <3> QED
      BY <3>6, <3>7
  <2>5. heard \subseteq call.to \cap (did \cup Owed)
    BY <2>4
  <2> HIDE DEF heard
  <2> QED
    BY <1>1, <2>2, <2>5, ReturnIsAnswer
<1> QED
  BY <1>2, <1>3, <1>4, <1>5 DEF Rx

\* Every step of the wire is one of Exchange, or makes no difference to it.
LEMMA ExchangeStep ==
  ASSUME Types, Traced, [Next]_vars PROVE [Abstract!Next]_(Abstract!vars)
<1>1. CASE Rx
  BY <1>1, RxIsExchange, StepsAreSteps
<1>2. CASE Raise
  BY <1>2, ReturnIsAnswer, StepsAreSteps DEF Raise
<1>3. CASE Disturb
  <2>1. call \in Calls /\ Waiting
    BY <1>3 DEF Disturb, Waiting, Types, CallTypes
  <2>2. call' \in Calls /\ call'.op = call.op /\ call'.to = call.to
    BY <1>3, <2>1 DEF Disturb, Calls
  <2>3. Waiting' /\ Asked' = Asked
    BY <2>1, <2>2, NoCallAssumption DEF Waiting, Asked, NoCallAssumption
  <2> DEFINE noise == [from |-> Noise, whole |-> FALSE, own |-> FALSE]
  <2>4. noise.from = Noise /\ noise \in Units
    BY DEF Units
  <2>5. input' = Append(input, noise) /\ UNCHANGED <<due, did, answered>>
    BY <1>3 DEF Disturb
  <2> HIDE DEF noise
  <2>6. \A i \in DOMAIN input' :
          input'[i] = noise \/ (i \in DOMAIN input /\ input'[i] = input[i])
    BY <2>4, <2>5 DEF Types, LineTypes
  <2>7. StaleIn' \subseteq StaleIn /\ StaleDue' = StaleDue
    BY <2>4, <2>5, <2>6 DEF StaleIn, StaleDue
  <2>8. Owed' \subseteq Owed
    BY <2>1, <2>3, <2>7 DEF Owed
  <2> QED
    BY <2>3, <2>5, <2>8, StepsAreSteps DEF ExpireStep
<1>4. CASE Arrive
  <2>1. PICK u \in due : due' = due \ {u} /\ input' = Append(input, u)
    BY <1>4 DEF Arrive
  <2>2. UNCHANGED <<call, did, answered>> /\ u \in Units
    BY <1>4 DEF Arrive, Types, LineTypes
  <2>3. \A i \in DOMAIN input' :
          input'[i] = u \/ (i \in DOMAIN input /\ input'[i] = input[i])
    BY <2>1, <2>2 DEF Types, LineTypes
  <2>4. StaleDue' \subseteq StaleDue
    BY <2>1 DEF StaleDue
  <2>5. StaleIn' \subseteq StaleDue \cup StaleIn
    BY <2>1, <2>3 DEF StaleIn, StaleDue
  <2>6. Asked' = Asked /\ (Waiting' <=> Waiting)
    BY <2>2 DEF Asked, Waiting
  <2>7. Owed' \subseteq Owed
    BY <2>4, <2>5, <2>6 DEF Owed
  <2> QED
    BY <2>2, <2>6, <2>7, StepsAreSteps DEF ExpireStep
<1>5. CASE writeTxOnly \/ syncWriteTxOnly
  <2>1. UNCHANGED <<call, due, did>> /\ answered' = {} /\ ~Waiting
    BY <1>5 DEF writeTxOnly, syncWriteTxOnly, Idle, Waiting
  <2>2. ~Waiting' /\ Asked = {} /\ Asked' = {} /\ StaleDue' = StaleDue
    BY <2>1 DEF Waiting, Asked, StaleDue
  <2>3. Owed' = Owed
    BY <2>1, <2>2 DEF Owed
  <2> QED
    BY <2>1, <2>2, <2>3, StepsAreSteps DEF RefuseStep
<1>6. CASE openPort
  <2>1. UNCHANGED <<call, due, did, answered>> /\ ~Waiting
    BY <1>6 DEF openPort, Waiting, Types, CallTypes
  <2>2. ~Waiting' /\ Asked' = Asked /\ StaleDue' = StaleDue
    BY <2>1 DEF Waiting, Asked, StaleDue
  <2>3. Owed' = Owed
    BY <2>1, <2>2 DEF Owed
  <2> QED
    BY <2>1, <2>2, <2>3, StepsAreSteps DEF ExpireStep
<1>7. CASE closePort \/ (\E S \in SUBSET Servos : addParam(S)) \/ UNCHANGED vars
  <2>1. UNCHANGED <<call, due, did, answered, input>>
    BY <1>7 DEF closePort, addParam, vars
  <2>2. (Waiting' <=> Waiting) /\ Asked' = Asked /\ StaleDue' = StaleDue /\ StaleIn' = StaleIn
    BY <2>1 DEF Waiting, Asked, StaleDue, StaleIn
  <2>3. Owed' = Owed
    BY <2>2 DEF Owed
  <2> QED
    BY <2>1, <2>2, <2>3, StepsAreSteps DEF ExpireStep
<1>8. ASSUME NEW op \in Ops \ {"pinged"}, NEW S \in (SUBSET Servos) \ {{}},
             Idle \/ (call # NoCall /\ call.op = "pinged"), txPacket(op, S)
      PROVE  [Abstract!Next]_(Abstract!vars)
  BY <1>8, TxIsExchange, StepsAreSteps
<1>9. CASE Next
  BY <1>1, <1>2, <1>3, <1>4, <1>5, <1>6, <1>7, <1>8, <1>9, StepOfNext DEF Step
<1> QED
  BY <1>7, <1>9

\* What is behind the wire is seen as Exchange says: a caller that was told of an
\* answer was answered by a servo that carried the request out, or that owed the
\* answer to an earlier one.
THEOREM WireImplementsExchange == Spec => ImplementsExchange
<1>1. Init => Abstract!Init
  BY DEF Init, Abstract!Init, Waiting
<1>2. Init => Traced
  BY DEF Init, Traced, Waiting
<1> QED
  BY TypesInit, TypesStep, <1>1, <1>2, TracedStep, ExchangeStep, PTL
     DEF Spec, ImplementsExchange, Abstract!Spec

=============================================================================
