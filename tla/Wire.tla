--------------------------------- MODULE Wire ---------------------------------
(***************************************************************************)
(* An open serial port and the servos behind it: the packets of            *)
(* protocol/packet_handler.py, the port of protocol/port_handler.py, the   *)
(* group of protocol/group_sync_read.py and the helpers of                 *)
(* protocol/sts.py.  One client uses the port at a time, and closes it and *)
(* opens it again when it likes, each time with a port object of its own.  *)
(*                                                                         *)
(* A packet is a unit: who sent it, whether its checksum holds, and the    *)
(* ghost own, which says that it answers the request in progress.  Bytes   *)
(* that are no packet are a unit from Noise.  An answer may come after the *)
(* caller gave up; of those one like another is in due once.               *)
(***************************************************************************)
EXTENDS Naturals, Sequences, FiniteSets

CONSTANTS
  Servos,     \* the IDs on the bus
  Noise,      \* the sender of bytes that are no packet
  NoCall,     \* no call in progress
  Faults,     \* "lost", "corrupt", "noise", "late", "short", "raise"
  MaxLate     \* bound: answers overdue when the next request goes out

ASSUME ServosAssumption ==
  /\ IsFiniteSet(Servos)
  /\ Noise \notin Servos
  /\ Faults \subseteq {"lost", "corrupt", "noise", "late", "short", "raise"}
  /\ MaxLate \in Nat

VARIABLES
  opened,    \* PortHandler.is_open
  using,     \* PortHandler.is_using
  raised,    \* ghost: an operation on the open port has raised
  call,      \* the call in progress
  input,     \* what waits to be read
  due,       \* answers on their way
  data,      \* GroupSyncRead.data_dict: the block of each servo of the group
  did,       \* ghost: the servos that carried out the request in progress
  answered   \* the servos the last call got an answer from

vars == <<opened, using, raised, call, input, due, data, did, answered>>

Units == [from : Servos \cup {Noise}, whole : BOOLEAN, own : BOOLEAN]

\* One servo read or written, pinged and then read, or the whole group read.
Ops == {"read", "write", "ping", "pinged", "pingread", "sync"}

Calls == [op : Ops, to : SUBSET Servos, noisy : BOOLEAN]

ASSUME NoCallAssumption == NoCall \notin Calls

-----------------------------------------------------------------------------
(* The port. *)

\* Mutant: only what was to be sent is dropped.
clearPortNot(q) == q

\* What waited to be read is dropped before a packet is sent.
clearPort(q) == <<>>

\* Every session makes a new PortHandler, which is not in use.
openPort ==
  /\ ~opened
  /\ opened' = TRUE
  /\ using' = FALSE /\ raised' = FALSE
  /\ input' = <<>>
  /\ data' = [s \in Servos |-> "absent"]
  /\ UNCHANGED <<call, due, did, answered>>

closePort ==
  /\ opened /\ call = NoCall
  /\ opened' = FALSE
  /\ UNCHANGED <<using, raised, call, input, due, data, did, answered>>

\* The time is up, unless every answer comes in time and one still has to.
isPacketTimeout == "late" \in Faults \/ due = {}

Idle == opened /\ call = NoCall

Waiting == call # NoCall /\ call.op # "pinged"

\* The units that are no longer awaited.
Aged(u) == [u EXCEPT !.own = FALSE]

\* The exchange in progress ends; its caller heard of some servos.
Return(heard, next) ==
  /\ answered' = heard
  /\ call' = next
  /\ did' = {}
  /\ due' = {Aged(u) : u \in due}

\* The line fails under the call: is_using keeps what it said.
Raise ==
  /\ "raise" \in Faults
  /\ Waiting
  /\ raised' = TRUE
  /\ Return({}, NoCall)
  /\ UNCHANGED <<opened, using, input, data>>

-----------------------------------------------------------------------------
(* Packets out. *)

PortBusy == using

\* The call of a port in use ends at once.
TxBusy ==
  /\ PortBusy
  /\ Return({}, NoCall)
  /\ UNCHANGED <<opened, using, raised, input, data>>

\* Mutant: the port stays marked in use when only part of the packet went out.
TxShortKeeps ==
  /\ ~PortBusy
  /\ "short" \in Faults
  /\ using' = TRUE
  /\ input' = clearPort(input)
  /\ Return({}, NoCall)
  /\ UNCHANGED <<opened, raised, data>>

\* Only part of the packet went out.
TxShort ==
  /\ ~PortBusy
  /\ "short" \in Faults
  /\ using' = FALSE
  /\ input' = clearPort(input)
  /\ Return({}, NoCall)
  /\ UNCHANGED <<opened, raised, data>>

\* The write raises, with the port marked in use.
TxRaises ==
  /\ ~PortBusy
  /\ "raise" \in Faults
  /\ using' = TRUE /\ raised' = TRUE
  /\ input' = clearPort(input)
  /\ Return({}, NoCall)
  /\ UNCHANGED <<opened, data>>

\* The answers of some servos, of which some arrive whole.
Answers(S, good) == {[from |-> s, whole |-> s \in good, own |-> TRUE] : s \in S}

\* The packet goes out: some servos carry it out, some of those answer, and
\* some of the answers arrive whole.
TxSent(op, S) ==
  /\ ~PortBusy
  /\ Cardinality(due) <= MaxLate
  /\ using' = TRUE
  /\ call' = [op |-> op, to |-> S, noisy |-> FALSE]
  /\ input' = clearPort(input)
  /\ answered' = {}
  /\ \E doers \in SUBSET S : \E answering \in SUBSET doers : \E good \in SUBSET answering :
       /\ "lost" \in Faults \/ answering = S
       /\ "corrupt" \in Faults \/ good = answering
       /\ did' = doers
       /\ due' = {Aged(u) : u \in due} \cup Answers(answering, good)
  /\ UNCHANGED <<opened, raised, data>>

txPacket(op, S) == TxBusy \/ TxShort \/ TxRaises \/ TxSent(op, S)

\* A packet nobody answers: is_using is cleared whatever became of it, even when
\* the port was in use.
writeTxOnly ==
  /\ Idle
  /\ using' = FALSE
  /\ input' = IF PortBusy THEN input ELSE clearPort(input)
  /\ answered' = {}
  /\ UNCHANGED <<opened, raised, call, due, data, did>>

\* A broadcast, and the action that carries out deferred goals: nobody answers,
\* and a port in use is left as it is.
syncWriteTxOnly ==
  /\ Idle /\ ~PortBusy
  /\ using' = FALSE
  /\ input' = clearPort(input)
  /\ answered' = {}
  /\ UNCHANGED <<opened, raised, call, due, data, did>>

-----------------------------------------------------------------------------
(* Packets in: one servo. *)

RxOne == Waiting /\ call.op # "sync" /\ input # <<>>

\* Mutant: the bytes before a header stay where they are.
DropNoiseNot ==
  /\ RxOne /\ Head(input).from = Noise
  /\ UNCHANGED vars

\* What comes before a header is dropped.
DropNoise ==
  /\ RxOne /\ Head(input).from = Noise
  /\ input' = Tail(input)
  /\ UNCHANGED <<opened, using, raised, call, due, data, did, answered>>

\* A packet whose checksum fails ends the call.
RxCorrupt ==
  /\ RxOne /\ Head(input).from # Noise /\ ~Head(input).whole
  /\ input' = Tail(input)
  /\ using' = FALSE
  /\ Return({}, NoCall)
  /\ UNCHANGED <<opened, raised, data>>

\* The packet of another servo is read and forgotten; is_using is cleared
\* although the call goes on.
RxOther ==
  /\ RxOne /\ Head(input).whole /\ Head(input).from \notin call.to \cup {Noise}
  /\ input' = Tail(input)
  /\ using' = FALSE
  /\ UNCHANGED <<opened, raised, call, due, data, did, answered>>

\* The packet of the servo that was asked is its answer, whatever it was sent
\* for.  A ping goes on with a read of the model number.
RxAnswer ==
  /\ RxOne /\ Head(input).whole /\ Head(input).from \in call.to
  /\ input' = Tail(input)
  /\ using' = FALSE
  /\ Return(call.to, IF call.op = "ping" THEN [call EXCEPT !.op = "pinged"] ELSE NoCall)
  /\ UNCHANGED <<opened, raised, data>>

\* Nothing more is to be read in time.
RxTimeout ==
  /\ Waiting /\ isPacketTimeout
  /\ IF call.op = "sync" THEN Len(input) < Cardinality(call.to) ELSE input = <<>>
  /\ using' = FALSE
  /\ Return({}, NoCall)
  /\ UNCHANGED <<opened, raised, input, data>>

-----------------------------------------------------------------------------
(* Packets in: a group. *)

\* GroupSyncRead.clearParam and addParam for each servo of S.
addParam(S) ==
  /\ Idle
  /\ data' = [s \in Servos |-> IF s \in S THEN "empty" ELSE "absent"]
  /\ UNCHANGED <<opened, using, raised, call, input, due, did, answered>>

Group == {s \in Servos : data[s] # "absent"}

isAvailable(s) == data[s] = "held"

\* _readRx: the block of the first packet of s among what was read, empty when
\* there is none or its checksum fails.
Block(raw, s) ==
  LET mine == {i \in DOMAIN raw : raw[i].from = s}
  IN IF mine # {} /\ raw[CHOOSE i \in mine : \A k \in mine : i <= k].whole
     THEN "held" ELSE "empty"

\* rxPacket(): the block of each servo of the group.
Blocks(raw) == [s \in Servos |-> IF s \in Group THEN Block(raw, s) ELSE data[s]]

\* As many packets are taken as servos were asked, whatever they are; a block is
\* available to the caller when one of them is that servo's.
syncReadRx ==
  /\ Waiting /\ call.op = "sync" /\ Len(input) >= Cardinality(call.to)
  /\ LET n   == Cardinality(call.to)
         raw == SubSeq(input, 1, n)
     IN /\ input' = SubSeq(input, n + 1, Len(input))
        /\ data' = Blocks(raw)
  /\ using' = FALSE
  /\ Return({s \in call.to : isAvailable(s)'}, NoCall)
  /\ UNCHANGED <<opened, raised>>

-----------------------------------------------------------------------------
(* The calls of a client, and the line. *)

\* A register is read, or written and acknowledged: the two exchanges every
\* helper of sts.py goes through.
readTxRx(s) == Idle /\ txPacket("read", {s})
writeTxRx(s) == Idle /\ txPacket("write", {s})

\* Position, speed, moving; and the state of health.
ReadPos(s) == readTxRx(s)
ReadStatus(s) == readTxRx(s)

\* A goal with speed and acceleration; the modes, and the lock of the EEPROM; a
\* goal that is carried out at the next action.
WritePosEx(s) == writeTxRx(s)
LockEprom(s) == writeTxRx(s)
regWriteTxRx(s) == writeTxRx(s)

\* scscl.py: the same exchanges with the registers of the older servos.
WritePos(s) == writeTxRx(s)
ReadPosSpeed(s) == readTxRx(s)
PWMMode(s) == writeTxRx(s)

ping(s) == Idle /\ txPacket("ping", {s})

pingRead == call # NoCall /\ call.op = "pinged" /\ txPacket("pingread", call.to)

syncRead == Idle /\ Group # {} /\ txPacket("sync", Group)

\* An answer arrives.
Arrive ==
  /\ \E u \in due : due' = due \ {u} /\ input' = Append(input, u)
  /\ UNCHANGED <<opened, using, raised, call, data, did, answered>>

\* Bytes that are no packet arrive, once in a call.
Disturb ==
  /\ "noise" \in Faults
  /\ Waiting /\ ~call.noisy
  /\ input' = Append(input, [from |-> Noise, whole |-> FALSE, own |-> FALSE])
  /\ call' = [call EXCEPT !.noisy = TRUE]
  /\ UNCHANGED <<opened, using, raised, due, data, did, answered>>

Init ==
  /\ opened = FALSE /\ using = FALSE /\ raised = FALSE
  /\ call = NoCall
  /\ input = <<>> /\ due = {}
  /\ data = [s \in Servos |-> "absent"]
  /\ did = {} /\ answered = {}

Rx == DropNoise \/ RxCorrupt \/ RxOther \/ RxAnswer \/ RxTimeout \/ syncReadRx

Next ==
  \/ openPort \/ closePort
  \/ \E s \in Servos : \/ ReadPos(s) \/ ReadStatus(s)
                       \/ WritePosEx(s) \/ LockEprom(s) \/ regWriteTxRx(s)
                       \/ WritePos(s) \/ ReadPosSpeed(s) \/ PWMMode(s)
                       \/ ping(s)
  \/ pingRead \/ syncRead
  \/ \E S \in SUBSET Servos : addParam(S)
  \/ writeTxOnly \/ syncWriteTxOnly
  \/ Rx \/ Raise
  \/ Arrive \/ Disturb

\* A client that waits keeps reading and goes on from a ping to its read, and
\* what the servos sent arrives.
Fairness == WF_vars(Rx) /\ WF_vars(pingRead) /\ WF_vars(Arrive)

Spec == Init /\ [][Next]_vars /\ Fairness

-----------------------------------------------------------------------------
(* Properties. *)

\* The types of the port, of the group and of what is on the line.
TypeOK ==
  /\ opened \in BOOLEAN /\ using \in BOOLEAN /\ raised \in BOOLEAN
  /\ call \in Calls \cup {NoCall}
  /\ call # NoCall => opened /\ call.to # {}
  /\ input \in Seq(Units)
  /\ due \subseteq Units
  /\ data \in [Servos -> {"absent", "empty", "held"}]
  /\ did \subseteq Servos /\ answered \subseteq Servos

\* A port that nobody is using is not left marked in use, which would fail
\* every later call with COMM_PORT_BUSY, unless the line raised under it.
PortFree == using => Waiting \/ raised

\* A caller that was told of an answer from a servo was answered: that servo
\* carried out this very request, or it still owed the answer to an earlier
\* one; nothing that had arrived before is taken for an answer, and no block
\* of an earlier group read for one of this.
Abstract == INSTANCE Exchange WITH
  Servos <- Servos,
  asked <- IF Waiting THEN call.to ELSE {},
  did <- did,
  answered <- answered,
  owed <- {u.from : u \in {v \in due : ~v.own /\ v.from # Noise}}
            \cup (IF Waiting
                  THEN {input[i].from : i \in {k \in DOMAIN input :
                          ~input[k].own /\ input[k].from # Noise}}
                  ELSE {})

ImplementsExchange == Abstract!Spec

\* Every call returns, whatever is lost, late or in the way (txRxPacket).
EveryCallReturns == (call # NoCall) ~> (call = NoCall)

=============================================================================
