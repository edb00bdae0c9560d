---------------------------- MODULE WorkbenchProofs ----------------------------
(* Theorems of Workbench, for every value of its constants. *)
EXTENDS Workbench, TLAPS

-----------------------------------------------------------------------------
(* The threads and the bus. *)

\* What may be left of a handler.
Stopping == <<"stop">>
Restarting == <<"stop", "start">>
Sweeping == <<"stop", "work", "stop", "start">>
Swept == <<"work", "stop", "start">>
Starting == <<"start">>
Using == <<"work">>
Bare == <<"bare">>

Stops == {Stopping, Restarting, Sweeping}
Uses == {Using, Swept}

\* A handler is in the first of its steps.
GuiInv ==
  \/ todo = <<>> /\ phase = "idle"
  \/ todo \in Stops /\ phase \in {"go", "join", "unlist", "close", "tell"}
  \/ todo = Starting /\ phase \in {"go", "open", "list"}
  \/ todo \in Uses \cup {Bare} /\ phase \in {"go", "bus"}

DashTypes ==
  /\ interface \in Ifaces \cup {Nobody} /\ slot \in Loops \cup {Nobody}
  /\ port \in [Ifaces -> {"new", "up", "closed"}]
  /\ loop \in [Loops -> {"dead", "test", "bus", "tell"}]
  /\ at \in [D!Clients -> {"out", "look", "borrow", "own", "in"}]
  /\ hand \in [D!Clients -> Ifaces \cup {Nobody, "own"}]

\* Who is on the bus with a port of its own has the lock, unless the handler asks
\* for none; and the interface that Gui borrows from is up.
BusInv ==
  /\ \A c \in D!Clients :
       /\ at[c] = "borrow" => hand[c] \in Ifaces
       /\ at[c] = "in" => \/ hand[c] \in Ifaces
                          \/ hand[c] = "own" /\ (busLock = c \/ (c = Gui /\ todo = Bare))
  /\ at[Gui] # "out" => phase = "bus"
  /\ at[Gui] \in {"borrow", "in"} /\ hand[Gui] \in Ifaces => port[hand[Gui]] = "up"

\* Between the stop of the polling and its start no interface is up.
Quiet ==
  \/ todo \in Stops /\ phase = "tell"
  \/ todo = Starting /\ phase \in {"go", "open"}
  \/ todo = Swept

PortInv ==
  /\ Quiet => \A i \in Ifaces : port[i] # "up"
  /\ Quiet \/ phase \in {"close", "list"} => interface = Nobody
  /\ phase = "list" => \A i, j \in Ifaces : port[i] = "up" /\ port[j] = "up" => i = j
  /\ phase \notin {"close", "list"} =>
       \A i \in Ifaces : port[i] = "up" => interface = i

\* While every join has succeeded, the only loop there may be is the one in the
\* slot, and between the stop and the start there is none.
LoopInv ==
  ~expired =>
    /\ \A l \in Loops : loop[l] # "dead" => slot = l
    /\ (todo \in Stops /\ phase \in {"unlist", "close", "tell"})
         \/ todo \in {Swept, Starting} => slot = Nobody
    /\ todo = Swept => ~connected

DashInv == DashTypes /\ GuiInv /\ BusInv /\ PortInv /\ LoopInv

LEMMA Names ==
  /\ Gui \in D!Clients /\ Worker \in D!Clients /\ Loops \subseteq D!Clients
  /\ Gui # Worker /\ Gui \notin Loops /\ Nobody \notin D!Clients
  /\ Nobody \notin Ifaces /\ "own" \notin Ifaces
BY WorkbenchAssumption DEF D!ThreadsAssumption, D!Clients

LEMMA Handlers ==
  /\ \A t \in Stops : t # <<>> /\ Head(t) = "stop"
  /\ \A t \in Uses : t # <<>> /\ Head(t) = "work"
  /\ Starting # <<>> /\ Head(Starting) = "start" /\ Tail(Starting) = <<>>
  /\ Bare # <<>> /\ Head(Bare) = "bare" /\ Tail(Bare) = <<>>
  /\ Tail(Stopping) = <<>> /\ Tail(Restarting) = Starting /\ Tail(Sweeping) = Swept
  /\ Tail(Using) = <<>> /\ Tail(Swept) = Restarting
  /\ Using # Swept /\ Stopping # Restarting /\ Stopping # Sweeping /\ Restarting # Sweeping
BY DEF Stops, Uses, Stopping, Restarting, Sweeping, Swept, Starting, Using, Bare

\* The first step of a handler says what it can be.
LEMMA StepOf ==
  ASSUME GuiInv, NEW s, NEW p, D!GuiAt(s, p)
  PROVE  /\ todo # <<>> /\ phase = p
         /\ s = "stop" => todo \in Stops /\ p \in {"go", "join", "unlist", "close", "tell"}
         /\ s = "start" => todo = Starting /\ p \in {"go", "open", "list"}
         /\ s = "work" => todo \in Uses /\ p \in {"go", "bus"}
         /\ s = "bare" => todo = Bare /\ p \in {"go", "bus"}
BY Handlers DEF GuiInv, D!GuiAt

\* What is left when a step is done.
LEMMA Rest ==
  ASSUME D!Proceed
  PROVE  /\ todo \in Stops => todo' \in {<<>>, Starting, Swept}
         /\ todo \in Uses => todo' \in {<<>>, Restarting}
         /\ todo \in {Starting, Bare} => todo' = <<>>
         /\ phase' = IF todo' = <<>> THEN "idle" ELSE "go"
BY Handlers DEF D!Proceed, Stops, Uses

\* The handlers differ.
LEMMA Kinds ==
  /\ <<>> \notin Stops \cup Uses \cup {Starting, Bare}
  /\ Starting \notin Stops \cup Uses \cup {Bare}
  /\ Stops \cap Uses = {} /\ Bare \notin Stops \cup Uses
  /\ Swept \in Uses /\ Restarting \in Stops /\ Swept # Using /\ Swept # <<>>
<1>1. /\ Starting \notin Stops \cup Uses \cup {Bare}
      /\ Stops \cap Uses = {} /\ Bare \notin Stops \cup Uses
  BY Handlers, "stop" # "work", "stop" # "bare", "work" # "bare", "start" # "stop",
     "start" # "work", "start" # "bare"
<1> QED BY <1>1, Handlers DEF Stops, Uses

\* A step of one client in bus() leaves the others where they are, with what they
\* hold, and what it gets it gets under its lock.
LEMMA ClientMoves ==
  ASSUME DashInv, NEW c \in D!Clients,
         D!Enter(c) \/ D!Advances(c) \/ D!Leave(c) \/ D!Raises(c)
  PROVE  /\ at' \in [D!Clients -> {"out", "look", "borrow", "own", "in"}]
         /\ hand' \in [D!Clients -> Ifaces \cup {Nobody, "own"}]
         /\ \A d \in D!Clients \ {c} :
              at'[d] = at[d] /\ hand'[d] = hand[d] /\ (busLock = d => busLock' = d)
         /\ at'[c] = "borrow" => hand'[c] \in Ifaces /\ port[hand'[c]] = "up"
         /\ at'[c] = "in" => \/ hand'[c] = "own" /\ busLock' = c
                             \/ at[c] = "borrow" /\ hand'[c] = hand[c]
<1> USE DEF DashInv, DashTypes
<1>1. CASE D!Enter(c)
  BY <1>1 DEF D!Enter
<1>2. CASE D!Look(c)
  BY <1>2, Names DEF D!Look, D!Lending
<1>3. CASE D!Borrow(c)
  BY <1>3 DEF D!Borrow
<1>4. CASE D!Own(c)
  BY <1>4, Names DEF D!Own
<1>5. CASE D!Release(c)
  BY <1>5, Names DEF D!Release
<1> QED
  BY <1>1, <1>2, <1>3, <1>4, <1>5
     DEF D!Advances, D!Leave, D!Raises, D!LookFails, D!BorrowTimesOut, D!OwnFails

\* A handler begins.
LEMMA HandlerStep ==
  ASSUME DashInv, NEW t \in Stops \cup {Using, Bare}, D!Handler(t)
  PROVE  DashInv'
<1>1. /\ todo = <<>> /\ phase = "idle" /\ todo' = t /\ phase' = "go"
      /\ UNCHANGED <<interface, port, slot, loop, connected, busLock, at, hand, expired>>
  BY Kinds DEF D!Handler, D!busVars, DashInv, GuiInv
<1>2. t \notin {Swept, Starting} /\ todo # Bare /\ at[Gui] = "out"
  BY <1>1, Kinds DEF DashInv, BusInv, Uses
<1>3. DashTypes' /\ GuiInv'
  BY <1>1, Kinds DEF DashInv, DashTypes, GuiInv, Uses
<1>4. BusInv'
  BY <1>1, <1>2 DEF DashInv, BusInv, D!Clients
<1>5. PortInv' /\ LoopInv'
  BY <1>1, <1>2 DEF DashInv, PortInv, LoopInv, Quiet
<1> QED BY <1>3, <1>4, <1>5 DEF DashInv

\* Gui stops the polling.
LEMMA StopStep ==
  ASSUME DashInv,
         D!StopSet \/ D!StopJoin \/ D!StopUnlist \/ D!StopClose \/ D!StopTell
  PROVE  DashInv'
<1> USE DEF DashInv
<1>1. CASE D!StopSet
  <2>1. todo \in Stops /\ phase = "go" /\ todo' = todo /\ phase' = "join"
    BY <1>1, StepOf DEF D!StopSet
  <2>2. UNCHANGED <<interface, port, slot, loop, connected, busLock, at, hand, expired>>
    BY <1>1 DEF D!StopSet, D!busVars
  <2>3. at[Gui] = "out" /\ todo \notin {Swept, Starting, Bare}
    BY <2>1, Kinds DEF BusInv
  <2> QED
    BY <2>1, <2>2, <2>3
       DEF DashTypes, GuiInv, BusInv, PortInv, LoopInv, Quiet, D!Clients
<1>2. CASE D!StopJoin
  <2>1. todo \in Stops /\ phase = "join" /\ todo' = todo /\ phase' = "unlist"
    BY <1>2, StepOf DEF D!StopJoin
  <2>2. /\ UNCHANGED <<interface, port, loop, connected, busLock, at, hand>>
        /\ slot' = Nobody /\ (~expired' => ~expired /\ ~D!Alive)
    BY <1>2 DEF D!StopJoin, D!busVars
  <2>3. at[Gui] = "out" /\ todo \notin {Swept, Starting, Bare}
    BY <2>1, Kinds DEF BusInv
  <2>4. LoopInv'
    <3> SUFFICES ASSUME ~expired' PROVE \A l \in Loops : loop[l] = "dead"
      BY <2>1, <2>2, <2>3 DEF LoopInv
    <3> QED BY <2>2, Names DEF LoopInv, D!Alive, DashTypes, D!Clients
  <2>5. DashTypes' /\ GuiInv' /\ BusInv' /\ PortInv'
    BY <2>1, <2>2, <2>3 DEF DashTypes, GuiInv, BusInv, PortInv, Quiet, D!Clients
  <2> QED BY <2>4, <2>5
<1>3. CASE D!StopUnlist
  <2>1. /\ todo \in Stops /\ phase = "unlist" /\ todo' = todo
        /\ phase' = IF interface = Nobody THEN "tell" ELSE "close"
    BY <1>3, StepOf DEF D!StopUnlist
  <2>2. /\ UNCHANGED <<port, slot, loop, connected, busLock, at, hand, expired>>
        /\ interface' = Nobody
    BY <1>3 DEF D!StopUnlist, D!busVars
  <2>3. at[Gui] = "out" /\ todo \notin {Swept, Starting, Bare}
    BY <2>1, Kinds DEF BusInv
  <2>4. PortInv'
    BY <2>1, <2>2, <2>3, Names DEF PortInv, Quiet
  <2>5. DashTypes' /\ GuiInv' /\ BusInv' /\ LoopInv'
    BY <2>1, <2>2, <2>3 DEF DashTypes, GuiInv, BusInv, LoopInv, D!Clients
  <2> QED BY <2>4, <2>5
<1>4. CASE D!StopClose
  <2>1. todo \in Stops /\ phase = "close" /\ todo' = todo /\ phase' = "tell"
    BY <1>4, StepOf DEF D!StopClose
  <2>2. /\ UNCHANGED <<interface, slot, loop, connected, busLock, at, hand, expired>>
        /\ port' = [i \in Ifaces |-> IF port[i] = "up" THEN "closed" ELSE port[i]]
    BY <1>4 DEF D!StopClose, D!busVars
  <2>3. at[Gui] = "out" /\ todo \notin {Swept, Starting, Bare}
    BY <2>1, Kinds DEF BusInv
  <2>4. PortInv'
    BY <2>1, <2>2 DEF PortInv, Quiet
  <2>5. DashTypes' /\ GuiInv' /\ BusInv' /\ LoopInv'
    BY <2>1, <2>2, <2>3 DEF DashTypes, GuiInv, BusInv, LoopInv, D!Clients
  <2> QED BY <2>4, <2>5
<1>5. CASE D!StopTell
  <2>1. todo \in Stops /\ phase = "tell" /\ D!Proceed /\ connected' = FALSE
    BY <1>5, StepOf DEF D!StopTell
  <2>2. /\ UNCHANGED <<interface, port, slot, loop, busLock, at, hand, expired>>
        /\ todo' \in {<<>>, Starting, Swept}
        /\ phase' = IF todo' = <<>> THEN "idle" ELSE "go"
    BY <1>5, <2>1, Rest DEF D!StopTell, D!busVars
  <2>3. at[Gui] = "out" /\ todo # Bare /\ Starting # <<>> /\ Swept # <<>> /\ Quiet
    BY <2>1, Kinds DEF BusInv, Quiet
  <2>4. PortInv'
    BY <2>2, <2>3 DEF PortInv, Quiet
  <2>5. LoopInv'
    BY <2>1, <2>2 DEF LoopInv
  <2>6. DashTypes' /\ GuiInv' /\ BusInv'
    BY <2>1, <2>2, <2>3, Kinds DEF DashTypes, GuiInv, BusInv, D!Clients
  <2> QED BY <2>4, <2>5, <2>6
<1> QED BY <1>1, <1>2, <1>3, <1>4, <1>5

\* Gui starts it.
LEMMA StartStep ==
  ASSUME DashInv,
         D!StartPolling \/ D!StreamOpen \/ D!StreamFails \/ D!StreamList
  PROVE  DashInv'
<1> USE DEF DashInv
<1>1. CASE D!StartPolling
  <2>1. todo = Starting /\ phase = "go"
    BY <1>1, StepOf DEF D!StartPolling
  <2>2. UNCHANGED <<interface, port, connected, busLock, at, hand, expired>>
    BY <1>1 DEF D!StartPolling, D!busVars
  <2>3. at[Gui] = "out" /\ todo # Bare /\ Quiet
    BY <2>1, Kinds DEF BusInv, Quiet
  <2>4. CASE stream
    <3>1. phase' = "open" /\ UNCHANGED <<todo, slot, loop>>
      BY <1>1, <2>4 DEF D!StartPolling
    <3> QED
      BY <2>1, <2>2, <2>3, <3>1, Kinds
         DEF DashTypes, GuiInv, BusInv, PortInv, LoopInv, Quiet, D!Clients
  <2>5. CASE ~stream
    <3>1. todo' = <<>> /\ phase' = "idle"
      BY <1>1, <2>1, <2>5, Rest DEF D!StartPolling
    <3>2. PICK l \in Loops : loop[l] = "dead" /\ loop' = [loop EXCEPT ![l] = "test"]
                             /\ slot' = l
      BY <1>1, <2>5 DEF D!StartPolling
    <3>3. LoopInv'
      BY <2>1, <2>2, <3>1, <3>2, Kinds, Names DEF LoopInv, DashTypes, D!Clients
    <3>4. DashTypes'
      BY <2>2, <3>2 DEF DashTypes
    <3>5. GuiInv' /\ BusInv' /\ PortInv'
      BY <2>2, <2>3, <3>1, Kinds DEF GuiInv, BusInv, PortInv, Quiet, D!Clients
    <3> QED BY <3>3, <3>4, <3>5
  <2> QED BY <2>4, <2>5
<1>2. CASE D!StreamOpen
  <2>1. todo = Starting /\ phase = "open" /\ todo' = todo /\ phase' = "list"
    BY <1>2, StepOf DEF D!StreamOpen
  <2>2. UNCHANGED <<interface, slot, loop, connected, busLock, at, hand, expired>>
    BY <1>2 DEF D!StreamOpen, D!busVars
  <2>3. PICK i \in Ifaces : port[i] = "new" /\ port' = [port EXCEPT ![i] = "up"]
    BY <1>2 DEF D!StreamOpen
  <2>4. at[Gui] = "out" /\ todo # Bare /\ Quiet
    BY <2>1, Kinds DEF BusInv, Quiet
  <2>5. PortInv'
    BY <2>1, <2>2, <2>3, <2>4, Kinds DEF PortInv, Quiet, DashTypes
  <2>6. DashTypes'
    BY <2>2, <2>3 DEF DashTypes
  <2>7. GuiInv' /\ BusInv' /\ LoopInv'
    BY <2>1, <2>2, <2>4, Kinds DEF GuiInv, BusInv, LoopInv, D!Clients
  <2> QED BY <2>5, <2>6, <2>7
<1>3. CASE D!StreamFails
  <2>1. todo = Starting /\ phase = "open" /\ todo' = <<>> /\ phase' = "idle"
    BY <1>3, StepOf, Rest DEF D!StreamFails
  <2>2. UNCHANGED <<interface, port, slot, loop, busLock, at, hand, expired>>
    BY <1>3 DEF D!StreamFails, D!busVars
  <2>3. at[Gui] = "out" /\ todo # Bare /\ Quiet
    BY <2>1, Kinds DEF BusInv, Quiet
  <2> QED
    BY <2>1, <2>2, <2>3, Kinds
       DEF DashTypes, GuiInv, BusInv, PortInv, LoopInv, Quiet, D!Clients
<1>4. CASE D!StreamList
  <2>1. todo = Starting /\ phase = "list" /\ todo' = <<>> /\ phase' = "idle"
    BY <1>4, StepOf, Rest DEF D!StreamList
  <2>2. UNCHANGED <<port, connected, busLock, at, hand, expired>>
    BY <1>4 DEF D!StreamList, D!busVars
  <2>3. PICK i \in Ifaces : port[i] = "up" /\ interface' = i
    BY <1>4 DEF D!StreamList
  <2>4. PICK l \in Loops : loop[l] = "dead" /\ loop' = [loop EXCEPT ![l] = "test"]
                           /\ slot' = l
    BY <1>4 DEF D!StreamList
  <2>5. at[Gui] = "out" /\ todo # Bare
    BY <2>1, Kinds DEF BusInv
  <2>6. PortInv'
    BY <2>1, <2>2, <2>3, Kinds DEF PortInv, Quiet
  <2>7. LoopInv'
    BY <2>1, <2>2, <2>4, Kinds, Names DEF LoopInv, DashTypes, D!Clients
  <2>8. DashTypes'
    BY <2>2, <2>3, <2>4 DEF DashTypes
  <2>9. GuiInv' /\ BusInv'
    BY <2>1, <2>2, <2>5, Kinds DEF GuiInv, BusInv, D!Clients
  <2> QED BY <2>6, <2>7, <2>8, <2>9
<1> QED BY <1>1, <1>2, <1>3, <1>4

\* A handler works on the bus.
LEMMA WorkStep ==
  ASSUME DashInv, D!GuiWork \/ D!read_diagnostics
  PROVE  DashInv'
<1> USE DEF DashInv
<1>1. UNCHANGED <<interface, port, slot, loop, connected, expired>>
  BY DEF D!GuiWork, D!read_diagnostics
<1>2. CASE D!GuiWork
  <2>1. todo \in Uses /\ phase \in {"go", "bus"}
    BY <1>2, StepOf DEF D!GuiWork
  <2>2. D!Enter(Gui) \/ D!Advances(Gui) \/ D!Leave(Gui) \/ D!Raises(Gui)
    BY <1>2 DEF D!GuiWork
  <2>3. \/ todo' = todo /\ phase' = "bus"
        \/ /\ todo' \in {<<>>, Restarting} /\ at'[Gui] = "out"
           /\ phase' = IF todo' = <<>> THEN "idle" ELSE "go"
    <3>1. CASE D!Leave(Gui) \/ D!Raises(Gui)
      <4>1. at'[Gui] = "out"
        BY <3>1, Names DEF D!Leave, D!Raises, D!LookFails, D!BorrowTimesOut, D!OwnFails,
                           D!Release, DashTypes
      <4>2. (todo' \in {<<>>, Restarting} /\ phase' = IF todo' = <<>> THEN "idle" ELSE "go")
            \/ (todo' = todo /\ phase' = "bus")
        BY <1>2, <2>1, Rest DEF D!GuiWork
      <4> QED BY <4>1, <4>2
    <3>2. CASE ~(D!Leave(Gui) \/ D!Raises(Gui))
      BY <1>2, <3>2 DEF D!GuiWork
    <3> QED BY <3>1, <3>2
  <2>4. todo # Bare /\ todo' # Bare /\ todo # Starting /\ todo' # Starting
    BY <2>1, <2>3, Kinds
  <2>5. DashTypes'
    BY <1>1, <2>2, ClientMoves, Names DEF DashTypes
  <2>6. GuiInv'
    BY <2>1, <2>3, Kinds DEF GuiInv
  <2>7. BusInv'
    BY <1>1, <2>2, <2>3, <2>4, ClientMoves, Names DEF BusInv
  <2>8. PortInv' /\ LoopInv'
    BY <1>1, <2>1, <2>3, <2>4, Kinds DEF PortInv, LoopInv, Quiet
  <2> QED BY <2>5, <2>6, <2>7, <2>8
<1>3. CASE D!read_diagnostics
  <2>1. todo = Bare /\ phase \in {"go", "bus"}
    BY <1>3, StepOf DEF D!read_diagnostics
  <2>2. CASE D!Leave(Gui) /\ D!Proceed
    <3>1. todo' = <<>> /\ phase' = "idle"
      BY <2>1, <2>2, Rest
    <3>2. at'[Gui] = "out"
      BY <2>2, Names DEF D!Leave, D!Release, DashTypes
    <3>3. DashTypes'
      BY <1>1, <2>2, ClientMoves, Names DEF DashTypes
    <3>4. BusInv'
      BY <1>1, <2>2, <3>1, <3>2, ClientMoves, Names DEF BusInv
    <3>5. GuiInv' /\ PortInv' /\ LoopInv'
      BY <1>1, <2>1, <3>1, Kinds DEF GuiInv, PortInv, LoopInv, Quiet
    <3> QED BY <3>3, <3>4, <3>5
  <2>3. CASE phase = "go" /\ D!Proceed /\ UNCHANGED D!busVars
    <3>1. todo' = <<>> /\ phase' = "idle" /\ UNCHANGED <<busLock, at, hand>>
      BY <2>1, <2>3, Rest DEF D!busVars
    <3>2. at[Gui] = "out"
      BY <2>3 DEF BusInv
    <3> QED
      BY <1>1, <2>1, <3>1, <3>2, Kinds
         DEF DashTypes, GuiInv, BusInv, PortInv, LoopInv, Quiet, D!Clients
  <2>4. CASE /\ phase' = "bus" /\ UNCHANGED todo
             /\ at' = [at EXCEPT ![Gui] = "in"] /\ hand' = [hand EXCEPT ![Gui] = "own"]
             /\ UNCHANGED <<busLock, ioLock>>
    <3>1. DashTypes' /\ GuiInv'
      BY <1>1, <2>1, <2>4 DEF DashTypes, GuiInv
    <3>2. BusInv'
      BY <1>1, <2>1, <2>4, Names DEF BusInv, DashTypes
    <3>3. PortInv' /\ LoopInv'
      BY <1>1, <2>1, <2>4, Kinds DEF PortInv, LoopInv, Quiet
    <3> QED BY <3>1, <3>2, <3>3
  <2> QED BY <1>3, <2>1, <2>2, <2>3, <2>4, StepOf DEF D!read_diagnostics
<1> QED BY <1>2, <1>3

\* A loop runs.
LEMMA LoopStep ==
  ASSUME DashInv, NEW l \in Loops, D!LoopStep(l)
  PROVE  DashInv'
<1> USE DEF DashInv
<1>1. /\ UNCHANGED <<interface, port, slot, todo, phase, expired>>
      /\ loop[l] # "dead" /\ \E p \in {"dead", "test", "bus", "tell"} :
                                 loop' = [loop EXCEPT ![l] = p]
  BY DEF D!LoopStep, D!LoopTest, D!LoopPoll, D!PollTell, D!StreamTell, D!Tell,
         D!guiVars, DashTypes
<1>2. \/ UNCHANGED <<busLock, at, hand>>
      \/ D!Enter(l) \/ D!Advances(l) \/ D!Leave(l) \/ D!Raises(l)
  BY DEF D!LoopStep, D!LoopTest, D!LoopPoll, D!PollTell, D!StreamTell, D!Tell, D!busVars
<1>3. l \in D!Clients /\ l # Gui
  BY Names
<1>4. DashTypes'
  BY <1>1, <1>2, <1>3, ClientMoves DEF DashTypes, D!Clients
<1>5. BusInv'
  <2>1. CASE UNCHANGED <<busLock, at, hand>>
    BY <1>1, <2>1 DEF BusInv, D!Clients
  <2>2. CASE D!Enter(l) \/ D!Advances(l) \/ D!Leave(l) \/ D!Raises(l)
    BY <1>1, <1>3, <2>2, ClientMoves, Names DEF BusInv
  <2> QED BY <1>2, <2>1, <2>2
<1>6. LoopInv'
  BY <1>1, Names, Kinds DEF LoopInv, DashTypes, D!Clients
<1>7. GuiInv' /\ PortInv'
  BY <1>1 DEF GuiInv, PortInv, Quiet
<1> QED BY <1>4, <1>5, <1>6, <1>7

\* A long job on Worker.
LEMMA WorkerStep ==
  ASSUME DashInv, D!Begin \/ D!WorkerStep
  PROVE  DashInv'
<1> USE DEF DashInv
<1>1. UNCHANGED <<interface, port, slot, loop, connected, todo, phase, expired>>
  BY DEF D!Begin, D!WorkerStep, D!guiVars
<1>2. D!Enter(Worker) \/ D!Advances(Worker) \/ D!Leave(Worker) \/ D!Raises(Worker)
  BY DEF D!Begin, D!WorkerStep
<1>3. DashTypes'
  BY <1>1, <1>2, Names, ClientMoves DEF DashTypes
<1>4. BusInv'
  BY <1>1, <1>2, Names, ClientMoves DEF BusInv
<1>5. GuiInv' /\ PortInv' /\ LoopInv'
  BY <1>1 DEF GuiInv, PortInv, LoopInv, Quiet
<1> QED BY <1>3, <1>4, <1>5

LEMMA DashStep ==
  ASSUME DashInv, D!Next
  PROVE  DashInv'
<1>1. CASE D!Connect \/ D!Disconnect \/ D!Sweep
  BY <1>1, HandlerStep
     DEF D!Connect, D!Disconnect, D!Sweep, Stops, Stopping, Restarting, Sweeping
<1>2. CASE D!Job
  BY <1>2, HandlerStep DEF D!Job, Using
<1>3. CASE D!OwnPort
  BY <1>3, HandlerStep DEF D!OwnPort, Bare
<1>4. CASE D!GuiStep
  BY <1>4, StopStep, StartStep, WorkStep DEF D!GuiStep
<1>5. CASE D!StepTest \/ D!AutoTune \/ D!WorkerStep
  BY <1>5, WorkerStep DEF D!StepTest, D!AutoTune
<1>6. CASE \E l \in Loops : D!LoopStep(l)
  BY <1>6, LoopStep
<1> QED
  BY <1>1, <1>2, <1>3, <1>4, <1>5, <1>6
     DEF D!Next, D!Torque, D!Scan, D!Home, D!ApplySweep, D!Import, D!RecentreJoint,
         D!Inspect, D!Export, D!Reconfigure, D!Refresh, D!Send, D!Replay, D!Gains,
         D!Restore

LEMMA DashStart ==
  ASSUME D!Idle \/ D!Init
  PROVE  DashInv
<1>1. D!Fresh
  BY DEF D!Idle, D!Init
<1>2. DashTypes
  BY <1>1 DEF D!Fresh, DashTypes
<1>3. GuiInv /\ BusInv
  BY <1>1, Names DEF D!Fresh, GuiInv, BusInv
<1>4. PortInv /\ LoopInv
  BY <1>1, Kinds DEF D!Fresh, PortInv, LoopInv, Quiet
<1> QED BY <1>2, <1>3, <1>4 DEF DashInv

\* A handler that works on the bus never has it taken away; and a sweep has it for
\* itself: no interface is up, no other thread speaks, and unless a join had expired
\* no loop is left and nothing says "connected".
THEOREM WorkbenchBus == Spec => []GuiHasBus
<1>1. Init => DashInv
  BY DashStart DEF Init
<1>2. DashInv /\ [Next]_vars => DashInv'
  <2>1. DashInv /\ UNCHANGED dashVars => DashInv'
    BY DEF DashInv, DashTypes, GuiInv, BusInv, PortInv, LoopInv, Quiet, dashVars, D!Clients
  <2>2. [Next]_vars => D!Next \/ UNCHANGED dashVars
    BY DEF Next, Threads, Run, Joint, Arm, vars
  <2> QED BY <2>1, <2>2, DashStep
<1>3. DashInv => GuiHasBus
  <2> SUFFICES ASSUME DashInv PROVE D!GuiHasBus
    BY DEF GuiHasBus
  <2>1. at[Gui] = "in" => D!Speaks(Gui)
    BY Names DEF DashInv, BusInv, D!Speaks
  <2>2. ASSUME todo = <<"work", "stop", "start">>
        PROVE  /\ \A i \in Ifaces : port[i] # "up"
               /\ D!Speaks(Gui) => \A c \in D!Clients \ {Gui} : ~D!Speaks(c)
               /\ ~expired => ~connected /\ \A l \in Loops : loop[l] = "dead"
    <3>1. todo = Swept /\ Quiet /\ todo # Bare
      BY <2>2, Kinds DEF Swept, Quiet
    <3>2. \A i \in Ifaces : port[i] # "up"
      BY <3>1 DEF DashInv, PortInv
    <3>3. \A c \in D!Clients : D!Speaks(c) => busLock = c
      BY <3>1, <3>2, Names DEF DashInv, BusInv, D!Speaks
    <3>4. ~expired => ~connected /\ \A l \in Loops : loop[l] = "dead"
      BY <3>1, Names DEF DashInv, LoopInv, D!Clients
    <3> QED BY <3>2, <3>3, <3>4, Names
  <2> QED BY <2>1, <2>2 DEF D!GuiHasBus
<1> QED BY <1>1, <1>2, <1>3, PTL DEF Spec

-----------------------------------------------------------------------------
(* The auto-tune run. *)

Trial == [gains : T!Gains, cost : 0 .. T!Unmeasurable]

TuneTypes ==
  /\ step \in {"idle", "read", "pick", "try", "run", "final", "done", "error"}
  /\ part \in {"first", "descend", "verify"}
  /\ eeprom \in T!Gains /\ before \in T!Gains /\ cand \in T!Gains
  /\ best \in Trial /\ trials \in Seq(Trial)
  /\ size \in Nat /\ axis \in Nat \ {0} /\ passes \in Nat

\* Where the run may be in each part, and within its budget.
StageInv ==
  /\ part = "first" => step \notin {"pick", "final", "done"} /\ trials = <<>>
  /\ step \in {"idle", "read"} => part = "first"
  /\ step \in {"final", "done"} => part = "verify"
  /\ Len(trials) <= MaxTrials
  /\ step \in {"try", "run"} => Len(trials) < MaxTrials

Inside(g) == \A a \in 1 .. Len(Axes) : g[a] \in T!Low(a) .. T!High(a)

\* What is on trial, and what is best, is within the window; the best was tried, and
\* in the descent nothing tried was cheaper.
BestInv ==
  /\ step \in {"try", "run"} => Inside(cand)
  /\ part # "first" => best \in T!Tried /\ Inside(best.gains)
  /\ part = "descend" => \A t \in T!Tried : best.cost <= t.cost
  /\ part = "verify" => \A t \in T!Tried : t.cost < best.cost => t.gains = best.gains

\* The first of the passes counted is that of the best trial, the others are those
\* of the last trials, which were of the same gains.
PassInv ==
  /\ part # "verify" => passes = 0
  /\ part = "verify" /\ step \in {"try", "run"} => passes > 0 /\ cand = best.gains
  /\ passes > 0 =>
       /\ best.cost <= Passing
       /\ \A i \in 1 .. Len(trials) : i > Len(trials) - (passes - 1) =>
            trials[i].gains = best.gains /\ trials[i].cost <= Passing

TuneInv ==
  /\ TuneTypes /\ StageInv /\ BestInv /\ PassInv
  /\ step = "done" => eeprom = best.gains /\ lock

LEMMA Numbers ==
  /\ Len(Axes) \in Nat /\ MaxGain \in Nat /\ Found \subseteq T!Gains
  /\ Window \in [1 .. Len(Axes) -> Nat]
  /\ InitialStep \in Nat /\ MinStep \in Nat /\ MaxTrials \in Nat \ {0}
  /\ RepeatTrials \in Nat \ {0} /\ Passing \in Nat /\ Failing \in Nat
  /\ T!Unmeasurable = Failing + 1 /\ Passing < Failing
BY WorkbenchAssumption DEF T!TuningAssumption, T!Unmeasurable

\* A sequence with one more element.
LEMMA Appended ==
  ASSUME NEW S, NEW q \in Seq(S), NEW x \in S
  PROVE  /\ Append(q, x) \in Seq(S) /\ Len(Append(q, x)) = Len(q) + 1
         /\ \A i \in 1 .. Len(q) : Append(q, x)[i] = q[i]
         /\ Append(q, x)[Len(q) + 1] = x
OBVIOUS

\* One axis moved stays within the window.
LEMMA Moved ==
  ASSUME before \in T!Gains, NEW g \in T!Gains, Inside(g),
         NEW a \in 1 .. Len(Axes), NEW d \in Int
  PROVE  T!Stepped(g, a, d) \in T!Gains /\ Inside(T!Stepped(g, a, d))
<1>1. /\ before[a] \in 0 .. MaxGain /\ g[a] \in 0 .. MaxGain /\ Window[a] \in Nat
      /\ MaxGain \in Nat
  BY Numbers DEF T!Gains
<1>2. /\ T!Low(a) \in 0 .. MaxGain /\ T!High(a) \in 0 .. MaxGain
      /\ T!Low(a) <= T!High(a)
  <2>1. T!Low(a) \in 0 .. MaxGain /\ T!Low(a) <= before[a]
    BY <1>1 DEF T!Low
  <2>2. T!High(a) \in 0 .. MaxGain /\ before[a] <= T!High(a)
    BY <1>1 DEF T!High
  <2> QED BY <1>1, <2>1, <2>2
<1>3. \E v \in T!Low(a) .. T!High(a) : T!Stepped(g, a, d) = [g EXCEPT ![a] = v]
  <2>1. (IF g[a] + d < T!Low(a) THEN T!Low(a)
         ELSE IF g[a] + d > T!High(a) THEN T!High(a) ELSE g[a] + d) \in T!Low(a) .. T!High(a)
    BY <1>1, <1>2
  <2> QED BY <2>1 DEF T!Stepped
<1>4. PICK v \in T!Low(a) .. T!High(a) : T!Stepped(g, a, d) = [g EXCEPT ![a] = v]
  BY <1>3
<1>5. v \in 0 .. MaxGain
  BY <1>1, <1>2
<1> QED BY <1>4, <1>5 DEF Inside, T!Gains

\* The gains a run finds are within the window around them.
LEMMA FoundInside ==
  ASSUME NEW g \in T!Gains, before = g
  PROVE  Inside(g)
<1> SUFFICES ASSUME NEW a \in 1 .. Len(Axes) PROVE g[a] \in T!Low(a) .. T!High(a)
  BY DEF Inside
<1>1. g[a] \in 0 .. MaxGain /\ Window[a] \in Nat /\ MaxGain \in Nat
  BY Numbers DEF T!Gains
<1> QED BY <1>1 DEF T!Low, T!High

\* Whatever a write does, gains are gains.
LEMMA Written ==
  ASSUME eeprom \in T!Gains, NEW g \in T!Gains, NEW ok \in BOOLEAN, T!write_gains(g, ok)
  PROVE  eeprom' \in T!Gains /\ (ok => eeprom' = g /\ lock')
<1>1. \A n \in 0 .. Len(Axes) : T!Upto(g, n) \in T!Gains
  BY Numbers DEF T!Upto, T!Gains
<1> QED BY <1>1 DEF T!write_gains

\* The costs of trials can be compared.
LEMMA TrialCosts ==
  ASSUME TuneInv
  PROVE  best.cost \in Int /\ Len(trials) \in Nat /\ \A t \in T!Tried : t.cost \in Int
<1>1. \A t \in Trial : t.cost \in Int
  BY Numbers DEF Trial
<1>2. best \in Trial /\ trials \in Seq(Trial)
  BY DEF TuneInv, TuneTypes
<1>3. Len(trials) \in Nat /\ \A i \in 1 .. Len(trials) : trials[i] \in Trial
  BY <1>2
<1> QED BY <1>1, <1>2, <1>3 DEF T!Tried

\* A trial is scored, whatever its cost: the best remains the best.
LEMMA Scored ==
  ASSUME TuneInv, step \in {"try", "run"}, NEW c \in 0 .. T!Unmeasurable,
         T!Score(c), before' = before, eeprom' \in T!Gains
  PROVE  TuneInv'
<1> DEFINE t == [gains |-> cand, cost |-> c]
           wins == part = "first" \/ (part = "descend" /\ c < best.cost)
<1>1. /\ trials' = Append(trials, t) /\ best' = (IF wins THEN t ELSE best)
      /\ step' = "pick" /\ cand' = cand /\ size' = size
      /\ part' = (IF part = "first" THEN "descend" ELSE part)
      /\ passes' = (IF part # "verify" THEN passes
                    ELSE IF T!ready(c) THEN passes + 1 ELSE 0)
  BY DEF T!Score
<1>2. /\ t \in Trial /\ t.gains = cand /\ t.cost = c
      /\ trials \in Seq(Trial) /\ best \in Trial /\ cand \in T!Gains
  BY DEF TuneInv, TuneTypes, Trial
<1> HIDE DEF t
<1>3. /\ trials' \in Seq(Trial) /\ Len(trials') = Len(trials) + 1
      /\ \A i \in 1 .. Len(trials) : trials'[i] = trials[i]
      /\ trials'[Len(trials) + 1] = t /\ Len(trials) \in Nat
  BY <1>1, <1>2, Appended
<1>4. T!Tried' = T!Tried \cup {t}
  BY <1>3 DEF T!Tried
<1>5. TuneTypes'
  <2>1. axis' \in Nat \ {0}
    BY DEF TuneInv, TuneTypes, T!Score, T!Onward
  <2> QED BY <1>1, <1>2, <1>3, <2>1 DEF TuneInv, TuneTypes, Trial, T!Gains
<1>6. StageInv'
  BY <1>1, <1>3, Numbers DEF TuneInv, StageInv, TuneTypes
<1>7. c \in Int /\ best.cost \in Int /\ \A u \in T!Tried : u.cost \in Int
  BY Numbers, TrialCosts
<1>8. BestInv'
  <2>1. Inside(cand) /\ (part # "first" => best \in T!Tried /\ Inside(best.gains))
    BY DEF TuneInv, BestInv
  <2>2. \A g : Inside(g) => Inside(g)'
    BY DEF Inside, T!Low, T!High
  <2>3. /\ best' = t \/ (best' = best /\ part # "first")
        /\ best' \in T!Tried' /\ Inside(best'.gains)
    BY <1>1, <1>2, <1>4, <2>1
  <2>4. best' \in T!Tried' /\ Inside(best.gains)'
    BY <2>2, <2>3 DEF Inside
  <2>5. part' = "descend" => \A u \in T!Tried' : best'.cost <= u.cost
    <3>1. CASE part = "first"
      <4>1. T!Tried = {}
        BY <3>1 DEF TuneInv, StageInv, T!Tried
      <4> QED BY <1>1, <1>2, <1>4, <1>7, <3>1, <4>1
    <3>2. CASE part = "descend"
      BY <1>1, <1>2, <1>4, <1>7, <3>2 DEF TuneInv, BestInv
    <3> QED BY <1>1, <3>1, <3>2 DEF TuneInv, TuneTypes
  <2>6. part' = "verify" => \A u \in T!Tried' : u.cost < best'.cost => u.gains = best'.gains
    BY <1>1, <1>2, <1>4 DEF TuneInv, BestInv, PassInv
  <2> QED BY <1>1, <2>4, <2>5, <2>6 DEF BestInv
<1>9. PassInv'
  <2>1. CASE part # "verify"
    BY <1>1, <2>1 DEF TuneInv, PassInv
  <2>2. CASE part = "verify" /\ T!ready(c)
    <3>1. /\ passes' = passes + 1 /\ passes \in Nat \ {0} /\ best' = best
          /\ cand = best.gains /\ c <= Passing
      BY <1>1, <2>2 DEF TuneInv, TuneTypes, PassInv, T!ready
    <3>2. \A i \in 1 .. Len(trials') : i > Len(trials') - (passes' - 1) =>
            trials'[i].gains = best'.gains /\ trials'[i].cost <= Passing
      BY <1>2, <1>3, <3>1 DEF TuneInv, PassInv
    <3> QED BY <1>1, <2>2, <3>1, <3>2 DEF TuneInv, PassInv
  <2>3. CASE part = "verify" /\ ~T!ready(c)
    BY <1>1, <2>3 DEF TuneInv, PassInv
  <2> QED BY <2>1, <2>2, <2>3
<1> QED BY <1>1, <1>5, <1>6, <1>8, <1>9 DEF TuneInv

\* A step that leaves the trials, the best of them and the gains in the servo alone.
LEMMA SearchSteps ==
  ASSUME TuneInv, T!SearchStep
  PROVE  TuneInv'
<1> USE DEF TuneInv
<1>1. /\ UNCHANGED <<eeprom, before, best, trials>> /\ step = "pick"
      /\ T!Tried' = T!Tried /\ \A g : Inside(g) => Inside(g)'
  BY DEF T!SearchStep, T!Skip, T!Pick, T!Round, T!Converged, T!Repeat, T!Conclude,
         T!Kept, T!searchVars, T!Tried, Inside, T!Low, T!High
<1>2. CASE T!Skip
  <2>1. axis' \in Nat \ {0} /\ UNCHANGED <<step, part, cand, size, passes>>
    BY <1>2 DEF T!Skip, T!Onward, TuneTypes
  <2> QED BY <1>1, <2>1 DEF TuneTypes, StageInv, BestInv, PassInv
<1>3. CASE T!Pick
  <2>1. /\ part = "descend" /\ Len(trials) < MaxTrials /\ axis \in 1 .. Len(Axes)
        /\ step' = "try" /\ UNCHANGED <<part, size, axis, passes>>
        /\ cand' = T!Stepped(best.gains, axis, IF up THEN size ELSE -size)
    BY <1>3, Numbers DEF T!Pick, T!BudgetLeft, TuneTypes
  <2>2. cand' \in T!Gains /\ Inside(cand')
    BY <2>1, Moved DEF TuneTypes, BestInv, Trial
  <2> QED BY <1>1, <2>1, <2>2 DEF TuneTypes, StageInv, BestInv, PassInv
<1>4. CASE T!Round
  <2>1. /\ size' \in Nat /\ axis' = 1 /\ UNCHANGED <<step, part, cand, passes>>
    BY <1>4, Numbers DEF T!Round, TuneTypes
  <2> QED BY <1>1, <2>1 DEF TuneTypes, StageInv, BestInv, PassInv
<1>5. CASE T!Converged
  <2>1. /\ part = "descend" /\ part' = "verify" /\ UNCHANGED <<step, cand, size, axis>>
        /\ passes' = IF T!ready(best.cost) THEN 1 ELSE 0
    BY <1>5 DEF T!Converged
  <2>2. best.cost \in Int /\ (\A t \in T!Tried : t.cost \in Int) /\ Len(trials) \in Nat
    BY TrialCosts
  <2>3. PassInv'
    BY <1>1, <2>1, <2>2 DEF PassInv, T!ready
  <2>4. TuneTypes' /\ StageInv'
    BY <1>1, <2>1 DEF TuneTypes, StageInv
  <2>5. BestInv'
    BY <1>1, <2>1, <2>2 DEF BestInv
  <2> QED BY <1>1, <2>1, <2>3, <2>4, <2>5
<1>6. CASE T!Repeat
  <2>1. /\ part = "verify" /\ passes > 0 /\ Len(trials) < MaxTrials /\ step' = "try"
        /\ cand' = best.gains /\ UNCHANGED <<part, size, axis, passes>>
    BY <1>6 DEF T!Repeat, T!BudgetLeft
  <2>2. best.gains \in T!Gains
    BY DEF TuneTypes, Trial
  <2> QED BY <1>1, <2>1, <2>2 DEF TuneTypes, StageInv, BestInv, PassInv
<1>7. CASE T!Conclude
  <2>1. part = "verify" /\ step' = "final" /\ UNCHANGED <<part, cand, size, axis, passes>>
    BY <1>7 DEF T!Conclude, T!searchVars
  <2> QED BY <1>1, <2>1 DEF TuneTypes, StageInv, BestInv, PassInv
<1> QED BY <1>2, <1>3, <1>4, <1>5, <1>6, <1>7 DEF T!SearchStep

\* Nothing of the search changes.
LEMMA SearchKept ==
  ASSUME TuneInv, UNCHANGED <<part, best, cand, trials, size, axis, passes, before>>,
         eeprom' \in T!Gains,
         \/ step' = step /\ step # "done"
         \/ step = "idle" /\ step' = "read"
         \/ step \in {"read", "final"} /\ step' = "error"
         \/ step = "try" /\ step' = "run"
         \/ step = "final" /\ step' = "done" /\ eeprom' = best.gains /\ lock'
  PROVE  TuneInv'
<1>1. T!Tried' = T!Tried /\ \A g : Inside(g) => Inside(g)'
  BY DEF T!Tried, Inside, T!Low, T!High
<1>2. TuneTypes' /\ StageInv'
  BY DEF TuneInv, TuneTypes, StageInv
<1>3. BestInv' /\ PassInv'
  BY <1>1 DEF TuneInv, BestInv, PassInv
<1> QED BY <1>2, <1>3 DEF TuneInv

LEMMA TrialSteps ==
  ASSUME TuneInv, T!TrialStep
  PROVE  TuneInv'
<1>1. eeprom \in T!Gains /\ cand \in T!Gains /\ T!Unmeasurable \in 0 .. T!Unmeasurable
  BY Numbers DEF TuneInv, TuneTypes
<1>2. CASE T!TrialStopped \/ T!TrialRaises
  BY <1>1, <1>2, Scored DEF T!TrialStopped, T!TrialRaises
<1>3. CASE T!TrialWrites
  <2>1. CASE T!write_gains(cand, TRUE) /\ step' = "run" /\ UNCHANGED T!searchVars
    <3>1. eeprom' \in T!Gains
      BY <1>1, <2>1, Written
    <3> QED BY <1>3, <2>1, <3>1, SearchKept DEF T!TrialWrites, T!searchVars
  <2>2. CASE T!write_gains(cand, FALSE) /\ T!Score(T!Unmeasurable)
    <3>1. eeprom' \in T!Gains
      BY <1>1, <2>2, Written
    <3> QED BY <1>1, <1>3, <2>2, <3>1, Scored DEF T!TrialWrites
  <2> QED BY <1>3, <2>1, <2>2 DEF T!TrialWrites
<1>4. CASE T!Sample
  BY <1>1, <1>4, SearchKept DEF T!Sample, T!searchVars
<1>5. \A b \in BOOLEAN : T!Costs(b) \subseteq 0 .. T!Unmeasurable
  BY Numbers DEF T!Costs
<1>6. CASE T!Abort \/ T!TrialEnds
  BY <1>1, <1>5, <1>6, Scored DEF T!Abort, T!TrialEnds
<1> QED BY <1>2, <1>3, <1>4, <1>6 DEF T!TrialStep

LEMMA TuneStep ==
  ASSUME TuneInv, T!Next
  PROVE  TuneInv'
<1>1. eeprom \in T!Gains
  BY DEF TuneInv, TuneTypes
<1>2. CASE T!Begin \/ T!NoBus \/ T!BusLost \/ T!Stop
  BY <1>1, <1>2, SearchKept
     DEF T!Begin, T!NoBus, T!BusLost, T!Stop, T!Running, T!Over, T!searchVars
<1>3. CASE T!ReadGains
  <2>1. CASE step' = "error" /\ UNCHANGED <<before, cand>>
    BY <1>1, <1>3, <2>1, SearchKept DEF T!ReadGains
  <2>2. CASE before' = eeprom /\ cand' = eeprom /\ step' = "try"
    <3>1. /\ part = "first" /\ trials = <<>> /\ passes = 0
          /\ UNCHANGED <<part, best, trials, size, axis, passes, eeprom>>
      BY <1>3 DEF T!ReadGains, TuneInv, StageInv, PassInv
    <3>2. Inside(cand)'
      BY <1>1, <2>2, FoundInside, Numbers DEF Inside, T!Low, T!High, T!Gains
    <3>3. TuneTypes' /\ StageInv'
      BY <1>1, <2>2, <3>1, Numbers DEF TuneInv, TuneTypes, StageInv
    <3>4. BestInv' /\ PassInv'
      BY <2>2, <3>1, <3>2 DEF TuneInv, BestInv, PassInv
    <3> QED BY <2>2, <3>3, <3>4 DEF TuneInv
  <2> QED BY <1>3, <2>1, <2>2 DEF T!ReadGains
<1>4. CASE T!Final
  <2>1. best.gains \in T!Gains
    BY DEF TuneInv, TuneTypes, Trial
  <2>2. step = "final" /\ UNCHANGED <<part, best, cand, trials, size, axis, passes, before>>
    BY <1>4 DEF T!Final, T!searchVars
  <2>3. CASE T!write_gains(best.gains, TRUE) /\ step' = "done"
    BY <1>1, <2>1, <2>2, <2>3, Written, SearchKept
  <2>4. CASE T!write_gains(best.gains, FALSE) /\ step' = "error"
    BY <1>1, <2>1, <2>2, <2>4, Written, SearchKept
  <2> QED BY <1>4, <2>3, <2>4 DEF T!Final
<1> QED
  BY <1>2, <1>3, <1>4, SearchSteps, TrialSteps DEF T!Next, T!RunStep

LEMMA TuneStart ==
  ASSUME T!Idle \/ T!Init
  PROVE  TuneInv
<1>1. T!Fresh
  BY DEF T!Idle, T!Init
<1>2. T!NoTrial.gains \in T!Gains /\ T!NoTrial \in Trial
  BY Numbers DEF T!NoTrial, T!Gains, Trial
<1>3. eeprom \in T!Gains
  BY <1>2, Numbers DEF T!Idle, T!Init
<1>4. <<>> \in Seq(Trial) /\ Len(<<>>) = 0
  OBVIOUS
<1>5. TuneTypes /\ StageInv
  BY <1>1, <1>2, <1>3, <1>4, Numbers DEF T!Fresh, TuneTypes, StageInv
<1>6. BestInv /\ PassInv /\ step # "done"
  BY <1>1 DEF T!Fresh, BestInv, PassInv
<1> QED BY <1>5, <1>6 DEF TuneInv

\* A run that ends without an error leaves the servo locked, with gains that were
\* tried, lie in the window, and were beaten by no other; and it is validated only by
\* trials of these gains.
THEOREM WorkbenchGains == Spec => []TunedGains
<1>1. Init => TuneInv
  BY TuneStart DEF Init
<1>2. TuneInv /\ [Next]_vars => TuneInv'
  <2>1. TuneInv /\ UNCHANGED tuneVars => TuneInv'
    BY DEF TuneInv, TuneTypes, StageInv, BestInv, PassInv, T!Tried, Inside, T!Low, T!High,
           tuneVars
  <2>2. [Next]_vars => T!Next \/ UNCHANGED tuneVars
    BY DEF Next, Threads, Run, Joint, Arm, vars
  <2> QED BY <2>1, <2>2, TuneStep
<1>3. TuneInv => TunedGains
  <2> SUFFICES ASSUME TuneInv, step = "done" PROVE T!TunedGains
    BY DEF TunedGains, T!TunedGains
  <2>1. part = "verify"
    BY DEF TuneInv, StageInv
  <2>2. /\ eeprom = best.gains /\ lock /\ best \in T!Tried /\ Len(trials) <= MaxTrials
        /\ \A a \in 1 .. Len(Axes) : best.gains[a] \in T!Low(a) .. T!High(a)
        /\ \A t \in T!Tried : t.cost < best.cost => t.gains = best.gains
    BY <2>1 DEF TuneInv, StageInv, BestInv, Inside
  <2>3. ASSUME passes >= RepeatTrials
        PROVE  /\ \A i \in 1 .. Len(trials) : i > Len(trials) - (RepeatTrials - 1) =>
                    trials[i].gains = best.gains /\ trials[i].cost <= Passing
               /\ best.cost <= Passing
    <3>1. passes \in Nat /\ passes > 0 /\ RepeatTrials \in Nat /\ Len(trials) \in Nat
      BY <2>3, Numbers DEF TuneInv, TuneTypes
    <3>2. \A i \in 1 .. Len(trials) :
            i > Len(trials) - (RepeatTrials - 1) => i > Len(trials) - (passes - 1)
      BY <2>3, <3>1
    <3> QED BY <3>1, <3>2 DEF TuneInv, PassInv
  <2> QED BY <2>2, <2>3 DEF T!TunedGains, T!validated
<1> QED BY <1>1, <1>2, <1>3, PTL DEF Spec

-----------------------------------------------------------------------------
(* The recording run. *)

Sample == [seq : Nat, at : Int, hot : BOOLEAN]
Commands == {{}} \cup {{q} : q \in Int}
Aims == [from : Int, to : Int]

ArmTypes ==
  /\ turn \in {"idle", "approach", "settle", "send", "queue", "check", "hold", "halt",
               "keep", "collect", "leave", "logged", "end"}
  /\ tick \in {"read", "publish", "take", "send"}
  /\ k \in Nat /\ seq \in Nat /\ goal \in Int /\ arm \in Int /\ seen \in Sample
  /\ queued \in Commands /\ sending \in Commands
  /\ buffer \in Seq(Sample) /\ log \in Seq(Sample) /\ fed \in Nat /\ dropped \in Nat
  /\ spot \in Sample /\ cmd \in Aims
  /\ held \subseteq [from : Int, to : Int, tick : Nat]

\* Where the run is in the plan, and the bus thread in its tick.
PlanInv ==
  /\ turn \in {"send", "queue", "check", "hold", "halt", "keep"} => k \in 1 .. Len(Plan)
  /\ tick # "send" => sending = {}
  /\ ~tap => queued = {} /\ sending = {}

\* Where the hold is on its way to the servos; it leads toward where the arm stays.
Place(h) == E!Waiting(h) \/ E!Leaving(h) \/ E!Told(h)
Stays(c) == IF tap THEN c.to \in E!Toward(c.from, E!Clip(spot.at, Lowest, Highest))
                   ELSE c.to = spot.at

\* Nothing is commanded after the hold, which is made from what was logged or later.
HeldInv ==
  /\ held # {} => turn \in {"collect", "leave", "logged", "end"}
  /\ \A h \in held : Place(h) /\ Stays(h)
  /\ turn = "keep" => Stays(cmd)
  /\ turn \in {"hold", "halt", "keep"} => log # <<>>
  /\ (turn \in {"halt", "keep"} \/ (turn = "collect" /\ held # {})) /\ tap =>
       log # <<>> /\ log[Len(log)].seq <= spot.seq

Rising(q) == \A i, j \in 1 .. Len(q) : i < j => q[i].seq < q[j].seq
Older(s) == s.seq <= seen.seq /\ (tick = "publish" => s.seq < seen.seq)

\* What was drained comes before what is still in the stream, and that before the
\* sample to be published next; and the samples add up.
LogInv ==
  tap =>
    /\ seen.seq <= seq
    /\ Rising(log) /\ Rising(buffer)
    /\ \A i \in 1 .. Len(log), j \in 1 .. Len(buffer) : log[i].seq < buffer[j].seq
    /\ \A i \in 1 .. Len(log) : Older(log[i])
    /\ \A j \in 1 .. Len(buffer) : Older(buffer[j])
    /\ turn \notin {"logged", "end"} => Len(log) + Len(buffer) + dropped = fed

ArmInv == ArmTypes /\ PlanInv /\ HeldInv /\ LogInv

LEMMA Joints ==
  /\ Plan \in Seq(Int) /\ Len(Plan) \in Nat /\ Plan # <<>>
  /\ \A i \in 1 .. Len(Plan) : Plan[i] \in Int
  /\ Starts \subseteq Int /\ Lowest \in Int /\ Highest \in Int /\ Lowest <= Highest
  /\ MaxStep \in Nat /\ Maxlen \in Nat \ {0}
BY WorkbenchAssumption DEF E!ExcitationAssumption

\* Two sequences, one after the other.
LEMMA Joined ==
  ASSUME NEW S, NEW q \in Seq(S), NEW r \in Seq(S)
  PROVE  /\ q \o r \in Seq(S) /\ Len(q \o r) = Len(q) + Len(r)
         /\ \A i \in 1 .. Len(q) : (q \o r)[i] = q[i]
         /\ \A i \in Len(q) + 1 .. Len(q) + Len(r) : (q \o r)[i] = r[i - Len(q)]
OBVIOUS

\* A sequence without its first element.
LEMMA Shortened ==
  ASSUME NEW S, NEW q \in Seq(S), q # <<>>
  PROVE  /\ Tail(q) \in Seq(S) /\ Len(q) \in Nat \ {0} /\ Len(Tail(q)) = Len(q) - 1
         /\ \A i \in 1 .. Len(Tail(q)) : Tail(q)[i] = q[i + 1]
OBVIOUS

\* Samples that rise, followed by later samples that rise.
LEMMA RisingJoined ==
  ASSUME NEW q \in Seq(Sample), NEW r \in Seq(Sample), Rising(q), Rising(r),
         \A i \in 1 .. Len(q), j \in 1 .. Len(r) : q[i].seq < r[j].seq
  PROVE  Rising(q \o r)
<1> SUFFICES ASSUME NEW i \in 1 .. Len(q \o r), NEW j \in 1 .. Len(q \o r), i < j
             PROVE  (q \o r)[i].seq < (q \o r)[j].seq
  BY DEF Rising
<1>1. /\ Len(q) \in Nat /\ Len(r) \in Nat /\ Len(q \o r) = Len(q) + Len(r)
      /\ \A n \in 1 .. Len(q) : (q \o r)[n] = q[n]
      /\ \A n \in Len(q) + 1 .. Len(q) + Len(r) : (q \o r)[n] = r[n - Len(q)]
  BY Joined
<1>2. CASE j <= Len(q)
  BY <1>1, <1>2 DEF Rising
<1>3. CASE i <= Len(q) /\ j > Len(q)
  <2>1. i \in 1 .. Len(q) /\ j - Len(q) \in 1 .. Len(r) /\ j \in Len(q) + 1 .. Len(q) + Len(r)
    BY <1>1, <1>3
  <2> QED BY <1>1, <2>1
<1>4. CASE i > Len(q)
  <2>1. /\ i - Len(q) \in 1 .. Len(r) /\ j - Len(q) \in 1 .. Len(r) /\ i - Len(q) < j - Len(q)
        /\ i \in Len(q) + 1 .. Len(q) + Len(r) /\ j \in Len(q) + 1 .. Len(q) + Len(r)
    BY <1>1, <1>4
  <2>2. r[i - Len(q)].seq < r[j - Len(q)].seq
    BY <2>1 DEF Rising
  <2> QED BY <1>1, <2>1, <2>2
<1> QED BY <1>1, <1>2, <1>3, <1>4

\* Samples that rise, followed by one that is later.
LEMMA RisingAppended ==
  ASSUME NEW q \in Seq(Sample), NEW s \in Sample, Rising(q),
         \A i \in 1 .. Len(q) : q[i].seq < s.seq
  PROVE  Rising(Append(q, s))
<1>1. /\ Len(q) \in Nat /\ Len(Append(q, s)) = Len(q) + 1
      /\ \A i \in 1 .. Len(q) : Append(q, s)[i] = q[i]
      /\ Append(q, s)[Len(q) + 1] = s
  BY Appended
<1> SUFFICES ASSUME NEW i \in 1 .. Len(q) + 1, NEW j \in 1 .. Len(q) + 1, i < j
             PROVE  Append(q, s)[i].seq < Append(q, s)[j].seq
  BY <1>1 DEF Rising
<1>2. i \in 1 .. Len(q)
  BY <1>1
<1> QED BY <1>1, <1>2 DEF Rising

\* What is drained with what is in the stream: all of it rises, and none is newer than
\* the last read.
LEMMA Drained ==
  ASSUME ArmInv, tap
  PROVE  /\ log \o buffer \in Seq(Sample) /\ Rising(log \o buffer)
         /\ \A i \in 1 .. Len(log \o buffer) : Older((log \o buffer)[i])
         /\ Len(log \o buffer) = Len(log) + Len(buffer)
<1>1. log \in Seq(Sample) /\ buffer \in Seq(Sample) /\ Len(log) \in Nat /\ Len(buffer) \in Nat
  BY DEF ArmInv, ArmTypes
<1>2. Rising(log \o buffer)
  BY <1>1, RisingJoined DEF ArmInv, LogInv
<1>3. /\ log \o buffer \in Seq(Sample) /\ Len(log \o buffer) = Len(log) + Len(buffer)
      /\ \A i \in 1 .. Len(log) : (log \o buffer)[i] = log[i]
      /\ \A i \in Len(log) + 1 .. Len(log) + Len(buffer) :
           (log \o buffer)[i] = buffer[i - Len(log)]
  BY <1>1, Joined
<1>4. ASSUME NEW i \in 1 .. Len(log \o buffer)
      PROVE  Older((log \o buffer)[i])
  <2>1. CASE i <= Len(log)
    BY <1>1, <1>3, <2>1 DEF ArmInv, LogInv
  <2>2. CASE i > Len(log)
    <3>1. i \in Len(log) + 1 .. Len(log) + Len(buffer) /\ i - Len(log) \in 1 .. Len(buffer)
      BY <1>1, <1>3, <2>2
    <3> QED BY <1>3, <3>1 DEF ArmInv, LogInv
  <2> QED BY <1>1, <1>3, <2>1, <2>2
<1> QED BY <1>2, <1>3, <1>4

\* The numbers of samples can be compared.
LEMMA Counted ==
  ASSUME ArmInv
  PROVE  /\ seen.seq \in Nat /\ seen.at \in Int
         /\ Len(log) \in Nat /\ \A i \in 1 .. Len(log) : log[i].seq \in Nat
         /\ Len(buffer) \in Nat /\ \A i \in 1 .. Len(buffer) : buffer[i].seq \in Nat
<1>1. \A s \in Sample : s.seq \in Nat /\ s.at \in Int
  BY DEF Sample
<1>2. seen \in Sample /\ log \in Seq(Sample) /\ buffer \in Seq(Sample)
  BY DEF ArmInv, ArmTypes
<1>3. /\ Len(log) \in Nat /\ \A i \in 1 .. Len(log) : log[i] \in Sample
      /\ Len(buffer) \in Nat /\ \A i \in 1 .. Len(buffer) : buffer[i] \in Sample
  BY <1>2
<1> QED BY <1>1, <1>2, <1>3

\* The bus thread reads.
LEMMA ReadStep ==
  ASSUME ArmInv, E!_read_once
  PROVE  ArmInv'
<1> USE DEF ArmInv
<1>1. /\ tap /\ tick = "read" /\ seq' = seq + 1
      /\ UNCHANGED <<tap, turn, k, queued, sending, goal, buffer, log, fed, dropped>>
      /\ UNCHANGED <<spot, cmd, held>>
      /\ arm' \in (goal .. arm) \cup (arm .. goal)
      /\ \/ /\ tick' = "publish"
            /\ \E hot \in {FALSE, arm' # goal} :
                  seen' = [seq |-> seq', at |-> arm', hot |-> hot]
         \/ tick' = "take" /\ seen' = seen
  BY DEF E!_read_once, E!Tick, E!streamVars, E!holdVars
<1>2. arm' \in Int /\ seq' \in Nat
  BY <1>1 DEF ArmTypes
<1>3. seen' \in Sample
  <2>1. \A hot \in {FALSE, arm' # goal} : hot \in BOOLEAN
    OBVIOUS
  <2>2. ASSUME NEW hot \in BOOLEAN
        PROVE  [seq |-> seq', at |-> arm', hot |-> hot] \in Sample
    BY <1>2 DEF Sample
  <2> QED BY <1>1, <2>1, <2>2 DEF ArmTypes
<1>4. ArmTypes' /\ PlanInv'
  BY <1>1, <1>2, <1>3 DEF ArmTypes, PlanInv
<1>5. HeldInv'
  <2>1. ASSUME NEW h \in held, Place(h) PROVE Place(h)'
    <3>1. h.tick \in Nat /\ seq \in Nat
      BY DEF ArmTypes
    <3> QED BY <1>1, <2>1, <3>1 DEF Place, E!Waiting, E!Leaving, E!Told
  <2> QED BY <1>1, <2>1 DEF HeldInv, Stays, E!Toward, E!Clip
<1>6. LogInv'
  <2>1. /\ seq \in Nat /\ seen.seq \in Nat /\ seen.seq <= seq
        /\ \A i \in 1 .. Len(log) : log[i].seq \in Nat
        /\ \A i \in 1 .. Len(buffer) : buffer[i].seq \in Nat
    BY <1>1, Counted DEF ArmTypes, LogInv
  <2>2. (tick' = "publish" /\ seen'.seq = seq + 1) \/ (tick' = "take" /\ seen' = seen)
    BY <1>1
  <2>3. seen'.seq <= seq' /\ \A s : s.seq \in Nat /\ Older(s) => Older(s)'
    BY <1>1, <2>1, <2>2 DEF Older
  <2> QED BY <1>1, <2>1, <2>3 DEF LogInv, Rising
<1> QED BY <1>4, <1>5, <1>6

\* It publishes what it has read.
LEMMA PublishStep ==
  ASSUME ArmInv, E!_publish
  PROVE  ArmInv'
<1> USE DEF ArmInv
<1>1. /\ tap /\ tick = "publish" /\ tick' = "take"
      /\ UNCHANGED <<tap, turn, k, queued, sending, goal, arm, seq, seen, log>>
      /\ UNCHANGED <<spot, cmd, held>>
  BY DEF E!_publish, E!Tick, E!holdVars
<1>2. PlanInv' /\ HeldInv'
  <2>1. ASSUME NEW h \in held, Place(h) PROVE Place(h)'
    BY <1>1, <2>1 DEF Place, E!Waiting, E!Leaving, E!Told
  <2> QED BY <1>1, <2>1 DEF PlanInv, HeldInv, Stays, E!Toward, E!Clip
<1>3. \A s : Older(s) => Older(s)'
  BY <1>1 DEF Older
<1>4. CASE UNCHANGED <<buffer, fed, dropped>>
  BY <1>1, <1>2, <1>3, <1>4 DEF ArmTypes, LogInv, Rising
<1>5. CASE ~UNCHANGED <<buffer, fed, dropped>>
  <2>1. PICK q \in Seq(Sample) :
          /\ buffer' = Append(q, seen) /\ Rising(q)
          /\ \A j \in 1 .. Len(q) : Older(q[j])
          /\ \A i \in 1 .. Len(log), j \in 1 .. Len(q) : log[i].seq < q[j].seq
          /\ fed' = fed + 1 /\ dropped' = dropped + Len(buffer) - Len(q)
          /\ dropped' \in Nat
    <3>1. fed' = fed + 1
      BY <1>5 DEF E!_publish
    <3>2. buffer \in Seq(Sample) /\ Len(buffer) \in Nat /\ dropped \in Nat
      BY DEF ArmTypes
    <3>3. CASE buffer' = Append(buffer, seen) /\ UNCHANGED dropped
      <4>1. dropped' = dropped + Len(buffer) - Len(buffer)
        BY <3>2, <3>3
      <4> QED BY <1>1, <3>1, <3>2, <3>3, <4>1 DEF LogInv
    <3>4. CASE /\ buffer' = Append(Tail(buffer), seen) /\ dropped' = dropped + 1
               /\ ~(Len(buffer) < Maxlen)
      <4>1. buffer # <<>>
        BY <3>4, Joints
      <4>2. /\ Tail(buffer) \in Seq(Sample) /\ Len(Tail(buffer)) = Len(buffer) - 1
            /\ \A i \in 1 .. Len(Tail(buffer)) : Tail(buffer)[i] = buffer[i + 1]
            /\ Len(buffer) \in Nat \ {0}
        BY <3>2, <4>1, Shortened
      <4>3. /\ \A i \in 1 .. Len(Tail(buffer)) : i + 1 \in 1 .. Len(buffer)
            /\ \A i, j \in 1 .. Len(Tail(buffer)) : i < j => i + 1 < j + 1
        BY <4>2
      <4>4. Rising(Tail(buffer)) /\ \A j \in 1 .. Len(Tail(buffer)) : Older(Tail(buffer)[j])
        BY <1>1, <4>2, <4>3 DEF LogInv, Rising
      <4>5. \A i \in 1 .. Len(log), j \in 1 .. Len(Tail(buffer)) :
              log[i].seq < Tail(buffer)[j].seq
        BY <1>1, <4>2, <4>3 DEF LogInv
      <4>6. dropped' = dropped + Len(buffer) - Len(Tail(buffer)) /\ dropped' \in Nat
        BY <3>2, <3>4, <4>2
      <4> QED BY <3>1, <3>4, <4>2, <4>4, <4>5, <4>6
    <3> QED BY <1>5, <3>3, <3>4 DEF E!_publish
  <2>2. /\ seen \in Sample /\ buffer' \in Seq(Sample) /\ Len(buffer') = Len(q) + 1
        /\ \A i \in 1 .. Len(q) : buffer'[i] = q[i]
        /\ buffer'[Len(q) + 1] = seen /\ Len(q) \in Nat
    BY <2>1, Appended DEF ArmTypes
  <2>3. \A j \in 1 .. Len(q) : q[j].seq < seen.seq
    BY <1>1, <2>1 DEF Older
  <2>4. Rising(buffer')
    BY <2>1, <2>2, <2>3, RisingAppended
  <2>5. /\ \A i \in 1 .. Len(log) : Older(log[i])'
        /\ \A i \in 1 .. Len(log) : log[i].seq < seen.seq
    BY <1>1, <1>3 DEF LogInv, Older
  <2>6. \A j \in 1 .. Len(buffer') : Older(buffer[j])'
    <3> SUFFICES ASSUME NEW j \in 1 .. Len(buffer') PROVE buffer'[j].seq <= seen.seq
      BY <1>1 DEF Older
    <3>1. CASE j \in 1 .. Len(q)
      BY <2>1, <2>2, <3>1 DEF Older
    <3>2. CASE j = Len(q) + 1
      BY <2>2, <3>2, Counted
    <3> QED BY <2>2, <3>1, <3>2
  <2>7. \A i \in 1 .. Len(log), j \in 1 .. Len(buffer') : log[i].seq < buffer'[j].seq
    BY <2>1, <2>2, <2>5
  <2>8. Len(log) + Len(buffer') + dropped' = fed' \/ turn \in {"logged", "end"}
    <3>1. Len(log) \in Nat /\ Len(buffer) \in Nat /\ dropped \in Nat /\ fed \in Nat
      BY DEF ArmTypes
    <3>2. Len(log) + Len(buffer) + dropped = fed \/ turn \in {"logged", "end"}
      BY <1>1 DEF LogInv
    <3>3. /\ Len(q) \in Nat /\ Len(buffer') = Len(q) + 1
          /\ dropped' = dropped + Len(buffer) - Len(q) /\ fed' = fed + 1
      BY <2>1, <2>2
    <3> QED BY ONLY <3>1, <3>2, <3>3
  <2>9. LogInv'
    BY <1>1, <2>4, <2>5, <2>6, <2>7, <2>8 DEF LogInv, Rising
  <2>10. ArmTypes'
    BY <1>1, <2>1, <2>2 DEF ArmTypes
  <2> QED BY <1>2, <2>9, <2>10
<1> QED BY <1>4, <1>5

\* It takes what is queued, and sends it.
LEMMA SendStep ==
  ASSUME ArmInv, E!_write_if_pending \/ E!Send
  PROVE  ArmInv'
<1> USE DEF ArmInv
<1>1. /\ tap /\ tick' \in {"send", "read"} /\ queued' \in Commands /\ sending' \in Commands
      /\ goal' \in Int /\ (tick' = "read" => sending' = {}) /\ tick # "publish"
      /\ UNCHANGED <<tap, turn, k, arm, seq, seen, buffer, log, fed, dropped>>
      /\ UNCHANGED <<spot, cmd, held>>
  BY DEF E!_write_if_pending, E!Send, E!Tick, E!streamVars, E!holdVars, ArmTypes, Commands
<1>2. ASSUME NEW h \in held, Place(h) PROVE Place(h)'
  <2>1. CASE E!_write_if_pending
    BY <1>1, <1>2, <2>1
       DEF E!_write_if_pending, E!Tick, Place, E!Waiting, E!Leaving, E!Told, PlanInv
  <2>2. CASE E!Send
    <3>1. \A x : (CHOOSE q \in {x} : TRUE) = x
      OBVIOUS
    <3>2. queued' = queued /\ sending' = {} /\ tick = "send" /\ tick' = "read"
      BY <2>2 DEF E!Send, E!Tick
    <3>3. E!Leaving(h) => goal' = h.to
      BY <2>2, <3>1 DEF E!Send, E!Leaving
    <3>4. E!Told(h) => goal' = goal
      BY <2>2 DEF E!Send, E!Told
    <3> QED BY <1>1, <1>2, <3>2, <3>3, <3>4 DEF Place, E!Waiting, E!Leaving, E!Told
  <2> QED BY <2>1, <2>2
<1>3. ArmTypes' /\ PlanInv'
  BY <1>1 DEF ArmTypes, PlanInv
<1>4. HeldInv'
  BY <1>1, <1>2 DEF HeldInv, Stays, E!Toward, E!Clip
<1>5. LogInv'
  BY <1>1 DEF LogInv, Rising, Older
<1> QED BY <1>3, <1>4, <1>5

\* A target is clamped to a command.
LEMMA Aimed ==
  ASSUME ArmInv, NEW q \in Int
  PROVE  E!Aimed(q) \in Aims
<1>1. seen.at \in Int
  BY Counted
<1>2. E!_apply_safety(q) \in Int
  BY <1>1, Joints DEF E!_apply_safety, E!Clip
<1> QED BY <1>1, <1>2 DEF E!Aimed, Aims

\* A command of the run is posted: what the stream has is left alone.
LEMMA Posted ==
  ASSUME ArmInv, NEW q \in Int, E!Post(q)
  PROVE  /\ queued' \in Commands /\ goal' \in Int /\ arm' \in Int /\ seen' \in Sample
         /\ tap => seen' = seen /\ queued' = {q}
         /\ ~tap => queued' = {} /\ goal' = q
         /\ UNCHANGED <<tick, sending, seq>>
<1>1. seen.at \in Int /\ seen \in Sample /\ ~tap => queued = {}
  BY DEF ArmInv, ArmTypes, Sample, PlanInv
<1>2. CASE tap
  BY <1>2 DEF E!Post, E!Command, ArmInv, ArmTypes, Commands
<1>3. CASE ~tap
  BY <1>3 DEF E!Post, E!Command, ArmInv, ArmTypes, PlanInv, Sample
<1> QED BY <1>2, <1>3

\* A step of the run that leaves the stream and what was logged alone.
LEMMA LogKept ==
  ASSUME LogInv, UNCHANGED <<tap, tick, seq, buffer, log, fed, dropped>>,
         tap => seen' = seen, turn' \in {"logged", "end"} \/ turn \notin {"logged", "end"}
  PROVE  LogInv'
BY DEF LogInv, Rising, Older

\* Commands of the plan, before anything has stopped it.
LEMMA PlanStep ==
  ASSUME ArmInv, E!Approach \/ E!subscribe \/ E!_stream \/ E!Queue
  PROVE  ArmInv'
<1> USE DEF ArmInv
<1>1. /\ held = {} /\ UNCHANGED <<tap, spot, held, buffer, log, fed, dropped>>
      /\ turn' \in {"settle", "send", "queue", "check"} /\ turn \notin {"logged", "end"}
  BY DEF E!Approach, E!subscribe, E!_stream, E!Queue, E!Become, E!streamVars, E!holdVars,
         HeldInv
<1>2. CASE E!Approach \/ E!Queue
  <2>1. PICK q \in Int : E!Post(q)
    <3>1. E!Aimed(Plan[1]).to \in Int
      <4>1. Plan[1] \in Int
        BY Joints
      <4> QED BY <4>1, Aimed DEF Aims
    <3>2. cmd.to \in Int
      BY DEF ArmTypes, Aims
    <3> QED BY <1>2, <3>1, <3>2 DEF E!Approach, E!Queue
  <2>2. /\ queued' \in Commands /\ goal' \in Int /\ arm' \in Int /\ seen' \in Sample
        /\ (tap => seen' = seen) /\ (~tap => queued' = {})
        /\ UNCHANGED <<tick, sending, seq>>
    BY <2>1, Posted
  <2>3. UNCHANGED <<k, cmd>> /\ (turn' # "settle" => k \in 1 .. Len(Plan))
    BY <1>2 DEF E!Approach, E!Queue, E!Become, E!holdVars, PlanInv
  <2>4. ArmTypes' /\ PlanInv'
    BY <1>1, <2>2, <2>3 DEF ArmTypes, PlanInv
  <2>5. HeldInv'
    BY <1>1 DEF HeldInv
  <2>6. LogInv'
    BY <1>1, <2>2, LogKept
  <2> QED BY <2>4, <2>5, <2>6
<1>4. CASE E!_stream
  <2>1. /\ turn' = "queue" /\ cmd' = E!Aimed(Plan[k]) /\ k \in 1 .. Len(Plan)
        /\ UNCHANGED <<k, queued, tick, sending, goal, arm, seq, seen>>
    BY <1>4 DEF E!_stream, E!Become, E!robotVars, PlanInv
  <2>2. cmd' \in Aims
    BY <2>1, Aimed, Joints
  <2>3. ArmTypes' /\ PlanInv'
    BY <1>1, <2>1, <2>2 DEF ArmTypes, PlanInv
  <2>4. HeldInv'
    BY <1>1 DEF HeldInv
  <2>5. LogInv'
    BY <1>1, <2>1, LogKept
  <2> QED BY <2>3, <2>4, <2>5
<1>3. CASE E!subscribe
  <2>1. k' = 1 /\ UNCHANGED <<queued, tick, sending, goal, arm, seq, seen, cmd>>
    BY <1>3 DEF E!subscribe, E!robotVars, E!holdVars
  <2>2. ArmTypes' /\ PlanInv'
    BY <1>1, <2>1, Joints DEF ArmTypes, PlanInv
  <2>3. HeldInv'
    BY <1>1 DEF HeldInv
  <2>4. LogInv'
    BY <1>1, <2>1, LogKept
  <2> QED BY <2>2, <2>3, <2>4
<1> QED BY <1>2, <1>3, <1>4

\* The stream is drained, which changes nothing of what was heard.
LEMMA DrainedKept ==
  ASSUME ArmInv, buffer' = <<>>, log' = IF tap THEN log \o buffer ELSE log,
         UNCHANGED <<tap, tick, seq, seen, fed, dropped>>, turn \notin {"logged", "end"}
  PROVE  log' \in Seq(Sample) /\ buffer' \in Seq(Sample) /\ LogInv'
<1>1. CASE tap
  <2>1. /\ log' \in Seq(Sample) /\ Rising(log)' /\ Len(log') = Len(log) + Len(buffer)
        /\ \A i \in 1 .. Len(log') : Older(log[i])'
    BY <1>1, Drained DEF Rising, Older
  <2>2. buffer' \in Seq(Sample) /\ Len(buffer') = 0 /\ Rising(buffer)'
    BY DEF Rising
  <2>3. /\ seen.seq <= seq
        /\ Len(log) + Len(buffer) + dropped = fed
    BY <1>1 DEF ArmInv, LogInv
  <2>4. Len(log) \in Nat /\ Len(buffer) \in Nat /\ dropped \in Nat
    BY Counted DEF ArmInv, ArmTypes
  <2>5. Len(log') + Len(buffer') + dropped' = fed'
    BY <2>1, <2>2, <2>3, <2>4
  <2> QED BY <2>1, <2>2, <2>3, <2>5 DEF LogInv
<1>2. CASE ~tap
  BY <1>2 DEF ArmInv, ArmTypes, LogInv
<1> QED BY <1>1, <1>2

\* The last sample is looked at.
LEMMA CheckStep ==
  ASSUME ArmInv, E!check
  PROVE  ArmInv'
<1> USE DEF ArmInv
<1>1. /\ turn = "check" /\ buffer' = <<>> /\ k \in 1 .. Len(Plan) /\ held = {}
      /\ log' = (IF tap THEN log \o buffer ELSE Append(log, seen))
      /\ \/ turn' = "hold" /\ k' = k /\ log' # <<>>
         \/ k' = k + 1 /\ turn' = IF k = Len(Plan) THEN "collect" ELSE "send"
      /\ UNCHANGED <<tap, tick, queued, sending, seq, seen, goal, arm, fed, dropped>>
      /\ UNCHANGED <<spot, cmd, held>>
  BY DEF E!check, E!Become, E!robotVars, E!holdVars, PlanInv, HeldInv
<1>2. log' \in Seq(Sample) /\ buffer' \in Seq(Sample) /\ LogInv'
  <2>1. CASE tap
    BY <1>1, <2>1, DrainedKept
  <2>2. CASE ~tap
    <3>1. Append(log, seen) \in Seq(Sample) /\ <<>> \in Seq(Sample)
      BY Appended DEF ArmTypes
    <3> QED BY <1>1, <2>2, <3>1 DEF LogInv
  <2> QED BY <2>1, <2>2
<1>3. k' \in Nat /\ (turn' \in {"send", "hold"} => k' \in 1 .. Len(Plan))
  BY <1>1, Joints
<1>4. ArmTypes' /\ PlanInv'
  BY <1>1, <1>2, <1>3 DEF ArmTypes, PlanInv
<1>5. HeldInv'
  BY <1>1 DEF HeldInv
<1> QED BY <1>2, <1>4, <1>5

\* The place to stay at is read, and clamped.
LEMMA HaltStep ==
  ASSUME ArmInv, E!Measure \/ E!Clamp
  PROVE  ArmInv'
<1> USE DEF ArmInv
<1>1. /\ UNCHANGED <<tap, k, queued, tick, sending, goal, arm, seq, seen>>
      /\ UNCHANGED <<buffer, log, fed, dropped, held>> /\ held = {} /\ log # <<>>
      /\ turn \in {"hold", "halt"} /\ turn' \in {"halt", "keep"}
  BY DEF E!Measure, E!Clamp, E!Become, E!robotVars, E!streamVars, HeldInv
<1>2. seen.at \in Int /\ seen \in Sample /\ spot \in Sample /\ spot.at \in Int
  BY Counted DEF ArmTypes, Sample
<1>3. LogInv'
  BY <1>1, LogKept
<1>4. CASE E!Measure
  <2>1. turn' = "halt" /\ spot' = seen /\ cmd' = cmd
    BY <1>4 DEF E!Measure, E!Become
  <2>2. tap => log[Len(log)].seq <= seen.seq
    <3>1. Len(log) \in 1 .. Len(log)
      BY <1>1 DEF ArmTypes
    <3> QED BY <3>1 DEF LogInv, Older
  <2>3. ArmTypes' /\ PlanInv' /\ HeldInv'
    BY <1>1, <1>2, <2>1, <2>2 DEF ArmTypes, PlanInv, HeldInv
  <2> QED BY <1>3, <2>3
<1>5. CASE E!Clamp
  <2>1. /\ turn = "halt" /\ turn' = "keep" /\ spot' = spot /\ cmd' = E!Aimed(spot.at)
    BY <1>5 DEF E!Clamp, E!Become
  <2>2. cmd' \in Aims
    BY <1>2, <2>1, Aimed
  <2>3. Stays(cmd)'
    <3>1. ASSUME NEW x \in Int, NEW a \in Int, NEW b \in Int, NEW m \in Nat, a <= b
          PROVE  /\ E!Clip(E!Clip(x, a, b), seen.at - m, seen.at + m)
                      \in E!Toward(seen.at, E!Clip(x, a, b))
      <4>1. PICK c \in Int : c = E!Clip(x, a, b)
        BY <3>1 DEF E!Clip
      <4>2. E!Clip(c, seen.at - m, seen.at + m) \in E!Toward(seen.at, c)
        BY <1>2, <3>1 DEF E!Clip, E!Toward
      <4> QED BY <4>1, <4>2
    <3>2. E!_apply_safety(spot.at) \in E!Toward(seen.at, E!Clip(spot.at, Lowest, Highest))
      BY <1>2, <3>1, Joints DEF E!_apply_safety
    <3>3. cmd'.from = seen.at /\ cmd'.to = IF tap THEN E!_apply_safety(spot.at) ELSE spot.at
      BY <2>1 DEF E!Aimed
    <3> QED BY <1>1, <2>1, <3>2, <3>3 DEF Stays, E!Toward, E!Clip
  <2>4. ArmTypes' /\ PlanInv' /\ HeldInv'
    BY <1>1, <2>1, <2>2, <2>3 DEF ArmTypes, PlanInv, HeldInv
  <2> QED BY <1>3, <2>4
<1> QED BY <1>4, <1>5 DEF E!Measure, E!Clamp

\* The hold is queued.
LEMMA HoldStep ==
  ASSUME ArmInv, E!Hold
  PROVE  ArmInv'
<1> USE DEF ArmInv
<1>1. /\ turn = "keep" /\ turn' = "collect" /\ E!Post(cmd.to)
      /\ held' = {[from |-> cmd.from, to |-> cmd.to, tick |-> seq]}
      /\ UNCHANGED <<tap, k, buffer, log, fed, dropped, spot, cmd>>
  BY DEF E!Hold, E!Become, E!streamVars
<1>2. cmd \in Aims /\ cmd.from \in Int /\ cmd.to \in Int /\ seq \in Nat
  BY DEF ArmTypes, Aims
<1>3. /\ queued' \in Commands /\ goal' \in Int /\ arm' \in Int /\ seen' \in Sample
      /\ (tap => seen' = seen /\ queued' = {cmd.to})
      /\ (~tap => queued' = {} /\ goal' = cmd.to)
      /\ UNCHANGED <<tick, sending, seq>>
  BY <1>1, <1>2, Posted
<1>4. held' \subseteq [from : Int, to : Int, tick : Nat]
  BY <1>1, <1>2
<1>5. ArmTypes' /\ PlanInv'
  BY <1>1, <1>2, <1>3, <1>4 DEF ArmTypes, PlanInv
<1>6. ASSUME NEW h \in held' PROVE Place(h)' /\ Stays(h)'
  <2>1. h.from = cmd.from /\ h.to = cmd.to /\ h.tick = seq
    BY <1>1, <1>6
  <2>2. ASSUME tap PROVE Place(h)'
    BY <1>3, <2>1, <2>2 DEF Place, E!Waiting
  <2>3. ASSUME ~tap PROVE Place(h)'
    BY <1>1, <1>3, <2>1, <2>3 DEF Place, E!Told, PlanInv
  <2>4. Stays(cmd)
    BY <1>1 DEF HeldInv
  <2> QED BY <1>1, <2>1, <2>2, <2>3, <2>4 DEF Stays, E!Toward, E!Clip
<1>7. HeldInv'
  BY <1>1, <1>6 DEF HeldInv
<1>8. LogInv'
  BY <1>1, <1>3, LogKept
<1> QED BY <1>5, <1>7, <1>8

\* The run is interrupted, or ends.
LEMMA EndStep ==
  ASSUME ArmInv, E!Interrupt \/ E!Collect \/ E!unsubscribe \/ E!disconnect
  PROVE  ArmInv'
<1> USE DEF ArmInv
<1>1. /\ UNCHANGED <<tap, k, queued, tick, sending, goal, arm, seq, seen, fed, dropped>>
      /\ UNCHANGED <<spot, cmd, held>>
  BY DEF E!Interrupt, E!Collect, E!unsubscribe, E!disconnect, E!Become, E!robotVars,
         E!streamVars, E!holdVars
<1>0. \A h \in held : Place(h)' /\ Stays(h)'
  BY <1>1 DEF HeldInv, Place, Stays, E!Waiting, E!Leaving, E!Told, E!Toward, E!Clip
<1>2. CASE E!Interrupt
  <2>1. /\ turn \in {"send", "queue", "check", "hold", "halt", "keep"}
        /\ turn' = "collect" /\ held = {}
        /\ UNCHANGED <<buffer, log>>
    BY <1>2 DEF E!Interrupt, E!Become, E!streamVars, HeldInv
  <2>2. ArmTypes' /\ PlanInv' /\ HeldInv'
    BY <1>0, <1>1, <2>1 DEF ArmTypes, PlanInv, HeldInv
  <2>3. LogInv'
    BY <1>1, <2>1, LogKept
  <2> QED BY <2>2, <2>3
<1>3. CASE E!Collect
  <2>1. /\ turn = "collect" /\ turn' = "leave" /\ buffer' = <<>>
        /\ log' = IF tap THEN log \o buffer ELSE log
    BY <1>3 DEF E!Collect, E!Become
  <2>2. log' \in Seq(Sample) /\ buffer' \in Seq(Sample) /\ LogInv'
    BY <1>1, <2>1, DrainedKept
  <2>3. ArmTypes' /\ PlanInv' /\ HeldInv'
    BY <1>0, <1>1, <2>1, <2>2 DEF ArmTypes, PlanInv, HeldInv
  <2> QED BY <2>2, <2>3
<1>4. CASE E!unsubscribe
  <2>1. turn = "leave" /\ turn' = "logged" /\ buffer' = <<>> /\ log' = log
    BY <1>4 DEF E!unsubscribe, E!Become
  <2>2. ArmTypes' /\ PlanInv' /\ HeldInv'
    BY <1>0, <1>1, <2>1 DEF ArmTypes, PlanInv, HeldInv
  <2>3. LogInv'
    BY <1>1, <2>1 DEF LogInv, Rising, Older
  <2> QED BY <2>2, <2>3
<1>5. CASE E!disconnect
  <2>1. turn = "logged" /\ turn' = "end" /\ UNCHANGED <<buffer, log>>
    BY <1>5 DEF E!disconnect, E!Become, E!streamVars
  <2>2. ArmTypes' /\ PlanInv' /\ HeldInv'
    BY <1>0, <1>1, <2>1 DEF ArmTypes, PlanInv, HeldInv
  <2>3. LogInv'
    BY <1>1, <2>1, LogKept
  <2> QED BY <2>2, <2>3
<1> QED BY <1>2, <1>3, <1>4, <1>5

LEMMA ArmStep ==
  ASSUME ArmInv, E!Next
  PROVE  ArmInv'
BY ReadStep, PublishStep, SendStep, PlanStep, CheckStep, HaltStep, HoldStep, EndStep
   DEF E!Next, E!Bus, E!Record

LEMMA ArmStart ==
  ASSUME E!Idle \/ E!Init
  PROVE  ArmInv
<1>1. arm \in Int /\ turn \in {"idle", "approach"} /\ E!Fresh
  <2>1. CASE E!Idle
    BY <2>1 DEF E!Idle
  <2>2. CASE E!Init
    BY <2>2, Joints DEF E!Init
  <2> QED BY <2>1, <2>2
<1>2. <<>> \in Seq(Sample) /\ Len(<<>>) = 0
  OBVIOUS
<1>3. seen \in Sample /\ spot \in Sample /\ cmd \in Aims
  BY <1>1 DEF E!Fresh, Sample, Aims
<1>4. ArmTypes /\ PlanInv /\ HeldInv
  BY <1>1, <1>2, <1>3 DEF E!Fresh, ArmTypes, Commands, PlanInv, HeldInv
<1>5. LogInv
  <2>1. seq = 0 /\ seen.seq = 0 /\ log = <<>> /\ buffer = <<>> /\ fed = 0 /\ dropped = 0
    BY <1>1 DEF E!Fresh
  <2>2. Rising(<<>>)
    BY <1>2 DEF Rising
  <2> QED BY <1>2, <2>1, <2>2 DEF LogInv
<1> QED BY <1>4, <1>5 DEF ArmInv

\* When a recording is stopped by what it saw, no command of the plan is sent after the
\* hold, which the bus thread sends in the tick under way or in the next, unless its
\* loop ends before; the hold does not lead beyond where the arm was and where it is
\* to stay; and the log of any run has all samples published while it listened, in their
\* order, but for those counted as lost.
THEOREM WorkbenchRecorded == Spec => []Recorded
<1>1. Init => ArmInv
  BY ArmStart DEF Init
<1>2. ArmInv /\ [Next]_vars => ArmInv'
  <2>1. ASSUME ArmInv, UNCHANGED armVars PROVE ArmInv'
    <3>1. ArmTypes' /\ PlanInv'
      BY <2>1 DEF armVars, ArmInv, ArmTypes, PlanInv
    <3>2. HeldInv'
      BY <2>1 DEF armVars, ArmInv, HeldInv, Place, Stays, E!Waiting, E!Leaving, E!Told
    <3>3. LogInv'
      BY <2>1 DEF armVars, ArmInv, LogInv, Rising, Older
    <3> QED BY <3>1, <3>2, <3>3 DEF ArmInv
  <2>2. [Next]_vars => E!Next \/ UNCHANGED armVars
    BY DEF Next, Threads, Run, Joint, Arm, vars
  <2> QED BY <2>1, <2>2, ArmStep
<1>3. ArmInv => Recorded
  <2> SUFFICES ASSUME ArmInv PROVE E!Recorded
    BY DEF Recorded
  <2>1. \A h \in held : /\ Place(h) /\ Stays(h)
                        /\ turn = "collect" /\ tap => E!Last(log).seq <= spot.seq
    BY DEF ArmInv, HeldInv, E!Last
  <2>2. ASSUME tap, NEW i \in DOMAIN log \ {1}
        PROVE  log[i - 1].seq < log[i].seq
    <3>1. Len(log) \in Nat /\ DOMAIN log = 1 .. Len(log)
      BY DEF ArmInv, ArmTypes
    <3>2. i - 1 \in 1 .. Len(log) /\ i \in 1 .. Len(log) /\ i - 1 < i
      BY <3>1
    <3> QED BY <2>2, <3>2 DEF ArmInv, LogInv, Rising
  <2>3. tap /\ turn \notin {"logged", "end"} => Len(log) + Len(buffer) + dropped = fed
    BY DEF ArmInv, LogInv
  <2> QED BY <2>1, <2>2, <2>3 DEF E!Recorded, Place, Stays
<1> QED BY <1>1, <1>2, <1>3, PTL DEF Spec

-----------------------------------------------------------------------------
(* One joint. *)

JointTypes ==
  /\ tool \in {"recentre", "range", "sweep"}
  /\ stage \in {"idle", "settle", "forward", "back", "measured", "done", "refused"}
  /\ low \in 0 .. Encoder - 1 /\ high \in low .. low + Encoder /\ place \in low .. high
  /\ ofs \in Int /\ anchor \in Int /\ prev \in Int /\ travelled \in Int
  /\ most \in Int /\ least \in Int /\ wanted \in Int
  /\ still \in Nat /\ misses \in 0 .. MaxMisses /\ stalls \in Nat

\* The stalls so far, and what a job starts with.
StallInv ==
  /\ stage = "settle" => /\ ~wheel /\ travelled = 0 /\ still = 0 /\ misses = 0
  /\ stage \in {"settle", "forward"} => stalls = 0
  /\ stage = "back" => stalls <= 1
  /\ stage = "measured" => stalls <= 2

\* How far the joint goes while readings fail.
Missed(n) == n * Stride

\* The joint was anchored at start, and was read at s on its way forward, after start,
\* or back, after top.
From(start) == anchor = R!Reported(start, ofs)

Forward(start, s) ==
  /\ start <= s /\ s <= place /\ place - s <= Missed(misses)
  /\ prev = s % Encoder /\ travelled = s - start /\ most = s - start /\ least = 0
  /\ still > 1 => s = high

Back(start, top, s) ==
  /\ s <= top /\ place <= s /\ s - place <= Missed(misses)
  /\ prev = s % Encoder /\ travelled = s - top /\ least = s - top
  /\ stalls = 1 => top = high /\ most = high - start
  /\ still > 1 => s = low

\* What the displacements add up to, readings failed or not.
AddsInv ==
  tool # "sweep" =>
    /\ stage = "forward" => \E start, s \in low .. high : From(start) /\ Forward(start, s)
    /\ stage = "back" =>
         \E start, top, s \in low .. high : From(start) /\ Back(start, top, s)
    /\ stage = "measured" /\ stalls = 2 =>
         \E start \in low .. high : From(start) /\ most = high - start /\ least = low - high

\* What the extreme readings are, where the travel does not cross the encoder's end.
KeepsInv ==
  tool = "sweep" /\ high < Encoder =>
    /\ stage = "forward" =>
         /\ prev \in low .. place /\ most <= high /\ least = Encoder - 1
         /\ still > 1 => most = high
    /\ stage = "back" =>
         /\ prev \in place .. high /\ least >= low
         /\ still > 1 => least = low
         /\ stalls = 1 => most = high
    /\ stage = "measured" /\ stalls = 2 => most = high /\ least = low

JointInv == JointTypes /\ StallInv /\ AddsInv /\ KeepsInv /\ R!Centred

LEMMA Ticks ==
  /\ Encoder \in Nat /\ Encoder > 1 /\ R!Centre \in Nat /\ Encoder = 2 * R!Centre
  /\ R!Centre >= 1
  /\ Stride \in Nat \ {0} /\ MaxMisses \in Nat
  /\ (MaxMisses + 1) * Stride < R!Centre
  /\ MinTravel \in Nat /\ StallWindow \in Nat /\ StallWindow > 1
  /\ Suspect \in 0 .. Encoder - 1 /\ Offsets \subseteq Int
<1>1. R!RecentreAssumption
  BY WorkbenchAssumption
<1>2. Encoder \in Nat /\ Encoder > 1 /\ Encoder % 2 = 0
  BY <1>1 DEF R!RecentreAssumption
<1>3. R!Centre \in Nat /\ Encoder = 2 * R!Centre /\ R!Centre >= 1
  BY <1>2 DEF R!Centre
<1>4. -(R!Centre - 1) .. R!Centre - 1 \subseteq Int
  OBVIOUS
<1> QED BY <1>1, <1>2, <1>3, <1>4 DEF R!RecentreAssumption

\* Whole turns.
Turns(z) == \E n \in Int : z = n * Encoder

LEMMA TurnsAdd ==
  ASSUME NEW y \in Int, NEW z \in Int, Turns(y), Turns(z)
  PROVE  Turns(y + z) /\ Turns(y - z) /\ Turns(Encoder) /\ Turns(0)
<1>1. PICK m \in Int : y = m * Encoder
  BY DEF Turns
<1>2. PICK n \in Int : z = n * Encoder
  BY DEF Turns
<1>3. y + z = (m + n) * Encoder /\ y - z = (m - n) * Encoder
  BY <1>1, <1>2, Ticks
<1>4. Encoder = 1 * Encoder /\ 0 = 0 * Encoder
  BY Ticks
<1>5. m + n \in Int /\ m - n \in Int
  OBVIOUS
<1> QED BY <1>3, <1>4, <1>5 DEF Turns

\* Whole turns that are less than one are none.
LEMMA NoTurn ==
  ASSUME NEW z \in Int, Turns(z), -Encoder < z, z < Encoder
  PROVE  z = 0
<1>1. PICK n \in Int : z = n * Encoder
  BY DEF Turns
<1>2. n >= 1 => n * Encoder >= Encoder
  BY Ticks
<1>3. n <= -1 => n * Encoder <= -Encoder
  BY Ticks
<1>4. n = 0
  BY <1>1, <1>2, <1>3, Ticks
<1> QED BY <1>1, <1>4, Ticks

\* A place and what the encoder says of it are whole turns apart.
LEMMA Modulo ==
  ASSUME NEW x \in Int
  PROVE  x % Encoder \in 0 .. Encoder - 1 /\ Turns(x - (x % Encoder))
<1>1. x % Encoder \in 0 .. Encoder - 1 /\ x \div Encoder \in Int
  BY Ticks
<1>2. x = (x \div Encoder) * Encoder + (x % Encoder)
  BY Ticks
<1>3. x - (x % Encoder) = (x \div Encoder) * Encoder
  BY <1>1, <1>2, Ticks
<1> QED BY <1>1, <1>3 DEF Turns

\* And nothing else is.
LEMMA ModuloOnly ==
  ASSUME NEW x \in Int, NEW r \in 0 .. Encoder - 1, Turns(x - r)
  PROVE  x % Encoder = r
<1>1. x % Encoder \in 0 .. Encoder - 1 /\ Turns(x - (x % Encoder))
  BY Modulo
<1>2. Turns((x - (x % Encoder)) - (x - r))
  BY <1>1, TurnsAdd, Ticks
<1>3. (x - (x % Encoder)) - (x - r) = r - (x % Encoder)
  BY <1>1, Ticks
<1>4. r - (x % Encoder) = 0
  BY <1>1, <1>2, <1>3, NoTurn, Ticks
<1> QED BY <1>1, <1>4, Ticks

\* Places that are whole turns apart read the same.
LEMMA SameReading ==
  ASSUME NEW x \in Int, NEW y \in Int, Turns(x - y)
  PROVE  x % Encoder = y % Encoder
<1>1. y % Encoder \in 0 .. Encoder - 1 /\ Turns(y - (y % Encoder))
  BY Modulo
<1>2. Turns((x - y) + (y - (y % Encoder)))
  BY <1>1, TurnsAdd, Ticks
<1>3. (x - y) + (y - (y % Encoder)) = x - (y % Encoder)
  BY <1>1, Ticks
<1> QED BY <1>1, <1>2, <1>3, ModuloOnly

\* The difference of two readings is the way between them, if that is less than half
\* a turn.
LEMMA Unwrapped ==
  ASSUME NEW x \in Int, NEW y \in Int, -R!Centre < x - y, x - y < R!Centre
  PROVE  R!_unwrap((x % Encoder) - (y % Encoder)) = x - y
<1> DEFINE a == x % Encoder
           b == y % Encoder
           z == (x - a) - (y - b)
<1>1. a \in 0 .. Encoder - 1 /\ b \in 0 .. Encoder - 1 /\ Turns(z) /\ z \in Int
  BY Modulo, TurnsAdd, Ticks
<1>2. a - b = (x - y) - z
  BY <1>1, Ticks
<1> HIDE DEF a, b, z
<1>3. CASE a - b > R!Centre
  <2>1. Turns(z + Encoder) /\ z + Encoder = 0
    <3>1. Turns(Encoder) /\ Turns(z + Encoder)
      BY <1>1, TurnsAdd, Ticks
    <3> QED BY <1>1, <1>2, <1>3, <3>1, NoTurn, Ticks
  <2> QED BY <1>1, <1>2, <1>3, <2>1, Ticks DEF R!_unwrap, a, b
<1>4. CASE a - b < -R!Centre
  <2>1. Turns(z - Encoder) /\ z - Encoder = 0
    <3>1. Turns(Encoder) /\ Turns(z - Encoder)
      BY <1>1, TurnsAdd, Ticks
    <3> QED BY <1>1, <1>2, <1>4, <3>1, NoTurn, Ticks
  <2> QED BY <1>1, <1>2, <1>4, <2>1, Ticks DEF R!_unwrap, a, b
<1>5. CASE -R!Centre <= a - b /\ a - b <= R!Centre
  <2>1. z = 0
    BY <1>1, <1>2, <1>5, NoTurn, Ticks
  <2> QED BY <1>1, <1>2, <1>5, <2>1, Ticks DEF R!_unwrap, a, b
<1> QED BY <1>1, <1>3, <1>4, <1>5, Ticks

\* The register holds an offset but for whole turns, unless it is half a turn.
LEMMA Folded ==
  ASSUME NEW v \in Int, v % Encoder # R!Centre
  PROVE  R!Encoded(v) \in Int /\ Turns(R!Encoded(v) - v)
<1> DEFINE u == (v + R!Centre) % Encoder
           w == u - R!Centre
<1> v + R!Centre \in Int
  BY Ticks
<1>1. u \in 0 .. Encoder - 1 /\ Turns((v + R!Centre) - u) /\ u \in Int
  BY Modulo, Ticks
<1>2. Turns(u - (v + R!Centre))
  <2>1. Turns(0) /\ Turns(0 - ((v + R!Centre) - u))
    BY <1>1, TurnsAdd, Ticks
  <2> QED BY <1>1, <2>1, Ticks
<1>3. u # 0
  <2> SUFFICES ASSUME u = 0 PROVE FALSE
    OBVIOUS
  <2>1. Turns(Encoder)
    BY <1>1, TurnsAdd, Ticks
  <2>2. Turns(((v + R!Centre) - u) - Encoder)
    BY <1>1, <2>1, TurnsAdd, Ticks
  <2>3. ((v + R!Centre) - u) - Encoder = v - R!Centre /\ R!Centre \in 0 .. Encoder - 1
    BY Ticks
  <2> QED BY <2>2, <2>3, ModuloOnly
<1> HIDE DEF u
<1>4. w \in Int /\ w > -R!Centre /\ w < R!Centre /\ w - v = u - (v + R!Centre)
  BY <1>1, <1>3, Ticks
<1>5. R!Encoded(v) = w
  <2>1. R!Encoded(v) = IF w < 0 THEN -((-w) % R!Centre) ELSE w % R!Centre
    BY DEF R!Encoded, u
  <2>2. \A x \in Int : 0 <= x /\ x < R!Centre => x % R!Centre = x
    BY Ticks
  <2> HIDE DEF w
  <2>3. CASE w < 0
    BY <1>4, <2>1, <2>2, <2>3, Ticks
  <2>4. CASE ~(w < 0)
    BY <1>4, <2>1, <2>2, <2>4, Ticks
  <2> QED BY <2>3, <2>4
<1> QED BY <1>2, <1>4, <1>5

\* What rounding does, and what the register takes.
LEMMA Rounded ==
  ASSUME NEW n \in Int
  PROVE  R!RoundHalf(n) \in Int /\ 2 * R!RoundHalf(n) \in n - 1 .. n + 1
<1> DEFINE f == n \div 2
<1>1. f \in Int /\ n % 2 \in {0, 1} /\ n = 2 * f + (n % 2)
  OBVIOUS
<1>2. R!RoundHalf(n) = IF n % 2 = 0 \/ f % 2 = 0 THEN f ELSE f + 1
  BY DEF R!RoundHalf
<1> HIDE DEF f
<1>3. CASE n % 2 = 0
  BY <1>1, <1>2, <1>3
<1>4. CASE n % 2 = 1
  <2>1. n = 2 * f + 1
    BY <1>1, <1>4
  <2>2. R!RoundHalf(n) \in {f, f + 1}
    BY <1>2
  <2> QED BY <1>1, <2>1, <2>2
<1> QED BY <1>1, <1>3, <1>4

LEMMA Offset ==
  ASSUME NEW v \in Int
  PROVE  R!Encoded(v) \in Int
<1> DEFINE w == ((v + R!Centre) % Encoder) - R!Centre
<1>1. w \in Int
  BY Ticks
<1>2. R!Encoded(v) = IF w < 0 THEN -((-w) % R!Centre) ELSE w % R!Centre
  BY DEF R!Encoded
<1> HIDE DEF w
<1>3. \A x \in Int : x % R!Centre \in Int
  BY Ticks
<1> QED BY <1>1, <1>2, <1>3

\* Readings that fail in a row leave the joint less than half a turn from the last one
\* that did not.
LEMMA Unseen ==
  /\ Missed(0) = 0
  /\ \A n \in 0 .. MaxMisses : /\ Missed(n) \in Int /\ Missed(n) >= 0
                               /\ Missed(n + 1) = Missed(n) + Stride
                               /\ Missed(n) + Stride < R!Centre
<1>1. Missed(0) = 0
  BY Ticks DEF Missed
<1>2. ASSUME NEW n \in 0 .. MaxMisses
      PROVE  /\ Missed(n) \in Int /\ Missed(n) >= 0
             /\ Missed(n + 1) = Missed(n) + Stride
             /\ Missed(n) + Stride < R!Centre
  <2>1. n \in Nat /\ Stride \in Nat /\ MaxMisses - n \in Nat
    BY Ticks
  <2>2. n * Stride \in Nat /\ (n + 1) * Stride = n * Stride + Stride
    BY <2>1
  <2>3. (MaxMisses - n) * Stride \in Nat
    BY <2>1
  <2>4. (MaxMisses + 1) * Stride = (MaxMisses - n) * Stride + n * Stride + Stride
    BY <2>1, Ticks
  <2> QED BY <2>2, <2>3, <2>4, Ticks DEF Missed
<1> QED BY <1>1, <1>2

\* The joint moves towards the stop, by a stride at most, and unless it is there.
LEMMA Moves ==
  ASSUME JointTypes, R!Driven
  PROVE  /\ place' \in low .. high
         /\ stage = "forward" => /\ place <= place' /\ place' - place <= Stride
                                 /\ place' = place => place' = high
         /\ stage = "back" => /\ place' <= place /\ place - place' <= Stride
                              /\ place' = place => place' = low
<1>1. low \in Int /\ high \in Int /\ place \in low .. high /\ Stride \in Nat
  BY Ticks DEF JointTypes
<1>2. PICK d \in 1 .. Stride :
        place' = IF stage = "forward" THEN R!AtMost(place + d, high)
                                      ELSE R!AtLeast(place - d, low)
  BY DEF R!Driven
<1>3. CASE stage = "forward"
  BY <1>1, <1>2, <1>3 DEF R!AtMost
<1>4. CASE stage = "back"
  BY <1>1, <1>2, <1>4 DEF R!AtLeast
<1> QED BY <1>3, <1>4 DEF R!Driven

LEMMA SettleStep ==
  ASSUME JointInv, R!Settle
  PROVE  JointInv'
<1>1. JointTypes /\ StallInv /\ stage = "settle" /\ ~wheel /\ travelled = 0 /\ still = 0
      /\ misses = 0 /\ stalls = 0
  BY DEF JointInv, StallInv, R!Settle
<1>2. place \in Int /\ low \in Int /\ high \in Int /\ place \in low .. high /\ ofs \in Int
  BY <1>1, Ticks DEF JointTypes
<1>3. place % Encoder \in Int /\ R!Reported(place, ofs) \in Int
  BY <1>2, Ticks DEF R!Reported
<1>4. R!Reading = R!Reported(place, ofs)
  BY <1>1 DEF R!Reading
<1>5. JointTypes'
  BY <1>1, <1>3, <1>4, Ticks DEF R!Settle, JointTypes, R!jointVars
<1>6. StallInv'
  BY <1>1 DEF R!Settle, StallInv
<1>7. AddsInv'
  <2> SUFFICES ASSUME tool # "sweep"
               PROVE  \E start, s \in low .. high : From(start)' /\ Forward(start, s)'
    BY DEF R!Settle, R!jointVars, AddsInv
  <2>1. PICK q \in low .. high : q = place
    BY <1>2
  <2>2. From(q)'
    BY <1>4, <1>1, <2>1 DEF R!Settle, From, R!Adds, R!jointVars
  <2>3. Forward(q, q)'
    BY <1>1, <1>2, <2>1, Unseen DEF R!Settle, Forward, R!Adds, R!jointVars
  <2> QED BY <2>2, <2>3
<1>8. KeepsInv'
  <2> SUFFICES ASSUME tool = "sweep", high < Encoder
               PROVE  /\ prev' \in low .. place /\ most' <= high /\ least' = Encoder - 1
                      /\ ~(still' > 1)
    BY DEF R!Settle, KeepsInv, R!jointVars
  <2>1. place % Encoder = place
    BY <1>1, <1>2, Ticks DEF JointTypes
  <2> QED BY <1>1, <1>2, <2>1 DEF R!Settle, R!Adds, JointTypes
<1>9. R!Centred'
  BY DEF R!Settle, R!Centred
<1> QED BY <1>5, <1>6, <1>7, <1>8, <1>9 DEF JointInv

\* A reading adds the way the joint came since the last one.
LEMMA AddsForward ==
  ASSUME JointTypes, R!Poll, tool # "sweep", stage = "forward",
         NEW start \in low .. high, NEW s \in low .. high, Forward(start, s)
  PROVE  \E q \in low .. high : Forward(start, q)'
<1>1. /\ low \in Int /\ high \in Int /\ place \in Int /\ misses \in 0 .. MaxMisses
      /\ most \in Int /\ prev \in Int /\ travelled \in Int /\ still \in Nat
      /\ start \in Int /\ s \in Int /\ place <= high
  BY Ticks DEF JointTypes
<1>2. place' \in low .. high /\ place <= place' /\ place' - place <= Stride
      /\ (place' = place => place' = high)
  BY Moves DEF R!Poll
<1>3. PICK q \in low .. high : q = place'
  BY <1>2
<1>4. /\ start <= s /\ s <= place /\ place - s <= Missed(misses)
      /\ prev = s % Encoder /\ travelled = s - start /\ most = s - start /\ least = 0
      /\ still > 1 => s = high
  BY DEF Forward
<1>5. q \in Int /\ s <= q /\ q - s < R!Centre
  <2>1. Missed(misses) \in Int /\ Missed(misses) + Stride < R!Centre
    BY <1>1, Unseen
  <2>2. R!Centre \in Int /\ Stride \in Int
    BY Ticks
  <2>3. place' \in Int /\ q = place' /\ place' - place <= Stride
        /\ place - s <= Missed(misses) /\ s <= place /\ place <= place'
    BY <1>1, <1>2, <1>3, <1>4
  <2>4. q \in Int /\ s <= q
    BY <1>1, <2>3
  <2>5. PICK m \in Int : m = Missed(misses)
    BY <2>1
  <2>6. PICK c \in Int : c = R!Centre
    BY <2>2
  <2>7. q - place <= Stride /\ place - s <= m /\ m + Stride < c
    BY <2>1, <2>3, <2>5, <2>6
  <2>8. q - s < c
    BY <1>1, <2>2, <2>4, <2>7
  <2> QED BY <2>4, <2>6, <2>8
<1>6. R!_unwrap((q % Encoder) - (s % Encoder)) = q - s
  <2>1. R!Centre \in Int /\ q - s \in Int /\ -R!Centre < q - s
    BY <1>1, <1>5, Ticks
  <2> QED BY <1>1, <1>5, <2>1, Unwrapped
<1> DEFINE t == q - start
<1>7. /\ travelled' = t
      /\ most' = IF R!Magnitude(t) > R!Magnitude(most) THEN t ELSE most
      /\ least' = least
      /\ still' = IF R!Magnitude(t) < MinTravel THEN still
                  ELSE IF q % Encoder = prev /\ still > 0 THEN still + 1 ELSE 1
      /\ prev' = q % Encoder /\ misses' = 0 /\ high' = high /\ low' = low
  <2>1. R!_sweep_one_direction(prev') /\ prev' = q % Encoder /\ misses' = 0
        /\ high' = high /\ low' = low
    BY <1>3 DEF R!Poll, R!Adds
  <2>2. travelled + R!_unwrap(prev' - prev) = t
    BY <1>1, <1>3, <1>4, <1>5, <1>6, <2>1
  <2> HIDE DEF t
  <2> QED BY <2>1, <2>2 DEF R!_sweep_one_direction
<1>8. most' = t
  BY <1>1, <1>4, <1>5, <1>7 DEF R!Magnitude
<1>9. still' > 1 => q = high
  <2> SUFFICES ASSUME still' > 1 PROVE q = high
    OBVIOUS
  <2>1. CASE R!Magnitude(t) < MinTravel
    BY <1>1, <1>2, <1>3, <1>4, <1>5, <1>7, <2>1
  <2>2. CASE q % Encoder = prev
    <3>1. R!_unwrap(0) = 0
      BY Ticks DEF R!_unwrap
    <3>2. (q % Encoder) - (s % Encoder) = 0
      BY <1>1, <1>4, <1>5, <2>2, Ticks
    <3>3. q = s
      BY <1>1, <1>5, <1>6, <3>1, <3>2
    <3> QED BY <1>1, <1>2, <1>3, <1>4, <1>5, <3>3
  <2> QED BY <1>7, <2>1, <2>2
<1>10. Forward(start, q)'
  <2>1. Missed(0) = 0 /\ 0 \in Int
    BY Unseen
  <2>2. start <= q /\ q <= place' /\ place' - q <= Missed(misses')
    BY <1>1, <1>3, <1>4, <1>5, <1>7, <2>1
  <2> QED BY <1>4, <1>7, <1>8, <1>9, <2>2 DEF Forward, Missed
<1> QED BY <1>3, <1>10

LEMMA AddsBack ==
  ASSUME JointTypes, R!Poll, tool # "sweep", stage = "back",
         NEW start \in low .. high, NEW top \in low .. high, NEW s \in low .. high,
         Back(start, top, s)
  PROVE  \E q \in low .. high : Back(start, top, q)'
<1>1. /\ low \in Int /\ high \in Int /\ place \in Int /\ misses \in 0 .. MaxMisses
      /\ least \in Int /\ prev \in Int /\ travelled \in Int /\ still \in Nat
      /\ start \in Int /\ s \in Int /\ top \in Int /\ place >= low
  BY Ticks DEF JointTypes
<1>2. place' \in low .. high /\ place' <= place /\ place - place' <= Stride
      /\ (place' = place => place' = low)
  BY Moves DEF R!Poll
<1>3. PICK q \in low .. high : q = place'
  BY <1>2
<1>4. /\ s <= top /\ place <= s /\ s - place <= Missed(misses)
      /\ prev = s % Encoder /\ travelled = s - top /\ least = s - top
      /\ stalls = 1 => top = high /\ most = high - start
      /\ still > 1 => s = low
  BY DEF Back
<1>5. q \in Int /\ q <= s /\ s - q < R!Centre
  <2>1. Missed(misses) \in Int /\ Missed(misses) + Stride < R!Centre
    BY <1>1, Unseen
  <2>2. R!Centre \in Int /\ Stride \in Int
    BY Ticks
  <2>3. place' \in Int /\ q = place' /\ place - place' <= Stride
        /\ s - place <= Missed(misses) /\ place <= s /\ place' <= place
    BY <1>1, <1>2, <1>3, <1>4
  <2>4. q \in Int /\ q <= s
    BY <1>1, <2>3
  <2>5. PICK m \in Int : m = Missed(misses)
    BY <2>1
  <2>6. PICK c \in Int : c = R!Centre
    BY <2>2
  <2>7. place - q <= Stride /\ s - place <= m /\ m + Stride < c
    BY <2>1, <2>3, <2>5, <2>6
  <2>8. s - q < c
    BY <1>1, <2>2, <2>4, <2>7
  <2> QED BY <2>4, <2>6, <2>8
<1>6. R!_unwrap((q % Encoder) - (s % Encoder)) = q - s
  <2>1. R!Centre \in Int /\ q - s \in Int /\ -R!Centre < q - s
    BY <1>1, <1>5, Ticks
  <2> QED BY <1>1, <1>5, <2>1, Unwrapped
<1> DEFINE t == q - top
<1>7. /\ travelled' = t
      /\ least' = IF R!Magnitude(t) > R!Magnitude(least) THEN t ELSE least
      /\ most' = most
      /\ still' = IF R!Magnitude(t) < MinTravel THEN still
                  ELSE IF q % Encoder = prev /\ still > 0 THEN still + 1 ELSE 1
      /\ prev' = q % Encoder /\ misses' = 0 /\ high' = high /\ low' = low
      /\ stalls' = stalls
  <2>1. R!_sweep_one_direction(prev') /\ prev' = q % Encoder /\ misses' = 0
        /\ high' = high /\ low' = low /\ stalls' = stalls
    BY <1>3 DEF R!Poll, R!Adds
  <2>2. travelled + R!_unwrap(prev' - prev) = t
    BY <1>1, <1>3, <1>4, <1>5, <1>6, <2>1
  <2> HIDE DEF t
  <2> QED BY <2>1, <2>2 DEF R!_sweep_one_direction
<1>8. least' = t
  BY <1>1, <1>4, <1>5, <1>7 DEF R!Magnitude
<1>9. still' > 1 => q = low
  <2> SUFFICES ASSUME still' > 1 PROVE q = low
    OBVIOUS
  <2>1. CASE R!Magnitude(t) < MinTravel
    BY <1>1, <1>2, <1>3, <1>4, <1>5, <1>7, <2>1
  <2>2. CASE q % Encoder = prev
    <3>1. R!_unwrap(0) = 0
      BY Ticks DEF R!_unwrap
    <3>2. (q % Encoder) - (s % Encoder) = 0
      BY <1>1, <1>4, <1>5, <2>2, Ticks
    <3>3. q = s
      BY <1>1, <1>5, <1>6, <3>1, <3>2
    <3> QED BY <1>1, <1>2, <1>3, <1>4, <1>5, <3>3
  <2> QED BY <1>7, <2>1, <2>2
<1>10. Back(start, top, q)'
  <2>1. Missed(0) = 0 /\ 0 \in Int
    BY Unseen
  <2>2. q <= top /\ place' <= q /\ q - place' <= Missed(misses')
    BY <1>1, <1>3, <1>4, <1>5, <1>7, <2>1
  <2> QED BY <1>4, <1>7, <1>8, <1>9, <2>2 DEF Back, Missed
<1> QED BY <1>3, <1>10

\* A reading that is kept is an extreme one.
LEMMA KeepsPoll ==
  ASSUME JointInv, R!Poll, tool = "sweep", high < Encoder
  PROVE  /\ stage = "forward" =>
              /\ prev' \in low .. place' /\ most' <= high /\ least' = Encoder - 1
              /\ still' > 1 => most' = high
         /\ stage = "back" =>
              /\ prev' \in place' .. high /\ least' >= low
              /\ still' > 1 => least' = low
              /\ stalls = 1 => most' = high
<1>1. JointTypes /\ KeepsInv
  BY DEF JointInv
<1>2. /\ low \in Int /\ high \in Int /\ place \in low .. high /\ low >= 0
      /\ most \in Int /\ least \in Int /\ prev \in Int /\ still \in Nat
  BY <1>1, Ticks DEF JointTypes
<1>3. place' \in low .. high /\ place' % Encoder = place'
  BY <1>1, <1>2, Moves, Ticks DEF R!Poll
<1>4. prev' = place' /\ R!run_rom_sweep(place')
  BY <1>3 DEF R!Poll, R!Adds
<1>5. CASE stage = "forward"
  <2>1. /\ prev \in low .. place /\ most <= high /\ least = Encoder - 1
        /\ still > 1 => most = high
    BY <1>1, <1>5 DEF KeepsInv
  <2>2. place <= place' /\ (place' = place => place' = high)
    BY <1>1, <1>5, Moves DEF R!Poll
  <2>3. /\ most' = IF most < place' THEN place' ELSE most
        /\ least' = least
        /\ still' > 1 => still > 1 \/ place' = prev
    BY <1>2, <1>4, <1>5 DEF R!run_rom_sweep, R!AtLeast
  <2>4. still' > 1 => most' = high
    BY <1>2, <1>3, <2>1, <2>2, <2>3
  <2> QED BY <1>2, <1>3, <1>4, <1>5, <2>1, <2>2, <2>3, <2>4
<1>6. CASE stage = "back"
  <2>1. /\ prev \in place .. high /\ least >= low
        /\ still > 1 => least = low
        /\ stalls = 1 => most = high
    BY <1>1, <1>6 DEF KeepsInv
  <2>2. place' <= place /\ (place' = place => place' = low)
    BY <1>1, <1>6, Moves DEF R!Poll
  <2>3. /\ least' = IF least > place' THEN place' ELSE least
        /\ most' = most
        /\ still' > 1 => still > 1 \/ place' = prev
    BY <1>2, <1>4, <1>6 DEF R!run_rom_sweep, R!AtMost
  <2>4. still' > 1 => least' = low
    BY <1>2, <1>3, <2>1, <2>2, <2>3
  <2> QED BY <1>2, <1>3, <1>4, <1>6, <2>1, <2>2, <2>3, <2>4
<1> QED BY <1>5, <1>6

LEMMA PollStep ==
  ASSUME JointInv, R!Poll
  PROVE  JointInv'
<1>1. JointTypes /\ StallInv /\ AddsInv /\ stage \in {"forward", "back"}
  BY DEF JointInv, R!Poll, R!Driven
<1>2. /\ UNCHANGED <<tool, stage, low, high, ofs, wheel, anchor, stalls, wanted>>
      /\ misses' = 0
  BY DEF R!Poll, R!servoVars
<1>3. JointTypes'
  <2>1. place' \in low .. high /\ 0 \in 0 .. MaxMisses /\ low \in Int /\ high \in Int
    BY <1>1, Moves, Ticks DEF R!Poll, JointTypes
  <2>2. place' \in Int /\ prev' = place' % Encoder /\ prev' \in Int
    BY <2>1, Ticks DEF R!Poll
  <2>3. travelled' \in Int /\ most' \in Int /\ least' \in Int /\ still' \in Nat
    <3>1. CASE R!Adds
      <4>1. R!_unwrap(prev' - prev) \in Int
        <5>1. \A d \in Int : R!_unwrap(d) \in Int
          BY Ticks DEF R!_unwrap
        <5>2. prev' - prev \in Int
          BY <1>1, <2>2 DEF JointTypes
        <5> QED BY <5>1, <5>2
      <4>2. R!_sweep_one_direction(prev')
        BY <3>1 DEF R!Poll
      <4> QED BY <1>1, <4>1, <4>2 DEF R!_sweep_one_direction, JointTypes
    <3>2. CASE ~R!Adds
      <4>1. R!run_rom_sweep(prev')
        BY <3>2 DEF R!Poll
      <4> QED BY <1>1, <2>2, <4>1 DEF R!run_rom_sweep, JointTypes, R!AtLeast, R!AtMost
    <3> QED BY <3>1, <3>2
  <2> QED BY <1>1, <1>2, <2>1, <2>2, <2>3 DEF JointTypes
<1>4. StallInv'
  BY <1>1, <1>2 DEF StallInv
<1>5. ASSUME NEW start PROVE From(start)' = From(start)
  BY <1>2 DEF From, R!Reported
<1>6. AddsInv'
  <2>1. CASE tool # "sweep" /\ stage = "forward"
    <3>1. PICK start, s \in low .. high : From(start) /\ Forward(start, s)
      BY <1>1, <2>1 DEF AddsInv
    <3>2. PICK q \in low .. high : Forward(start, q)'
      BY <1>1, <2>1, <3>1, AddsForward
    <3> QED BY <1>2, <1>5, <2>1, <3>1, <3>2 DEF AddsInv
  <2>2. CASE tool # "sweep" /\ stage = "back"
    <3>1. PICK start, top, s \in low .. high : From(start) /\ Back(start, top, s)
      BY <1>1, <2>2 DEF AddsInv
    <3>2. PICK q \in low .. high : Back(start, top, q)'
      BY <1>1, <2>2, <3>1, AddsBack
    <3> QED BY <1>2, <1>5, <2>2, <3>1, <3>2 DEF AddsInv
  <2>3. CASE tool = "sweep"
    BY <1>2, <2>3 DEF AddsInv
  <2> QED BY <1>1, <2>1, <2>2, <2>3
<1>7. KeepsInv'
  BY <1>1, <1>2, KeepsPoll DEF KeepsInv
<1>8. R!Centred'
  BY <1>1, <1>2 DEF R!Centred
<1> QED BY <1>3, <1>4, <1>6, <1>7, <1>8 DEF JointInv

LEMMA MissStep ==
  ASSUME JointInv, R!Miss
  PROVE  JointInv'
<1>1. JointTypes /\ StallInv /\ AddsInv /\ KeepsInv /\ stage \in {"forward", "back"}
  BY DEF JointInv, R!Miss, R!Driven
<1>2. /\ UNCHANGED <<tool, stage, low, high, ofs, wheel, anchor, prev, travelled, most,
                     least, still, stalls, wanted>>
      /\ misses' = misses + 1 /\ misses < MaxMisses
  BY DEF R!Miss, R!servoVars
<1>3. /\ low \in Int /\ high \in Int /\ place \in Int /\ misses \in 0 .. MaxMisses
      /\ MaxMisses \in Nat /\ Stride \in Int
  BY <1>1, Ticks DEF JointTypes
<1>4. /\ place' \in low .. high /\ place' \in Int
      /\ stage = "forward" => place <= place' /\ place' - place <= Stride
      /\ stage = "back" => place' <= place /\ place - place' <= Stride
  BY <1>1, <1>3, Moves DEF R!Miss
<1>5. misses' \in 0 .. MaxMisses
  BY <1>2, <1>3
<1>6. JointTypes' /\ StallInv'
  BY <1>1, <1>2, <1>4, <1>5 DEF JointTypes, StallInv
<1>7. PICK m \in Int : m = Missed(misses)
  BY <1>3, Unseen
<1>8. PICK n \in Int : n = Missed(misses') /\ n = m + Stride
  <2>1. Missed(misses + 1) = m + Stride
    BY <1>3, <1>7, Unseen
  <2> QED BY <1>2, <1>3, <2>1
<1>9. ASSUME NEW start PROVE From(start)' = From(start)
  BY <1>2 DEF From, R!Reported
<1>10. AddsInv'
  <2>1. CASE tool # "sweep" /\ stage = "forward"
    <3>1. PICK start, s \in low .. high : From(start) /\ Forward(start, s)
      BY <1>1, <2>1 DEF AddsInv
    <3>2. start \in Int /\ s \in Int /\ s <= place /\ place - s <= m
      BY <1>3, <1>7, <3>1 DEF Forward
    <3>3. s <= place' /\ place' - s <= n
      <4>1. PICK q \in Int : q = place'
        BY <1>4
      <4>2. /\ place <= q /\ q - place <= Stride /\ s <= place /\ place - s <= m
            /\ n = m + Stride
        BY <1>4, <1>8, <2>1, <3>2, <4>1
      <4>3. /\ q \in Int /\ s \in Int /\ m \in Int /\ n \in Int /\ place \in Int
            /\ Stride \in Int
        BY <1>3, <1>7, <1>8, <3>2, <4>1
      <4>4. s <= q /\ q - s <= n
        BY ONLY <4>3, <4>2
      <4> QED BY <4>1, <4>4
    <3>4. Forward(start, s)'
      BY <1>2, <1>8, <3>1, <3>3 DEF Forward, Missed
    <3> QED BY <1>2, <1>9, <2>1, <3>1, <3>4 DEF AddsInv
  <2>2. CASE tool # "sweep" /\ stage = "back"
    <3>1. PICK start, top, s \in low .. high : From(start) /\ Back(start, top, s)
      BY <1>1, <2>2 DEF AddsInv
    <3>2. top \in Int /\ s \in Int /\ place <= s /\ s - place <= m
      BY <1>3, <1>7, <3>1 DEF Back
    <3>3. place' <= s /\ s - place' <= n
      <4>1. PICK q \in Int : q = place'
        BY <1>4
      <4>2. /\ q <= place /\ place - q <= Stride /\ place <= s /\ s - place <= m
            /\ n = m + Stride
        BY <1>4, <1>8, <2>2, <3>2, <4>1
      <4>3. /\ q \in Int /\ s \in Int /\ m \in Int /\ n \in Int /\ place \in Int
            /\ Stride \in Int
        BY <1>3, <1>7, <1>8, <3>2, <4>1
      <4>4. q <= s /\ s - q <= n
        BY ONLY <4>3, <4>2
      <4> QED BY <4>1, <4>4
    <3>4. Back(start, top, s)'
      BY <1>2, <1>8, <3>1, <3>3 DEF Back, Missed
    <3> QED BY <1>2, <1>9, <2>2, <3>1, <3>4 DEF AddsInv
  <2>3. CASE tool = "sweep"
    BY <1>2, <2>3 DEF AddsInv
  <2> QED BY <1>1, <2>1, <2>2, <2>3
<1>11. KeepsInv'
  <2> SUFFICES ASSUME tool = "sweep", high < Encoder PROVE KeepsInv'
    BY <1>2 DEF KeepsInv
  <2>1. CASE stage = "forward"
    <3>1. prev' \in low .. place'
      BY <1>1, <1>2, <1>3, <1>4, <2>1 DEF KeepsInv
    <3> QED BY <1>1, <1>2, <2>1, <3>1 DEF KeepsInv
  <2>2. CASE stage = "back"
    <3>1. prev' \in place' .. high
      BY <1>1, <1>2, <1>3, <1>4, <2>2 DEF KeepsInv
    <3> QED BY <1>1, <1>2, <2>2, <3>1 DEF KeepsInv
  <2> QED BY <1>1, <2>1, <2>2
<1>12. R!Centred'
  BY <1>1, <1>2 DEF R!Centred
<1> QED BY <1>6, <1>10, <1>11, <1>12 DEF JointInv

\* A direction that ended in a stall ended at the stop.
LEMMA TurnStep ==
  ASSUME JointInv, R!Turn
  PROVE  JointInv'
<1>1. JointTypes /\ StallInv /\ AddsInv /\ KeepsInv /\ stage \in {"forward", "back"}
  BY DEF JointInv, R!Turn
<1>2. /\ UNCHANGED <<tool, low, high, place, ofs, most, least, wanted>>
      /\ stage' = IF stage = "forward" THEN "back" ELSE "measured"
      /\ stalls' = IF still >= StallWindow THEN stalls + 1 ELSE stalls
      /\ prev' = place % Encoder /\ travelled' = 0 /\ still' = 0 /\ misses' = 0
      /\ anchor' = IF tool # "sweep" THEN anchor ELSE prev'
  BY DEF R!Turn, R!jointVars, R!Adds
<1>3. /\ low \in Int /\ high \in Int /\ place \in low .. high /\ place \in Int /\ low >= 0
      /\ prev' \in Int /\ still \in Nat /\ stalls \in Nat /\ 0 \in 0 .. MaxMisses
  BY <1>1, <1>2, Ticks DEF JointTypes
<1>4. JointTypes'
  BY <1>1, <1>2, <1>3 DEF JointTypes
<1>5. StallInv'
  BY <1>1, <1>2, <1>3 DEF StallInv
<1>6. stage = "forward" => stalls = 0
  BY <1>1 DEF StallInv
<1>7. stage = "back" => stalls <= 1
  BY <1>1 DEF StallInv
<1>8. /\ stage = "forward" /\ stalls' = 1 => still > 1
      /\ stage = "back" /\ stalls' = 2 => stalls = 1 /\ still > 1
  BY <1>2, <1>3, <1>6, <1>7, Ticks
<1>9. ASSUME NEW start, tool # "sweep" PROVE From(start)' = From(start)
  BY <1>2, <1>9 DEF From, R!Reported
<1>10. AddsInv'
  <2>1. CASE tool # "sweep" /\ stage = "forward"
    <3>1. PICK start, s \in low .. high : From(start) /\ Forward(start, s)
      BY <1>1, <2>1 DEF AddsInv
    <3>2. PICK q \in low .. high : q = place
      BY <1>3
    <3>3. stalls' = 1 => q = high /\ most = high - start
      BY <1>3, <1>8, <2>1, <3>1, <3>2 DEF Forward
    <3>4. least = 0 /\ q - q = 0
      BY <1>3, <3>1, <3>2 DEF Forward
    <3>5. Back(start, q, q)'
      BY <1>2, <1>3, <3>2, <3>3, <3>4, Unseen DEF Back
    <3> QED BY <1>2, <1>9, <2>1, <3>1, <3>5 DEF AddsInv
  <2>2. CASE tool # "sweep" /\ stage = "back"
    <3> SUFFICES ASSUME stalls' = 2
                 PROVE  \E start \in low .. high : /\ From(start)
                                                   /\ most = high - start /\ least = low - high
      BY <1>2, <1>9, <2>2 DEF AddsInv
    <3>1. PICK start, top, s \in low .. high : From(start) /\ Back(start, top, s)
      BY <1>1, <2>2 DEF AddsInv
    <3>2. s = low /\ top = high /\ most = high - start /\ least = s - top
      BY <1>8, <2>2, <3>1 DEF Back
    <3> QED BY <3>1, <3>2
  <2>3. CASE tool = "sweep"
    BY <1>2, <2>3 DEF AddsInv
  <2> QED BY <1>1, <2>1, <2>2, <2>3
<1>11. KeepsInv'
  <2> SUFFICES ASSUME tool = "sweep", high < Encoder PROVE KeepsInv'
    BY <1>2 DEF KeepsInv
  <2>1. place % Encoder = place
    BY <1>3, Ticks
  <2>2. CASE stage = "forward"
    <3>1. least = Encoder - 1 /\ least >= low /\ (stalls' = 1 => most = high)
      BY <1>1, <1>3, <1>8, <2>2, Ticks DEF KeepsInv, JointTypes
    <3> QED BY <1>2, <1>3, <2>1, <2>2, <3>1 DEF KeepsInv
  <2>3. CASE stage = "back"
    BY <1>1, <1>2, <1>8, <2>3 DEF KeepsInv
  <2> QED BY <1>1, <2>2, <2>3
<1>12. R!Centred'
  BY <1>1, <1>2 DEF R!Centred
<1> QED BY <1>4, <1>5, <1>10, <1>11, <1>12 DEF JointInv

\* The end of a job leaves all but Centred as it was.
LEMMA EndKept ==
  ASSUME JointInv, ofs' \in Int, wanted' \in Int, stage' \in {"done", "refused"},
         UNCHANGED <<tool, low, high, place, wheel, anchor, prev, travelled, most, least,
                     still, misses, stalls>>
  PROVE  JointTypes' /\ StallInv' /\ AddsInv' /\ KeepsInv'
BY DEF JointInv, JointTypes, StallInv, AddsInv, KeepsInv

LEMMA RefuseStep ==
  ASSUME JointInv, R!Refuse \/ R!ApplySkips
  PROVE  JointInv'
<1>1. /\ stage' = "refused"
      /\ UNCHANGED <<tool, low, high, place, wheel, anchor, prev, travelled, most, least,
                     still, misses, stalls, ofs, wanted>>
  BY DEF R!Refuse, R!ApplySkips, R!jointVars, R!servoVars, R!sweepVars
<1>2. ofs' \in Int /\ wanted' \in Int
  BY <1>1 DEF JointInv, JointTypes
<1>3. R!Centred'
  BY <1>1 DEF R!Centred
<1> QED BY <1>1, <1>2, <1>3, EndKept DEF JointInv

\* What the displacements say of the stops, seen from where the joint was anchored.
LEMMA Measured ==
  ASSUME JointInv, stage = "measured", tool # "sweep", stalls = 2
  PROVE  \E start \in low .. high :
           /\ Turns((start - ofs) - anchor) /\ anchor \in 0 .. Encoder - 1
           /\ R!RelMin = low - start /\ R!RelMax = high - start /\ R!Span = high - low
<1>1. PICK start \in low .. high :
        From(start) /\ most = high - start /\ least = low - high
  BY DEF JointInv, AddsInv
<1>2. low \in Int /\ high \in Int /\ ofs \in Int /\ start \in Int /\ anchor \in Int
      /\ low <= start /\ start <= high
  BY <1>1, Ticks DEF JointInv, JointTypes
<1>3. anchor = (start - ofs) % Encoder
  BY <1>1 DEF From, R!Reported
<1>4. Turns((start - ofs) - anchor) /\ anchor \in 0 .. Encoder - 1
  BY <1>2, <1>3, Modulo
<1>5. R!RelMin = low - start
  <2>1. most + least = low - start /\ low - start <= 0
    BY <1>1, <1>2
  <2> QED BY <1>2, <2>1 DEF R!RelMin, R!AtMost
<1>6. R!RelMax = high - start
  BY <1>1, <1>2 DEF R!RelMax, R!AtLeast
<1>7. R!Span = high - low
  BY <1>1, <1>2 DEF R!Span, R!Magnitude
<1> QED BY <1>4, <1>5, <1>6, <1>7

LEMMA MeasureStep ==
  ASSUME JointInv, R!MeasureRange
  PROVE  JointInv'
<1>1. /\ stage = "measured" /\ stage' = "done" /\ tool = "range"
      /\ range' = <<anchor + R!RelMin, anchor + R!RelMax>>
      /\ UNCHANGED <<tool, low, high, place, wheel, anchor, prev, travelled, most, least,
                     still, misses, stalls, ofs, wanted>>
  BY DEF R!MeasureRange, R!jointVars, R!servoVars, R!sweepVars
<1>2. ofs' \in Int /\ wanted' \in Int
  BY <1>1 DEF JointInv, JointTypes
<1>3. R!Centred'
  <2> SUFFICES ASSUME stalls = 2
               PROVE  /\ range'[2] - range'[1] = high - low
                      /\ range'[1] % Encoder = R!Reported(low, ofs)
                      /\ range'[2] % Encoder = R!Reported(high, ofs)
                      /\ anchor \in range'[1] .. range'[2]
    BY <1>1 DEF R!Centred, R!Reported
  <2>1. PICK start \in low .. high :
          /\ Turns((start - ofs) - anchor) /\ anchor \in 0 .. Encoder - 1
          /\ R!RelMin = low - start /\ R!RelMax = high - start
    BY <1>1, Measured
  <2>2. low \in Int /\ high \in Int /\ ofs \in Int /\ start \in Int /\ anchor \in Int
        /\ low <= start /\ start <= high
    BY <2>1, Ticks DEF JointInv, JointTypes
  <2>3. range'[1] = anchor + (low - start) /\ range'[2] = anchor + (high - start)
    BY <1>1, <2>1
  <2>4. Turns((low - ofs) - (anchor + (low - start)))
    <3>1. (low - ofs) - (anchor + (low - start)) = (start - ofs) - anchor
      BY <2>2
    <3> QED BY <2>1, <3>1
  <2>5. Turns((high - ofs) - (anchor + (high - start)))
    <3>1. (high - ofs) - (anchor + (high - start)) = (start - ofs) - anchor
      BY <2>2
    <3> QED BY <2>1, <3>1
  <2>6. (anchor + (low - start)) % Encoder = (low - ofs) % Encoder
    BY <2>2, <2>4, SameReading
  <2>7. (anchor + (high - start)) % Encoder = (high - ofs) % Encoder
    BY <2>2, <2>5, SameReading
  <2>8. (anchor + (high - start)) - (anchor + (low - start)) = high - low
        /\ anchor \in anchor + (low - start) .. anchor + (high - start)
    BY <2>2
  <2> QED BY <2>3, <2>6, <2>7, <2>8 DEF R!Reported
<1> QED BY <1>1, <1>2, <1>3, EndKept DEF JointInv

\* If the travel fits a frame that is whole turns from the one asked for, the servo shows
\* it in that frame.
LEMMA Framed ==
  ASSUME JointTypes, NEW w \in Int, w % Encoder # R!Centre,
         NEW b \in Int, Turns(b - w), 0 <= low - b, high - b <= Encoder - 1,
         NEW x \in low .. high
  PROVE  R!Reported(x, R!Encoded(w)) = x - b
<1>1. low \in Int /\ high \in Int /\ x \in Int /\ low <= x /\ x <= high /\ Encoder \in Int
  BY Ticks DEF JointTypes
<1>2. PICK o \in Int : o = R!Encoded(w) /\ Turns(o - w)
  BY Folded
<1>3. Turns((x - o) - (x - b))
  <2>1. b - w \in Int /\ o - w \in Int /\ (b - w) - (o - w) = (x - o) - (x - b)
    BY <1>1, <1>2
  <2>2. Turns((b - w) - (o - w))
    BY <1>2, <2>1, TurnsAdd
  <2> QED BY <2>1, <2>2
<1>4. x - b \in 0 .. Encoder - 1
  BY <1>1
<1>5. (x - o) % Encoder = x - b
  BY <1>1, <1>2, <1>3, <1>4, ModuloOnly
<1> QED BY <1>2, <1>5 DEF R!Reported

LEMMA RecentreStep ==
  ASSUME JointInv, R!Recentre
  PROVE  JointInv'
<1> DEFINE n == 2 * anchor + R!RelMin + R!RelMax - 2 * R!Centre
           h == R!RoundHalf(n)
           below == R!RoundHalf(2 * R!Centre - R!Span)
           above == R!RoundHalf(2 * R!Centre + R!Span)
<1>1. /\ stage = "measured" /\ stage' = "done" /\ tool = "recentre" /\ R!Span < Encoder - 1
      /\ wanted' = ofs + h /\ ofs' = R!Encoded(wanted')
      /\ limits' = <<R!AtLeast(0, below), R!AtMost(Encoder - 1, above)>>
      /\ UNCHANGED <<tool, low, high, place, wheel, anchor, prev, travelled, most, least,
                     still, misses, stalls>>
  BY DEF R!Recentre, R!jointVars, R!sweepVars
<1>2. JointTypes /\ R!Centre \in Int /\ Encoder \in Int /\ Encoder = 2 * R!Centre
  BY Ticks DEF JointInv
<1>3. R!RelMin \in Int /\ R!RelMax \in Int
  BY <1>2 DEF R!RelMin, R!RelMax, R!AtMost, R!AtLeast, JointTypes
<1>4. n \in Int
  BY <1>2, <1>3 DEF JointTypes
<1> HIDE DEF n
<1>5. h \in Int /\ 2 * h \in n - 1 .. n + 1
  BY <1>4, Rounded
<1> HIDE DEF h, below, above
<1>6. wanted' \in Int /\ ofs' \in Int
  BY <1>1, <1>2, <1>5, Offset DEF JointTypes
<1>7. R!Centred'
  <2> SUFFICES ASSUME stalls = 2, wanted' % Encoder # R!Centre
               PROVE  /\ \A x \in low .. high :
                           R!Reported(x, ofs') = R!Reported(low, ofs') + (x - low)
                      /\ R!Reported(low, ofs') - limits'[1] \in -1 .. 1
                      /\ R!Reported(high, ofs') - limits'[2] \in -1 .. 1
    BY <1>1 DEF R!Centred, R!Reported
  <2>1. PICK start \in low .. high :
          /\ Turns((start - ofs) - anchor)
          /\ R!RelMin = low - start /\ R!RelMax = high - start /\ R!Span = high - low
    BY <1>1, Measured
  <2>2. low \in Int /\ high \in Int /\ ofs \in Int /\ start \in Int /\ anchor \in Int
        /\ low <= start /\ start <= high /\ low <= high
    BY <1>2, <2>1 DEF JointTypes
  <2>3. n = 2 * anchor + (low - start) + (high - start) - Encoder
    BY <1>2, <2>1 DEF n
  <2>4. PICK b \in Int : b = (start - anchor) + h
    BY <1>5, <2>2
  <2>5. 2 * b \in low + high - Encoder - 1 .. low + high - Encoder + 1
    BY <1>2, <1>4, <1>5, <2>2, <2>3, <2>4
  <2>6. high - low <= Encoder - 2
    BY <1>1, <1>2, <2>1, <2>2
  <2>7. 0 <= low - b /\ high - b <= Encoder - 1
    BY <1>2, <2>2, <2>5, <2>6
  <2>8. Turns(b - wanted')
    <3>1. b - wanted' = (start - ofs) - anchor
      BY <1>1, <1>5, <2>2, <2>4
    <3> QED BY <2>1, <3>1
  <2>9. \A x \in low .. high : R!Reported(x, ofs') = x - b
    BY <1>1, <1>2, <1>6, <2>4, <2>7, <2>8, Framed
  <2>10. R!Reported(low, ofs') = low - b /\ R!Reported(high, ofs') = high - b
    BY <2>2, <2>9
  <2>11. \A x \in low .. high :
           R!Reported(x, ofs') = R!Reported(low, ofs') + (x - low)
    BY <2>2, <2>9, <2>10
  <2>12. below \in Int /\ 2 * below \in Encoder - (high - low) - 1 .. Encoder - (high - low) + 1
    <3>1. PICK e \in Int : e = Encoder - (high - low) /\ 2 * R!Centre - R!Span = e
      BY <1>2, <2>1, <2>2
    <3>2. R!RoundHalf(e) \in Int /\ 2 * R!RoundHalf(e) \in e - 1 .. e + 1
      BY Rounded
    <3> QED BY <3>1, <3>2 DEF below
  <2>13. above \in Int /\ 2 * above \in Encoder + (high - low) - 1 .. Encoder + (high - low) + 1
    <3>1. PICK e \in Int : e = Encoder + (high - low) /\ 2 * R!Centre + R!Span = e
      BY <1>2, <2>1, <2>2
    <3>2. R!RoundHalf(e) \in Int /\ 2 * R!RoundHalf(e) \in e - 1 .. e + 1
      BY Rounded
    <3>3. above \in Int /\ 2 * above \in e - 1 .. e + 1
      BY <3>1, <3>2 DEF above
    <3> QED BY <1>2, <2>2, <3>1, <3>3
  <2>14. limits'[1] = below /\ limits'[2] = above
    BY <1>1, <1>2, <2>2, <2>6, <2>12, <2>13 DEF R!AtLeast, R!AtMost
  <2>15. (low - b) - below \in -1 .. 1 /\ (high - b) - above \in -1 .. 1
    BY <1>2, <2>2, <2>5, <2>12, <2>13
  <2> QED BY <2>10, <2>11, <2>14, <2>15
<1> QED BY <1>1, <1>6, <1>7, EndKept DEF JointInv

LEMMA ApplyStep ==
  ASSUME JointInv, R!Apply
  PROVE  JointInv'
<1> DEFINE m == (least + most) \div 2
<1>1. /\ stage = "measured" /\ stage' = "done" /\ tool = "sweep" /\ most - least < Suspect
      /\ wanted' = m - R!Centre /\ ofs' = R!Encoded(wanted')
      /\ limits' = <<R!Clamped(least - wanted'), R!Clamped(most - wanted')>>
      /\ UNCHANGED <<tool, low, high, place, wheel, anchor, prev, travelled, most, least,
                     still, misses, stalls>>
  BY DEF R!Apply, R!jointVars, R!sweepVars
<1>2. /\ JointTypes /\ KeepsInv /\ R!Centre \in Int /\ Encoder \in Int
      /\ Encoder = 2 * R!Centre /\ Suspect \in 0 .. Encoder - 1
  BY Ticks DEF JointInv
<1>3. least \in Int /\ most \in Int /\ least + most \in Int
  BY <1>2 DEF JointTypes
<1>4. m \in Int /\ 2 * m \in least + most - 1 .. least + most
  BY <1>3
<1> HIDE DEF m
<1>5. PICK b \in Int : b = wanted' /\ b = m - R!Centre
  BY <1>1, <1>2, <1>4
<1>6. ofs' \in Int
  BY <1>1, <1>5, Offset
<1>7. R!Centred'
  <2> SUFFICES ASSUME stalls = 2, wanted' % Encoder # R!Centre, high < Encoder
               PROVE  /\ \A x \in low .. high :
                           R!Reported(x, ofs') = R!Reported(low, ofs') + (x - low)
                      /\ R!Reported(low, ofs') - limits'[1] \in -1 .. 1
                      /\ R!Reported(high, ofs') - limits'[2] \in -1 .. 1
    BY <1>1 DEF R!Centred, R!Reported
  <2>1. most = high /\ least = low
    BY <1>1, <1>2 DEF KeepsInv
  <2>2. low \in Int /\ high \in Int /\ low <= high /\ high - low <= Encoder - 2
    BY <1>1, <1>2, <2>1 DEF JointTypes
  <2>3. 0 <= low - b /\ high - b <= Encoder - 1 /\ low - b <= high - b
    BY <1>2, <1>4, <1>5, <2>1, <2>2
  <2>4. Turns(b - wanted')
    <3>1. b - wanted' = 0 /\ Turns(0)
      <4>1. 0 = 0 * Encoder /\ 0 \in Int
        BY <1>2
      <4> QED BY <1>5, <4>1 DEF Turns
    <3> QED BY <3>1
  <2>5. \A x \in low .. high : R!Reported(x, ofs') = x - b
    BY <1>1, <1>2, <1>5, <2>3, <2>4, Framed
  <2>6. R!Reported(low, ofs') = low - b /\ R!Reported(high, ofs') = high - b
    BY <2>2, <2>5
  <2>7. \A x \in low .. high :
          R!Reported(x, ofs') = R!Reported(low, ofs') + (x - low)
    BY <1>5, <2>2, <2>5, <2>6
  <2>8. limits'[1] = low - b /\ limits'[2] = high - b
    BY <1>1, <1>2, <1>5, <2>1, <2>2, <2>3 DEF R!Clamped, R!AtLeast, R!AtMost
  <2> QED BY <1>5, <2>2, <2>6, <2>7, <2>8
<1> QED BY <1>1, <1>5, <1>6, <1>7, EndKept DEF JointInv

LEMMA JointStep ==
  ASSUME JointInv, R!Next
  PROVE  JointInv'
BY SettleStep, PollStep, MissStep, TurnStep, RecentreStep, RefuseStep, MeasureStep,
   ApplyStep
   DEF R!Next, R!Step

LEMMA JointStart ==
  ASSUME R!Idle \/ R!Init
  PROVE  JointInv
<1>1. /\ tool \in {"recentre", "range", "sweep"} /\ stage \in {"idle", "settle"}
      /\ low \in 0 .. Encoder - 1 /\ high \in low .. low + Encoder /\ place \in low .. high
      /\ ofs \in Int /\ R!Fresh
  <2>1. CASE R!Idle
    BY <2>1, Ticks DEF R!Idle
  <2>2. CASE R!Init
    BY <2>2, Ticks DEF R!Init
  <2> QED BY <2>1, <2>2
<1>2. JointTypes
  BY <1>1, Ticks DEF R!Fresh, JointTypes
<1>3. StallInv /\ AddsInv /\ KeepsInv /\ R!Centred
  BY <1>1 DEF R!Fresh, StallInv, AddsInv, KeepsInv, R!Centred
<1> QED BY <1>2, <1>3 DEF JointInv

\* Whatever offset a joint is found with, wherever its travel is and wherever in it the
\* joint begins, and whichever readings fail in between, a travel that was measured from
\* stall to stall is the one there is, and a joint that was moved to its middle reads it
\* without a jump.
THEOREM WorkbenchCentred == Spec => []Centred
<1>1. Init => JointInv
  BY JointStart DEF Init
<1>2. JointInv /\ [Next]_vars => JointInv'
  <2>1. ASSUME JointInv, UNCHANGED jointVars PROVE JointInv'
    BY <2>1 DEF jointVars, JointInv, JointTypes, StallInv, AddsInv, KeepsInv, From, Forward,
                Back, Missed, R!Centred, R!Reported
  <2>2. [Next]_vars => R!Next \/ UNCHANGED jointVars
    BY DEF Next, Threads, Run, Joint, Arm, vars
  <2> QED BY <2>1, <2>2, JointStep
<1>3. JointInv => Centred
  BY DEF JointInv, Centred
<1> QED BY <1>1, <1>2, <1>3, PTL DEF Spec

=============================================================================
