------------------------------- MODULE Dashboard -------------------------------
(***************************************************************************)
(* The threads of the dashboard and the bus they share: bus(), the poll    *)
(* and stream loops and their stop event in dashboard/context.py, and the  *)
(* handlers of the panels that stop the polling, start it again or run a   *)
(* job on the bus.  What a job does with the bus is not modelled here.     *)
(*                                                                         *)
(* Viser runs the handlers on one thread of its own, Gui, as a comment in  *)
(* dashboard/app.py says; a pool of threads would interleave them.  Worker *)
(* is the thread of a step test or of an auto-tune run.                    *)
(***************************************************************************)
EXTENDS Naturals, Sequences, FiniteSets

CONSTANTS
  Gui, Worker,   \* the thread of the handlers, the thread of a long job
  Loops,         \* the threads start_polling() may spawn
  Ifaces,        \* the interfaces _start_stream() may make
  Nobody,        \* no thread, no interface
  MaxOps,        \* bound: handlers that run on Gui
  MaxJobs        \* bound: jobs that run on Worker

Clients == {Gui, Worker} \cup Loops

ThreadsAssumption ==
  /\ Gui # Worker /\ Gui \notin Loops /\ Worker \notin Loops
  /\ Nobody \notin Clients \cup Ifaces
  /\ Clients \cap Ifaces = {} /\ "own" \notin Ifaces
  /\ MaxOps \in Nat /\ MaxJobs \in Nat

VARIABLES
  stream,     \* DashboardContext.use_stream
  interface,  \* _interface, or Nobody
  port,       \* the port of each interface: "new", "up", "closed"
  stop,       \* stop_event
  slot,       \* _poll_thread, or Nobody
  loop,       \* where each spawned thread is: "dead", "test", "bus", "tell"
  connected,  \* state.connected
  busLock,    \* who has _bus_lock
  ioLock,     \* who has the _io_lock of each interface, its own thread aside
  at,         \* where a client is in bus(): "out", "look", "borrow", "own", "in"
  hand,       \* what it has or waits for: Nobody, "own" or an interface
  todo,       \* what is left of the handler on Gui
  phase,      \* where Gui is in the first of it
  ops, jobs,  \* handlers and jobs begun
  expired     \* ghost: a join in stop_polling() gave up

busVars == <<busLock, ioLock, at, hand>>
guiVars == <<todo, phase, ops>>
vars == <<stream, interface, port, stop, slot, loop, connected, busVars,
          guiVars, jobs, expired>>

\* The dashboard is just up: no polling, no job.
Fresh ==
  /\ interface = Nobody
  /\ port = [i \in Ifaces |-> "new"]
  /\ stop = FALSE
  /\ slot = Nobody
  /\ loop = [l \in Loops |-> "dead"]
  /\ connected = FALSE
  /\ busLock = Nobody
  /\ ioLock = [i \in Ifaces |-> Nobody]
  /\ at = [c \in Clients |-> "out"]
  /\ hand = [c \in Clients |-> Nobody]
  /\ todo = <<>> /\ phase = "idle"
  /\ ops = 0 /\ jobs = 0
  /\ expired = FALSE

Idle == stream = FALSE /\ Fresh
Init == stream \in BOOLEAN /\ Fresh

-----------------------------------------------------------------------------
(* bus(): borrow the port of the interface, or open one. *)

\* bus() is entered: is there an interface?
Enter(c) ==
  /\ at[c] = "out"
  /\ at' = [at EXCEPT ![c] = IF interface # Nobody THEN "look" ELSE "own"]
  /\ UNCHANGED <<busLock, ioLock, hand>>

\* The with-block is over, or was never entered: whatever is held is released.
Release(c) ==
  /\ at' = [at EXCEPT ![c] = "out"]
  /\ hand' = [hand EXCEPT ![c] = Nobody]
  /\ busLock' = IF busLock = c THEN Nobody ELSE busLock
  /\ ioLock' = [i \in Ifaces |-> IF ioLock[i] = c THEN Nobody ELSE ioLock[i]]

Lending == interface # Nobody /\ port[interface] = "up"

\* _interface is read once more: it may be None by now, or its port closed.
Look(c) ==
  /\ at[c] = "look"
  /\ Lending
  /\ at' = [at EXCEPT ![c] = "borrow"]
  /\ hand' = [hand EXCEPT ![c] = interface]
  /\ UNCHANGED <<busLock, ioLock>>

LookFails(c) ==
  /\ at[c] = "look"
  /\ ~Lending
  /\ Release(c)

\* lend_bus() gets the lock, of an interface that may have stopped meanwhile.
Borrow(c) ==
  /\ at[c] = "borrow" /\ ioLock[hand[c]] = Nobody
  /\ ioLock' = [ioLock EXCEPT ![hand[c]] = c]
  /\ at' = [at EXCEPT ![c] = "in"]
  /\ UNCHANGED <<busLock, hand>>

\* Another borrower keeps the lock for longer than the two seconds.
BorrowTimesOut(c) ==
  /\ at[c] = "borrow" /\ ioLock[hand[c]] # Nobody
  /\ Release(c)

\* Mutant: the port is opened without _bus_lock.
OwnUnlocked(c) ==
  /\ at[c] = "own"
  /\ at' = [at EXCEPT ![c] = "in"]
  /\ hand' = [hand EXCEPT ![c] = "own"]
  /\ UNCHANGED <<busLock, ioLock>>

\* A port of one's own, under _bus_lock.
Own(c) ==
  /\ at[c] = "own" /\ busLock = Nobody
  /\ busLock' = c
  /\ at' = [at EXCEPT ![c] = "in"]
  /\ hand' = [hand EXCEPT ![c] = "own"]
  /\ UNCHANGED ioLock

\* The port does not open, and _bus_lock is released with the exception.
OwnFails(c) ==
  /\ at[c] = "own" /\ busLock = Nobody
  /\ Release(c)

\* Mutant: a job that fails leaves its lock behind.
LeaveKeeps(c) ==
  /\ at[c] = "in"
  /\ at' = [at EXCEPT ![c] = "out"]
  /\ hand' = [hand EXCEPT ![c] = Nobody]
  /\ busLock' \in {busLock, IF busLock = c THEN Nobody ELSE busLock}
  /\ UNCHANGED ioLock

\* The job is done, or a transaction has raised, as on a closed port.
Leave(c) == at[c] = "in" /\ Release(c)

Raises(c) == LookFails(c) \/ BorrowTimesOut(c) \/ OwnFails(c)
Advances(c) == Look(c) \/ Borrow(c) \/ Own(c)

-----------------------------------------------------------------------------
(* The loops. *)

\* _poll_loop and _stream_loop look at the stop event.  _stream is never None
\* to _stream_loop: it is joined first, and it waits for no lock.
LoopTest(l) ==
  /\ loop[l] = "test"
  /\ loop' = [loop EXCEPT ![l] = IF stop THEN "dead"
                                 ELSE IF stream THEN "tell" ELSE "bus"]
  /\ IF stop \/ stream THEN UNCHANGED busVars ELSE Enter(l)
  /\ UNCHANGED <<stream, interface, port, stop, slot, connected, guiVars, jobs,
                 expired>>

\* One read of all servos by _poll_loop, through bus().
LoopPoll(l) ==
  /\ loop[l] = "bus"
  /\ \/ Advances(l) /\ UNCHANGED <<loop, connected>>
     \/ Leave(l) /\ loop' = [loop EXCEPT ![l] = "tell"] /\ UNCHANGED connected
     \/ Raises(l) /\ loop' = [loop EXCEPT ![l] = "test"] /\ connected' = FALSE
  /\ UNCHANGED <<stream, interface, port, stop, slot, guiVars, jobs, expired>>

Tell(l) ==
  /\ loop[l] = "tell"
  /\ loop' = [loop EXCEPT ![l] = "test"]
  /\ UNCHANGED <<stream, interface, port, stop, slot, busVars, guiVars, jobs,
                 expired>>

\* What _poll_loop read is shown, even when no servo answered; or it failed in
\* the with-block.
PollTell(l) == ~stream /\ connected' \in BOOLEAN /\ Tell(l)

\* To _stream_loop no sample may have come, but what was buffered when the
\* interface stopped is still drained.
StreamTell(l) == stream /\ connected' \in {TRUE, connected} /\ Tell(l)

-----------------------------------------------------------------------------
(* Gui: a handler is a sequence of "stop", "start" and "work". *)

Handler(steps) ==
  /\ todo = <<>> /\ ops < MaxOps
  /\ todo' = steps /\ phase' = "go"
  /\ ops' = ops + 1
  /\ UNCHANGED <<stream, interface, port, stop, slot, loop, connected, busVars,
                 jobs, expired>>

Connect == Handler(<<"stop", "start">>)

Disconnect == Handler(<<"stop">>)

\* A sweep has the polling stopped, and started again whatever happened.
Sweep == Handler(<<"stop", "work", "stop", "start">>)

\* One block on the bus, which raises to the end of the handler.
Job == Handler(<<"work">>)

\* A port is opened past bus(), and past its lock.
OwnPort == Handler(<<"bare">>)

\* panels/monitor.py and panels/setup.py: the registers of a servo, or of all of
\* them for a file; and a plan of new IDs and settings.
Inspect == OwnPort
Export == OwnPort
Reconfigure == OwnPort

\* panels/setup.py: torque of some servos; a scan of the bus; homing to the
\* folded pose; the offsets and limits of a sweep; a configuration file.
Torque == Job
Scan == Job
Home == Job
ApplySweep == Job
Import == Job

\* panels/calibration.py: one joint is measured and re-centred.
RecentreJoint == Job

\* panels/command.py: the positions are read; goals are sent.
Refresh == Job
Send == Job

\* panels/recorder.py: a recorded motion is replayed, however long it takes.
Replay == Job

\* panels/pid.py: gains are read and written; those before a run restored.
Gains == Job
Restore == Job

GuiAt(step, p) == todo # <<>> /\ Head(todo) = step /\ phase = p

Proceed == /\ todo' = Tail(todo)
           /\ phase' = IF Tail(todo) = <<>> THEN "idle" ELSE "go"

StopSet ==
  /\ GuiAt("stop", "go")
  /\ stop' = TRUE
  /\ phase' = "join"
  /\ UNCHANGED <<stream, interface, port, slot, loop, connected, busVars, todo,
                 ops, jobs, expired>>

Alive == slot # Nobody /\ loop[slot] # "dead"

\* The thread is joined for at most three seconds; it outlives them only when
\* it waits for the bus or for servos that do not answer.
StopJoin ==
  /\ GuiAt("stop", "join")
  /\ Alive => loop[slot] = "bus"
  /\ expired' = (expired \/ Alive)
  /\ slot' = Nobody
  /\ phase' = "unlist"
  /\ UNCHANGED <<stream, interface, port, stop, loop, connected, busVars, todo,
                 ops, jobs>>

\* _interface is None before the interface is stopped.
StopUnlist ==
  /\ GuiAt("stop", "unlist")
  /\ interface' = Nobody
  /\ phase' = IF interface = Nobody THEN "tell" ELSE "close"
  /\ UNCHANGED <<stream, port, stop, slot, loop, connected, busVars, todo, ops,
                 jobs, expired>>

\* The interface closes its port within two seconds, a borrower or not.
StopClose ==
  /\ GuiAt("stop", "close")
  /\ port' = [i \in Ifaces |-> IF port[i] = "up" THEN "closed" ELSE port[i]]
  /\ phase' = "tell"
  /\ UNCHANGED <<stream, interface, stop, slot, loop, connected, busVars, todo,
                 ops, jobs, expired>>

StopTell ==
  /\ GuiAt("stop", "tell")
  /\ connected' = FALSE
  /\ Proceed
  /\ UNCHANGED <<stream, interface, port, stop, slot, loop, busVars, ops, jobs,
                 expired>>

\* start_polling() clears the event and, in poll mode, spawns a thread.
StartPolling ==
  /\ GuiAt("start", "go")
  /\ stop' = FALSE
  /\ IF stream
     THEN phase' = "open" /\ UNCHANGED <<todo, slot, loop>>
     ELSE /\ \E l \in Loops : /\ loop[l] = "dead"
                              /\ loop' = [loop EXCEPT ![l] = "test"]
                              /\ slot' = l
          /\ Proceed
  /\ UNCHANGED <<stream, interface, port, connected, busVars, ops, jobs, expired>>

\* _start_stream() makes an interface and starts it.
StreamOpen ==
  /\ GuiAt("start", "open")
  /\ \E i \in Ifaces : port[i] = "new" /\ port' = [port EXCEPT ![i] = "up"]
  /\ phase' = "list"
  /\ UNCHANGED <<stream, interface, stop, slot, loop, connected, busVars, todo,
                 ops, jobs, expired>>

\* The interface does not start, and has given up its port.
StreamFails ==
  /\ GuiAt("start", "open")
  /\ connected' = FALSE
  /\ Proceed
  /\ UNCHANGED <<stream, interface, port, stop, slot, loop, busVars, ops, jobs,
                 expired>>

\* The interface is lent from now on, and a thread drains its stream.
StreamList ==
  /\ GuiAt("start", "list")
  /\ \E i \in Ifaces : port[i] = "up" /\ interface' = i
  /\ \E l \in Loops : /\ loop[l] = "dead"
                      /\ loop' = [loop EXCEPT ![l] = "test"]
                      /\ slot' = l
  /\ Proceed
  /\ UNCHANGED <<stream, port, stop, connected, busVars, ops, jobs, expired>>

\* The block of a handler on the bus; it raises to where the handler goes on.
GuiWork ==
  /\ GuiAt("work", "go") \/ GuiAt("work", "bus")
  /\ \/ phase = "go" /\ Enter(Gui) /\ phase' = "bus" /\ UNCHANGED todo
     \/ phase = "bus" /\ Advances(Gui) /\ UNCHANGED <<todo, phase>>
     \/ phase = "bus" /\ (Leave(Gui) \/ Raises(Gui)) /\ Proceed
  /\ UNCHANGED <<stream, interface, port, stop, slot, loop, connected, ops, jobs,
                 expired>>

\* read_diagnostics() opens the port, which may fail, and closes it in the end.
read_diagnostics ==
  /\ \/ GuiAt("bare", "go") /\ Proceed /\ UNCHANGED busVars
     \/ /\ GuiAt("bare", "go")
        /\ phase' = "bus" /\ UNCHANGED todo
        /\ at' = [at EXCEPT ![Gui] = "in"]
        /\ hand' = [hand EXCEPT ![Gui] = "own"]
        /\ UNCHANGED <<busLock, ioLock>>
     \/ GuiAt("bare", "bus") /\ Leave(Gui) /\ Proceed
  /\ UNCHANGED <<stream, interface, port, stop, slot, loop, connected, ops, jobs,
                 expired>>

GuiStep == \/ StopSet \/ StopJoin \/ StopUnlist \/ StopClose \/ StopTell
           \/ StartPolling \/ StreamOpen \/ StreamFails \/ StreamList
           \/ GuiWork \/ read_diagnostics

-----------------------------------------------------------------------------
(* Worker: a step test or an auto-tune run, in one block on the bus. *)

Begin ==
  /\ at[Worker] = "out" /\ jobs < MaxJobs
  /\ jobs' = jobs + 1
  /\ Enter(Worker)
  /\ UNCHANGED <<stream, interface, port, stop, slot, loop, connected, guiVars,
                 expired>>

\* The buttons of each are disabled while it runs; of the two only one has the
\* bus, and one is looked at.
StepTest == Begin
AutoTune == Begin

WorkerStep ==
  /\ Advances(Worker) \/ Leave(Worker) \/ Raises(Worker)
  /\ UNCHANGED <<stream, interface, port, stop, slot, loop, connected, guiVars,
                 jobs, expired>>

LoopStep(l) == LoopTest(l) \/ LoopPoll(l) \/ PollTell(l) \/ StreamTell(l)

Next == \/ Connect \/ Disconnect \/ Sweep
        \/ Torque \/ Scan \/ Home \/ ApplySweep \/ Import \/ RecentreJoint
        \/ Inspect \/ Export \/ Reconfigure
        \/ Refresh \/ Send \/ Replay \/ Gains \/ Restore
        \/ GuiStep
        \/ StepTest \/ AutoTune \/ WorkerStep
        \/ \E l \in Loops : LoopStep(l)

\* Every thread runs; a lock that is free again and again is got at last, which
\* the sleeps of the others between two uses make so.
Fairness ==
  /\ WF_vars(GuiStep) /\ SF_vars(GuiWork)
  /\ SF_vars(WorkerStep)
  /\ \A l \in Loops : WF_vars(LoopStep(l)) /\ SF_vars(LoopPoll(l))

Spec == Init /\ [][Next]_vars /\ Fairness

-----------------------------------------------------------------------------
(* Properties. *)

Speaks(c) ==
  /\ at[c] = "in"
  /\ hand[c] = "own" \/ (hand[c] \in Ifaces /\ port[hand[c]] = "up")

\* A handler that works on the bus never has it taken away.  A sweep, which
\* drives a joint into its stops, has it for itself: while it works no other
\* thread has a port that is open, no interface is up, and unless a join had
\* expired no loop is left and nothing says "connected".
GuiHasBus ==
  /\ at[Gui] = "in" => Speaks(Gui)
  /\ todo = <<"work", "stop", "start">> =>
       /\ \A i \in Ifaces : port[i] # "up"
       /\ Speaks(Gui) => \A c \in Clients \ {Gui} : ~Speaks(c)
       /\ ~expired => ~connected /\ \A l \in Loops : loop[l] = "dead"

=============================================================================
