------------------------------ MODULE Excitation ------------------------------
(***************************************************************************)
(* A recording run: record_excitation of dynamics/record.py, as the        *)
(* command line of dynamics/cli.py calls it, over the bus thread of        *)
(* robot/hardware.py that sends what is queued and feeds the telemetry.    *)
(*                                                                         *)
(* One joint stands for all.  A robot without telemetry, the dry run, is   *)
(* polled and goes where it is told at once.                               *)
(***************************************************************************)
EXTENDS Integers, Sequences, SequencesExt

CONSTANTS
  Plan,       \* q_plan
  Starts,     \* bound: places the arm may start from
  Lowest, Highest, \* the joint's limits
  MaxStep,    \* max_step_rad
  MaxLag,     \* abort_tracking_rad
  Maxlen,     \* samples the stream holds
  MaxReads    \* bound: ticks of the bus thread

ExcitationAssumption ==
  /\ Plan \in Seq(Int) /\ Plan # <<>>
  /\ Starts \subseteq Int /\ Lowest \in Int /\ Highest \in Int /\ Lowest <= Highest
  /\ MaxStep \in Nat /\ MaxLag \in Nat /\ Maxlen \in Nat \ {0}
  /\ MaxReads \in Nat

VARIABLES
  tap,      \* the robot has telemetry
  turn,     \* where record_excitation is
  k,        \* the command that is sent next
  queued,   \* _pending_command: {} or {place}
  tick,     \* where the bus thread is in its tick
  sending,  \* what it has taken to send: {} or {place}
  running,  \* _running of the interface
  goal, arm, \* where the arm is told to be, and is
  seq,      \* _seq, the ticks
  seen,     \* the sample of the cache: its number, its place, a large current
  listed,   \* the stream is subscribed
  buffer,   \* samples in the stream
  log,      \* samples, or polled
  fed, dropped, \* ghost: samples published to the stream, and lost from it
  spot,     \* the sample the place to stay at was read from
  cmd,      \* the command to be queued, and the place it was clamped against
  held      \* ghost: {} or {the hold: the command, and the tick it was queued in}

robotVars == <<queued, tick, sending, running, goal, arm, seq, seen>>
streamVars == <<listed, buffer, log, fed, dropped>>
holdVars == <<spot, cmd, held>>
vars == <<tap, turn, k, robotVars, streamVars, holdVars>>

Fresh ==
  /\ k = 0 /\ queued = {} /\ tick = "read" /\ sending = {} /\ running = TRUE
  /\ goal = arm /\ seq = 0 /\ seen = [seq |-> 0, at |-> arm, hot |-> FALSE]
  /\ listed = FALSE /\ buffer = <<>> /\ log = <<>>
  /\ fed = 0 /\ dropped = 0
  /\ spot = seen /\ cmd = [from |-> arm, to |-> arm] /\ held = {}

Idle == turn = "idle" /\ tap = FALSE /\ arm = 0 /\ Fresh
Init == turn = "approach" /\ tap \in BOOLEAN /\ arm \in Starts /\ Fresh

-----------------------------------------------------------------------------
(* The robot. *)

Clip(x, a, b) == IF x < a THEN a ELSE IF x > b THEN b ELSE x

\* A target is clamped to the limits, then to a step from the place measured.
_apply_safety(q) ==
  Clip(Clip(q, Lowest, Highest), seen.at - MaxStep, seen.at + MaxStep)

\* set_robot_joint_positions clamps a target, and then queues it; a dry run does
\* not clamp.
Aimed(q) == [from |-> seen.at, to |-> IF tap THEN _apply_safety(q) ELSE q]

\* The newest command waits for the bus thread; the robot of a dry run is there
\* already.
Command(q) ==
  IF tap
  THEN queued' = {q} /\ UNCHANGED <<goal, arm, seen>>
  ELSE /\ goal' = q /\ arm' = q /\ seen' = [seen EXCEPT !.at = q]
       /\ UNCHANGED queued

Tick(from, to) == tap /\ tick = from /\ tick' = to

\* A tick starts with a read, which may fail.  On its way the arm gets as far
\* as what is in the way allows, and a current is large if it is not there.
_read_once ==
  /\ running /\ seq < MaxReads
  /\ seq' = seq + 1
  /\ arm' \in (goal .. arm) \cup (arm .. goal)
  /\ \/ /\ Tick("read", "publish")
        /\ \E hot \in {FALSE, arm' # goal} :
              seen' = [seq |-> seq', at |-> arm', hot |-> hot]
     \/ Tick("read", "take") /\ UNCHANGED seen
  /\ UNCHANGED <<tap, turn, k, queued, sending, running, goal, streamVars, holdVars>>

\* A stream that is full loses its oldest sample.
_publish ==
  /\ Tick("publish", "take")
  /\ IF ~listed THEN UNCHANGED <<buffer, fed, dropped>>
     ELSE /\ fed' = fed + 1
          /\ IF Len(buffer) < Maxlen
             THEN buffer' = Append(buffer, seen) /\ UNCHANGED dropped
             ELSE buffer' = Append(Tail(buffer), seen) /\ dropped' = dropped + 1
  /\ UNCHANGED <<tap, turn, k, queued, sending, running, goal, arm, seq, seen,
                 listed, log, holdVars>>

\* What is queued is taken, and then it is sent.
_write_if_pending ==
  /\ Tick("take", "send")
  /\ sending' = queued /\ queued' = {}
  /\ UNCHANGED <<tap, turn, k, running, goal, arm, seq, seen, streamVars, holdVars>>

\* Mutant: what was queued meanwhile is cleared with what was sent.
SendClears ==
  /\ Tick("send", "read")
  /\ sending' = {} /\ queued' = {}
  /\ goal' = IF sending = {} THEN goal ELSE CHOOSE q \in sending : TRUE
  /\ UNCHANGED <<tap, turn, k, running, arm, seq, seen, streamVars, holdVars>>

\* The command that was taken goes out.
Send ==
  /\ Tick("send", "read")
  /\ sending' = {}
  /\ goal' = IF sending = {} THEN goal ELSE CHOOSE q \in sending : TRUE
  /\ UNCHANGED <<tap, turn, k, queued, running, arm, seq, seen, streamVars, holdVars>>

-----------------------------------------------------------------------------
(* record_excitation. *)

Become(t) == turn' = t /\ UNCHANGED tap

\* A command of the run, which the bus thread does not see done.
Post(q) == Command(q) /\ UNCHANGED <<tick, sending, running, seq>>

\* The start of the plan is approached; of the commands for it the last is here.
\* Settling is the time the bus thread takes before the next step, if any.
Approach ==
  /\ turn = "approach"
  /\ Post(Aimed(Plan[1]).to)
  /\ Become("settle")
  /\ UNCHANGED <<k, streamVars, holdVars>>

subscribe ==
  /\ turn = "settle"
  /\ listed' = tap
  /\ k' = 1
  /\ Become("send")
  /\ UNCHANGED <<robotVars, buffer, log, fed, dropped, holdVars>>

_stream ==
  /\ turn = "send"
  /\ cmd' = Aimed(Plan[k])
  /\ Become("queue")
  /\ UNCHANGED <<k, robotVars, streamVars, spot, held>>

\* The command is queued, whatever the bus thread has done since it was clamped.
Queue ==
  /\ turn = "queue"
  /\ Post(cmd.to)
  /\ Become("check")
  /\ UNCHANGED <<k, streamVars, holdVars>>

\* What the last sample says: too far from the command before, or too hard.
Trips(s) ==
  \/ k > 1 /\ (s.at - Plan[k - 1] > MaxLag \/ Plan[k - 1] - s.at > MaxLag)
  \/ s.hot

\* Every tick drains the stream, or polls, and looks at the last sample there is.
check ==
  /\ turn = "check"
  /\ log' = IF tap THEN log \o buffer ELSE Append(log, seen)
  /\ buffer' = <<>>
  /\ IF log' # <<>> /\ Trips(Last(log'))
     THEN Become("hold") /\ UNCHANGED k
     ELSE k' = k + 1 /\ Become(IF k = Len(Plan) THEN "collect" ELSE "send")
  /\ UNCHANGED <<robotVars, listed, fed, dropped, holdVars>>

\* The place measured last is read, to stay there; it is clamped against the place
\* that is the last by then; and the command is queued.  The bus thread may come
\* in between.
Measure ==
  /\ turn = "hold"
  /\ spot' = seen
  /\ Become("halt")
  /\ UNCHANGED <<k, robotVars, streamVars, cmd, held>>

Clamp ==
  /\ turn = "halt"
  /\ cmd' = Aimed(spot.at)
  /\ Become("keep")
  /\ UNCHANGED <<k, robotVars, streamVars, spot, held>>

Hold ==
  /\ turn = "keep"
  /\ Post(cmd.to)
  /\ held' = {[from |-> cmd.from, to |-> cmd.to, tick |-> seq]}
  /\ Become("collect")
  /\ UNCHANGED <<k, streamVars, spot, cmd>>

\* An interrupt, which nothing but the finally clause heeds.
Interrupt ==
  /\ turn \in {"send", "queue", "check", "hold", "halt", "keep"}
  /\ Become("collect")
  /\ UNCHANGED <<k, robotVars, streamVars, holdVars>>

\* The finally clause drains the stream once more, and then leaves it.
Collect ==
  /\ turn = "collect"
  /\ log' = IF tap THEN log \o buffer ELSE log
  /\ buffer' = <<>>
  /\ Become("leave")
  /\ UNCHANGED <<k, robotVars, listed, fed, dropped, holdVars>>

unsubscribe ==
  /\ turn = "leave"
  /\ listed' = FALSE /\ buffer' = <<>>
  /\ Become("logged")
  /\ UNCHANGED <<k, robotVars, log, fed, dropped, holdVars>>

\* main() disconnects, which ends the bus thread when its tick is done.
disconnect ==
  /\ turn = "logged"
  /\ running' = FALSE
  /\ Become("end")
  /\ UNCHANGED <<k, queued, tick, sending, goal, arm, seq, seen, streamVars, holdVars>>

Record == \/ Approach \/ subscribe \/ _stream \/ Queue \/ check
          \/ Measure \/ Clamp \/ Hold
          \/ Collect \/ unsubscribe \/ disconnect

Bus == _read_once \/ _publish \/ _write_if_pending \/ Send

Next == Bus \/ Interrupt \/ Record

Fairness == WF_vars(Record)

Spec == Init /\ [][Next]_vars /\ Fairness

-----------------------------------------------------------------------------
(* Properties. *)

\* Where a hold is: it waits in the slot, for the tick under way or for the next,
\* and for ever if the loop ends before that; it is on its way; it is the last
\* command the arm was told.
Waiting(h) ==
  /\ queued = {h.to}
  /\ seq = h.tick \/ (seq = h.tick + 1 /\ tick \in {"publish", "take"})
Leaving(h) == queued = {} /\ sending = {h.to}
Told(h) == queued = {} /\ sending = {} /\ goal = h.to

\* From x toward y, and not beyond.
Toward(x, y) == (x .. y) \cup (y .. x)

\* When a run is stopped by what it saw, the hold is sent by the tick under way or by
\* the one that begins next, or is left unsent because none began before the loop
\* ended; and after it no command of the plan is sent, whether the bus thread had taken
\* it or not.  The hold leads from where the arm was measured as it was made toward
\* the place to stay at, brought within the limits, and not beyond; that place was
\* measured no earlier than the sample that stopped the run.  And however a run ends,
\* its log has in their order all samples published while it listened, but for those of
\* a full stream and of the moment of leaving it.
Recorded ==
  /\ \A h \in held :
        /\ Waiting(h) \/ Leaving(h) \/ Told(h)
        /\ IF tap THEN h.to \in Toward(h.from, Clip(spot.at, Lowest, Highest))
                  ELSE h.to = spot.at
        /\ turn = "collect" /\ tap => Last(log).seq <= spot.seq
  /\ tap => \A i \in DOMAIN log \ {1} : log[i - 1].seq < log[i].seq
  /\ tap /\ turn \notin {"logged", "end"} => Len(log) + Len(buffer) + dropped = fed

=============================================================================
