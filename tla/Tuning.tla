-------------------------------- MODULE Tuning --------------------------------
(***************************************************************************)
(* An auto-tune run: _do_autotune of dashboard/panels/pid.py, the search   *)
(* of tuning/search.py over the trials of tuning/step_test.py, and the     *)
(* gains of tuning/gains_io.py in the EEPROM of one servo.                 *)
(*                                                                         *)
(* The cost of a trial is a rank: Costs 0 .. Passing are those of trials   *)
(* that meet every criterion, which any failing trial exceeds, and a trial *)
(* without metrics costs Unmeasurable.  The signal processing between the  *)
(* samples and the cost is left out.                                       *)
(***************************************************************************)
EXTENDS Integers, Sequences, FiniteSets

CONSTANTS
  Axes,          \* the gains in the order of the search
  MaxGain,       \* the largest value of a gain register
  Found,         \* the gains a servo may have
  Window,        \* how far the search may go from the gains it finds
  InitialStep, MinStep,
  MaxTrials,     \* the budget
  RepeatTrials,  \* passes in a row that validate
  NeedSamples,   \* samples the metrics need
  MaxSamples,    \* bound: samples of a trial
  Passing, Failing  \* the highest ranks of a passing and of a failing trial

Unmeasurable == Failing + 1
Gains == [1 .. Len(Axes) -> 0 .. MaxGain]

TuningAssumption ==
  /\ Len(Axes) \in Nat
  /\ MaxGain \in Nat /\ Found \subseteq Gains /\ Window \in [1 .. Len(Axes) -> Nat]
  /\ InitialStep \in Nat \ {0} /\ MinStep \in 1 .. InitialStep
  /\ MaxTrials \in Nat \ {0} /\ RepeatTrials \in Nat \ {0}
  /\ NeedSamples \in Nat /\ MaxSamples \in Nat
  /\ Passing \in Nat /\ Failing \in Nat /\ Passing < Failing

VARIABLES
  bus,      \* the port the run has is open
  step,     \* where the run is
  part,     \* "first", "descend" or "verify"
  eeprom,   \* the gains in the servo
  lock,     \* its EEPROM is locked
  before,   \* the gains the run found
  best,     \* the best trial so far
  cand,     \* the gains on trial
  trials,   \* the list of trials
  size,     \* the step of the search
  axis, up, \* the axis and the direction it tries
  better,   \* improved_this_round
  passes,   \* consecutive_passes
  took,     \* samples of the trial on the servo
  stopped   \* the stop event of the run

searchVars == <<part, best, cand, trials, size, axis, up, better, passes>>
vars == <<bus, step, searchVars, eeprom, lock, before, took, stopped>>

NoTrial == [gains |-> [a \in 1 .. Len(Axes) |-> 0], cost |-> Unmeasurable]

\* No run was begun yet.
Fresh ==
  /\ step = "idle" /\ part = "first"
  /\ before = NoTrial.gains /\ best = NoTrial /\ cand = NoTrial.gains
  /\ trials = <<>> /\ size = InitialStep /\ axis = 1 /\ up = TRUE
  /\ better = FALSE /\ passes = 0 /\ took = 0 /\ stopped = FALSE
  /\ bus = TRUE /\ lock = TRUE

Idle == eeprom = NoTrial.gains /\ Fresh
Init == eeprom \in Found /\ Fresh

Over == step \in {"done", "error"}
Running == step # "idle" /\ ~Over

-----------------------------------------------------------------------------
(* The gains in the servo. *)

\* The first k gains of g over those of the servo.
Upto(g, k) == [a \in 1 .. Len(Axes) |-> IF a <= k THEN g[a] ELSE eeprom[a]]

\* Unlock, write each gain, lock: it raises at the first write that is not
\* acknowledged, carried out or not.  The lock is written whatever happened to
\* the gains, but not when the unlocking raised.
write_gains(g, ok) ==
  \/ ok /\ bus /\ eeprom' = g /\ lock' = TRUE
  \/ ~ok /\ UNCHANGED <<eeprom, lock>>
  \/ ~ok /\ bus /\ UNCHANGED eeprom /\ lock' = FALSE
  \/ ~ok /\ bus /\ lock' \in BOOLEAN
     /\ \E k \in 0 .. Len(Axes) : eeprom' = Upto(g, k)

-----------------------------------------------------------------------------
(* The search. *)

Low(a) == IF before[a] > Window[a] THEN before[a] - Window[a] ELSE 0
High(a) == IF before[a] + Window[a] < MaxGain THEN before[a] + Window[a] ELSE MaxGain

\* SearchBounds.step: one axis moved, and kept within the bounds.
Stepped(g, a, d) ==
  [g EXCEPT ![a] = IF g[a] + d < Low(a) THEN Low(a)
                   ELSE IF g[a] + d > High(a) THEN High(a) ELSE g[a] + d]

BudgetLeft == Len(trials) < MaxTrials

\* evaluate(): every criterion is met.
ready(c) == c <= Passing

ReadGains ==
  /\ step = "read"
  /\ \/ /\ bus /\ before' = eeprom /\ cand' = eeprom
        /\ step' = "try"
     \/ step' = "error" /\ UNCHANGED <<before, cand>>
  /\ UNCHANGED <<bus, part, best, trials, size, axis, up, better, passes,
                 eeprom, lock, took, stopped>>

Kept == UNCHANGED <<bus, eeprom, lock, before, took, stopped>>

\* The next direction of this axis, or the next axis.
Onward == /\ axis' = IF up THEN axis ELSE axis + 1
          /\ up' = ~up

\* The candidate is clamped back to the best gains: nothing to try.
Skip ==
  /\ step = "pick" /\ part = "descend" /\ BudgetLeft /\ axis <= Len(Axes)
  /\ Stepped(best.gains, axis, IF up THEN size ELSE -size) = best.gains
  /\ Onward
  /\ UNCHANGED <<step, part, best, cand, trials, size, better, passes>> /\ Kept

Pick ==
  /\ step = "pick" /\ part = "descend" /\ BudgetLeft /\ axis <= Len(Axes)
  /\ cand' = Stepped(best.gains, axis, IF up THEN size ELSE -size)
  /\ cand' # best.gains
  /\ step' = "try"
  /\ UNCHANGED <<part, best, trials, size, axis, up, better, passes>> /\ Kept

\* A round is over: the step is halved unless something was better, down to
\* MinStep.
Round ==
  /\ step = "pick" /\ part = "descend" /\ BudgetLeft /\ axis > Len(Axes)
  /\ better \/ size > MinStep
  /\ size' = IF better THEN size
             ELSE IF size \div 2 > MinStep THEN size \div 2 ELSE MinStep
  /\ axis' = 1 /\ up' = TRUE /\ better' = FALSE
  /\ UNCHANGED <<step, part, best, cand, trials, passes>> /\ Kept

\* The step cannot shrink any more, or the budget is spent.
Converged ==
  /\ step = "pick" /\ part = "descend"
  /\ ~BudgetLeft \/ (axis > Len(Axes) /\ ~better /\ size <= MinStep)
  /\ part' = "verify"
  /\ passes' = IF ready(best.cost) THEN 1 ELSE 0
  /\ UNCHANGED <<step, best, cand, trials, size, axis, up, better>> /\ Kept

Repeat ==
  /\ step = "pick" /\ part = "verify"
  /\ passes > 0 /\ passes < RepeatTrials /\ BudgetLeft
  /\ cand' = best.gains
  /\ step' = "try"
  /\ UNCHANGED <<part, best, trials, size, axis, up, better, passes>> /\ Kept

Conclude ==
  /\ step = "pick" /\ part = "verify"
  /\ passes = 0 \/ passes >= RepeatTrials \/ ~BudgetLeft
  /\ step' = "final"
  /\ UNCHANGED searchVars /\ Kept

validated == passes >= RepeatTrials

-----------------------------------------------------------------------------
(* A trial. *)

\* compute_step_metrics() has something to say of the samples taken.
Measurable == took >= NeedSamples

\* What cost() makes of the metrics, by what became of the trial: every failed
\* criterion adds more than all that is measured can, and a trial the watchdog
\* cut short fails whatever was measured.
Costs(aborted) == IF ~Measurable THEN {Unmeasurable}
                  ELSE IF aborted THEN Passing + 1 .. Failing ELSE 0 .. Failing

\* The trial is listed.  In the descent a lower cost makes it the best, and the
\* search goes to the next axis.
Score(c) ==
  LET t == [gains |-> cand, cost |-> c]
      wins == part = "first" \/ (part = "descend" /\ c < best.cost)
  IN /\ trials' = Append(trials, t)
     /\ best' = IF wins THEN t ELSE best
     /\ better' = (better \/ (part = "descend" /\ wins))
     /\ IF part # "descend" THEN UNCHANGED <<axis, up>>
        ELSE IF wins THEN axis' = axis + 1 /\ up' = TRUE ELSE Onward
     /\ passes' = IF part # "verify" THEN passes
                  ELSE IF ready(c) THEN passes + 1 ELSE 0
     /\ part' = IF part = "first" THEN "descend" ELSE part
     /\ step' = "pick"
     /\ UNCHANGED <<cand, size>>

\* run_trial() of a run that is stopped raises before it touches the servo.
TrialStopped ==
  /\ step = "try" /\ stopped
  /\ Score(Unmeasurable)
  /\ UNCHANGED <<bus, eeprom, lock, before, took, stopped>>

\* The candidate is written to the EEPROM, to be tried.
TrialWrites ==
  /\ step = "try" /\ ~stopped
  /\ \/ write_gains(cand, TRUE) /\ step' = "run" /\ UNCHANGED searchVars
     \/ write_gains(cand, FALSE) /\ Score(Unmeasurable)
  /\ took' = 0
  /\ UNCHANGED <<bus, before, stopped>>

\* A transaction raises, or there was no step to measure.
TrialRaises ==
  /\ step = "run"
  /\ Score(Unmeasurable)
  /\ UNCHANGED <<bus, eeprom, lock, before, took, stopped>>

\* A sample is read; one that cannot be read is left out.
Sample ==
  /\ step = "run" /\ bus /\ took < MaxSamples
  /\ took' = took + 1
  /\ UNCHANGED <<bus, step, searchVars, eeprom, lock, before, stopped>>

\* The watchdog cuts the trial short: it fails, whatever was measured, if
\* enough was to be measured at all.
Abort ==
  /\ step = "run" /\ bus /\ took > 0
  /\ \E c \in Costs(TRUE) : Score(c)
  /\ UNCHANGED <<bus, eeprom, lock, before, took, stopped>>

\* The time is up, or the run is stopped, and the trial is scored all the same
\* if there are samples enough for the metrics.
TrialEnds ==
  /\ step = "run" /\ bus
  /\ \E c \in Costs(FALSE) : Score(c)
  /\ UNCHANGED <<bus, eeprom, lock, before, took, stopped>>

-----------------------------------------------------------------------------
(* The run. *)

\* Run Auto-Tune: an earlier run of the panel is over.
Begin ==
  /\ step = "idle"
  /\ step' = "read"
  /\ UNCHANGED <<bus, searchVars, eeprom, lock, before, took, stopped>>

\* bus() raises before the run has the bus.
NoBus ==
  /\ step = "read"
  /\ step' = "error"
  /\ UNCHANGED <<bus, searchVars, eeprom, lock, before, took, stopped>>

\* A handler stops the interface that lent the bus, which is gone for the run.
BusLost ==
  /\ bus /\ Running
  /\ bus' = FALSE
  /\ UNCHANGED <<step, searchVars, eeprom, lock, before, took, stopped>>

\* Stop: the event of the run is set.
Stop ==
  /\ Running /\ ~stopped
  /\ stopped' = TRUE
  /\ UNCHANGED <<bus, step, searchVars, eeprom, lock, before, took>>

\* Mutant: the servo is left with the gains of the last trial.
FinalNot ==
  /\ step = "final"
  /\ step' = "done"
  /\ UNCHANGED <<bus, searchVars, eeprom, lock, before, took, stopped>>

\* The EEPROM ends on the best gains, not on those of the last trial.
Final ==
  /\ step = "final"
  /\ \/ write_gains(best.gains, TRUE) /\ step' = "done"
     \/ write_gains(best.gains, FALSE) /\ step' = "error"
  /\ UNCHANGED <<bus, searchVars, before, took, stopped>>

SearchStep == Skip \/ Pick \/ Round \/ Converged \/ Repeat \/ Conclude
TrialStep == TrialStopped \/ TrialWrites \/ TrialRaises \/ Sample \/ Abort
             \/ TrialEnds
RunStep == ReadGains \/ SearchStep \/ TrialStep \/ Final

Next == Begin \/ Stop \/ NoBus \/ BusLost \/ RunStep

Fairness == WF_vars(RunStep)

Spec == Init /\ [][Next]_vars /\ Fairness

-----------------------------------------------------------------------------
(* Properties. *)

Tried == {trials[i] : i \in 1 .. Len(trials)}

\* A run that ends without an error leaves the servo locked, with the gains it
\* reports.  They were tried, lie in the window around those it found, and no
\* other gains it tried were cheaper, however many trials failed, were stopped
\* or had a write that got half way.  It is validated only when the last trials
\* of it all passed, with these gains.
TunedGains ==
  step = "done" =>
    /\ eeprom = best.gains /\ lock
    /\ best \in Tried /\ Len(trials) <= MaxTrials
    /\ \A a \in 1 .. Len(Axes) : best.gains[a] \in Low(a) .. High(a)
    /\ \A t \in Tried : t.cost < best.cost => t.gains = best.gains
    /\ validated =>
         /\ \A i \in 1 .. Len(trials) :
              i > Len(trials) - (RepeatTrials - 1) =>
                trials[i].gains = best.gains /\ trials[i].cost <= Passing
         /\ best.cost <= Passing

=============================================================================
