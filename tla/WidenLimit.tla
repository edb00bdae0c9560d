----------------------------- MODULE WidenLimit -----------------------------
(***************************************************************************)
(* probe_and_set_limit (calibration/widen_limit.py): one EEPROM angle      *)
(* limit is widened, the joint is walked toward it in small steps until it *)
(* stops, and the limit is set just short of where it stopped.             *)
(*                                                                         *)
(* Positions are in ticks, of a coarse scale.  What the joint does between *)
(* a goal and the next reading is external: it moves toward the goal, all  *)
(* the way, part of it or not at all, but never past its mechanical stop   *)
(* or past the limit in force, and under load it may sag by Sag ticks.     *)
(***************************************************************************)
EXTENDS Integers

CONSTANTS
    Ticks,     \* the positions a joint can have, 0..Ticks
    Step,      \* step_ticks
    Progress,  \* progress_ticks
    Stalls,    \* stall_steps
    Margin,    \* margin_ticks
    Sag,       \* bound: how far the joint gives way against its goal
    Faults     \* what may go wrong, a subset of FaultKinds

FaultKinds ==
    { "read",    \* a register read fails: its value is 0
      "write",   \* an EEPROM write fails: write1 and write2 raise
      "port" }   \* the serial port fails while walking

ASSUME NumberAssumption ==
    /\ {Ticks, Step, Progress, Stalls} \subseteq Nat \ {0}
    /\ {Margin, Sag} \subseteq Nat
ASSUME FaultAssumption == Faults \subseteq FaultKinds

VARIABLES
    direction, \* direction
    bound,     \* probe_bound_ticks
    stop,      \* the mechanical stop on that side
    phase,     \* where probe_and_set_limit is
    before,    \* the limit before, as it was read
    reached,   \* reached
    stalled,   \* stalled
    pos,       \* present position of the joint
    goal,      \* its goal
    limit,     \* the limit in the servo's EEPROM
    trusted,   \* the limit before the call
    locked     \* STS_LOCK

vars == <<direction, bound, stop, phase, before, reached, stalled, pos, goal,
          limit, trusted, locked>>
given == <<direction, bound, stop, trusted>>

Positions == 0..Ticks

-----------------------------------------------------------------------------
(* The two directions                                                      *)

sign == IF direction = "min" THEN -1 ELSE 1

\* a is at b or further on in the direction of the probe
AtOrPast(a, b) == sign * (a - b) >= 0

Further(a, b) == IF AtOrPast(a, b) THEN a ELSE b
Nearer(a, b)  == IF AtOrPast(a, b) THEN b ELSE a

\* Every position is one the joint can have, the goal included.
TypeOK ==
    /\ direction \in {"min", "max"}
    /\ {bound, stop, trusted, pos, limit} \subseteq Positions
    /\ phase \in {"before", "unlock", "widen", "first", "step", "settle", "final",
                  "lock", "done", "raised"}
    /\ {before, reached} \subseteq Positions
    /\ goal \in Positions
    /\ stalled \in 0..Stalls
    /\ locked \in BOOLEAN

\* The joint is short of its stop, and so is the limit that is trusted.
Init ==
    /\ direction \in {"min", "max"}
    /\ bound \in Positions /\ stop \in Positions
    /\ trusted \in Positions /\ AtOrPast(stop, trusted)
    /\ pos \in Positions /\ AtOrPast(stop, pos)
    /\ phase = "before" /\ before = 0 /\ reached = 0 /\ stalled = 0
    /\ goal = pos /\ limit = trusted /\ locked = TRUE

-----------------------------------------------------------------------------
(* The servo                                                               *)

\* What rd2 returns for a register that holds v: a failed read returns 0, not -1,
\* for read2ByteTxRx answers it with the data [0].
Rd2(v) == {v} \cup (IF "read" \in Faults THEN {0} ELSE {})

Between(a, b) == (IF a <= b THEN a ELSE b)..(IF a <= b THEN b ELSE a)

\* Where the joint may be when the settle time is over.
Settled ==
    Between(pos, Nearer(goal, Nearer(stop, limit)))
        \cup {p \in Positions : sign * (pos - p) \in 0..Sag}

-----------------------------------------------------------------------------
(* Before the walk                                                         *)

ReadBefore ==
    /\ phase = "before"
    /\ before' \in Rd2(limit)
    /\ phase' = "unlock"
    /\ UNCHANGED <<given, reached, stalled, pos, goal, limit, locked>>

UnlockEeprom ==
    /\ phase = "unlock"
    /\ locked' = FALSE /\ phase' = "widen"
    /\ UNCHANGED <<given, before, reached, stalled, pos, goal, limit>>

WidenForProbing ==
    /\ phase = "widen"
    /\ limit' = bound /\ phase' = "first"
    /\ UNCHANGED <<given, before, reached, stalled, pos, goal, locked>>

FirstReading ==
    /\ phase = "first"
    /\ reached' \in Rd2(pos) /\ phase' = "step"
    /\ UNCHANGED <<given, before, stalled, pos, goal, limit, locked>>

-----------------------------------------------------------------------------
(* The walk                                                                *)

AtBound ==
    /\ phase = "step" /\ AtOrPast(reached, bound)
    /\ phase' = "final"
    /\ UNCHANGED <<given, before, reached, stalled, pos, goal, limit, locked>>

\* Mutant: the goal is not held to the bound.
CommandUnbounded ==
    /\ phase = "step" /\ ~AtOrPast(reached, bound)
    /\ goal' = reached + sign * Step
    /\ phase' = "settle"
    /\ UNCHANGED <<given, before, reached, stalled, pos, limit, locked>>

\* A goal one step ahead of the last reading, not past the bound.
Command ==
    /\ phase = "step" /\ ~AtOrPast(reached, bound)
    /\ goal' = Nearer(reached + sign * Step, bound)
    /\ phase' = "settle"
    /\ UNCHANGED <<given, before, reached, stalled, pos, limit, locked>>

\* Mutant: only a joint that moves back counts as stalled.
MeasureBackOnly ==
    /\ phase = "settle"
    /\ pos' \in Settled
    /\ reached' \in Rd2(pos')
    /\ \/ phase' = "final" /\ UNCHANGED stalled
       \/ /\ stalled' = IF sign * (reached' - reached) < 0 THEN stalled + 1 ELSE 0
          /\ phase' = IF stalled' >= Stalls THEN "final" ELSE "step"
    /\ UNCHANGED <<given, before, goal, limit, locked>>

\* The joint has moved; its position is read, and its current, which is above the
\* ceiling or not.
Measure ==
    /\ phase = "settle"
    /\ pos' \in Settled
    /\ reached' \in Rd2(pos')
    /\ \/ phase' = "final" /\ UNCHANGED stalled       \* current_ceiling
       \/ /\ stalled' = IF sign * (reached' - reached) < Progress
                        THEN stalled + 1 ELSE 0
          /\ phase' = IF stalled' >= Stalls THEN "final" ELSE "step"
    /\ UNCHANGED <<given, before, goal, limit, locked>>

-----------------------------------------------------------------------------
(* After the walk                                                          *)

\* Mutant: the margin is added on the wrong side of the stop.
FinalBeyond == Further(before, reached + sign * Margin)

\* Mutant: the limit before is forgotten.
FinalAlone == reached - sign * Margin

Final == Further(before, reached - sign * Margin)

SetLimit ==
    /\ phase = "final"
    /\ limit' = Final /\ phase' = "lock"
    /\ UNCHANGED <<given, before, reached, stalled, pos, goal, locked>>

LockEeprom ==
    /\ phase = "lock"
    /\ locked' = TRUE /\ phase' = "done"
    /\ UNCHANGED <<given, before, reached, stalled, pos, goal, limit>>

\* An EEPROM write that fails raises, and so does a serial port that fails; nothing
\* is put back.
Raise ==
    /\ \/ "write" \in Faults /\ phase \in {"unlock", "widen", "final", "lock"}
       \/ "port" \in Faults /\ phase \notin {"done", "raised"}
    /\ phase' = "raised"
    /\ UNCHANGED <<given, before, reached, stalled, pos, goal, limit, locked>>

Terminated == phase \in {"done", "raised"} /\ UNCHANGED vars

Walk == AtBound \/ Command \/ Measure
Next ==
    \/ ReadBefore \/ UnlockEeprom \/ WidenForProbing \/ FirstReading
    \/ Walk \/ SetLimit \/ LockEeprom
    \/ Raise \/ Terminated

Spec == Init /\ [][Next]_vars

\* One thread runs the procedure to its end.
FairSpec == Spec /\ WF_vars(Next)

-----------------------------------------------------------------------------
(* Properties                                                              *)

\* "The EEPROM bound is then set margin_ticks short of the stop, never past it": a
\* limit that was short of the mechanical stop still is.
NeverPastStop == phase \in {"lock", "done"} => AtOrPast(stop, limit)

\* "a widen can only ever be undone back to the original": the joint does not lose
\* travel it was trusted with.
NeverNarrower == phase \in {"lock", "done"} => AtOrPast(limit, trusted)

\* What TypeOK needs: a walk that goes on has not stalled.
TypeInv ==
    /\ TypeOK
    /\ phase \in {"before", "unlock", "widen", "first", "step", "settle"}
         => stalled < Stalls

\* What makes NeverPastStop and NeverNarrower inductive while no read fails: the joint
\* and its readings stay short of the stop, and the limit read is the one trusted.
WalkInv ==
    /\ AtOrPast(stop, trusted) /\ AtOrPast(stop, pos)
    /\ phase = "before" => limit = trusted
    /\ phase \notin {"before", "raised"} => before = trusted
    /\ phase \in {"step", "settle", "final"} => AtOrPast(stop, reached)
    /\ NeverPastStop /\ NeverNarrower

\* The walk ends, for a joint that sags less in the steps before a stall is called
\* than one step has to gain: Progress > (Stalls - 1) * Sag.
Ends == <>(phase \in {"done", "raised"})
=============================================================================
