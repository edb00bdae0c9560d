-------------------------- MODULE WidenLimitProofs --------------------------
(* Theorems of WidenLimit, for every value of its constants. *)
EXTENDS WidenLimit, TLAPS

USE NumberAssumption DEF Positions

\* The two directions mirror each other: what is further and nearer of two positions.
LEMMA Order ==
    ASSUME direction \in {"min", "max"}, NEW a \in Int, NEW b \in Int
    PROVE  /\ sign \in {-1, 1}
           /\ Further(a, b) \in {a, b} /\ Nearer(a, b) \in {a, b}
           /\ AtOrPast(Further(a, b), a) /\ AtOrPast(Further(a, b), b)
           /\ AtOrPast(a, Nearer(a, b)) /\ AtOrPast(b, Nearer(a, b))
<1>1. CASE direction = "min"
  BY <1>1 DEF sign, Further, Nearer, AtOrPast
<1>2. CASE direction = "max"
  BY <1>2 DEF sign, Further, Nearer, AtOrPast
<1> QED BY <1>1, <1>2

\* A goal one step ahead of a position and not past the bound is a position.
LEMMA GoalInRange ==
    ASSUME TypeOK, ~AtOrPast(reached, bound)
    PROVE  Nearer(reached + sign * Step, bound) \in Positions
<1>1. CASE direction = "min"
  BY <1>1 DEF TypeOK, sign, Nearer, AtOrPast
<1>2. CASE direction = "max"
  BY <1>2 DEF TypeOK, sign, Nearer, AtOrPast
<1> QED BY <1>1, <1>2 DEF TypeOK

\* The limit to be set is a position.
LEMMA FinalInRange ==
    ASSUME TypeOK
    PROVE  Final \in Positions
<1>1. CASE direction = "min"
  BY <1>1 DEF TypeOK, Final, sign, Further, AtOrPast
<1>2. CASE direction = "max"
  BY <1>2 DEF TypeOK, Final, sign, Further, AtOrPast
<1> QED BY <1>1, <1>2 DEF TypeOK

\* Wherever the joint settles, it is at a position, and short of its stop if it was.
LEMMA SettledInRange ==
    ASSUME TypeOK, NEW p \in Settled
    PROVE  p \in Positions /\ (AtOrPast(stop, pos) => AtOrPast(stop, p))
<1> USE DEF TypeOK
<1>1. CASE direction = "min"
  BY <1>1 DEF Settled, Between, sign, Nearer, AtOrPast
<1>2. CASE direction = "max"
  BY <1>2 DEF Settled, Between, sign, Nearer, AtOrPast
<1> QED BY <1>1, <1>2
\* What a register read yields is a position.
LEMMA Rd2InRange ==
    ASSUME NEW v \in Positions, NEW r \in Rd2(v)
    PROVE  r \in Positions /\ ("read" \notin Faults => r = v)
BY DEF Rd2

-----------------------------------------------------------------------------

\* Every step keeps the types.
LEMMA TypeStep ==
    ASSUME TypeInv, [Next]_vars
    PROVE  TypeInv'
<1> USE DEF TypeInv, given
<1>1. CASE ReadBefore
  BY <1>1, Rd2InRange DEF TypeOK, ReadBefore
<1>2. CASE UnlockEeprom \/ WidenForProbing
  BY <1>2 DEF TypeOK, UnlockEeprom, WidenForProbing
<1>3. CASE FirstReading
  BY <1>3, Rd2InRange DEF TypeOK, FirstReading
<1>4. CASE AtBound
  BY <1>4 DEF TypeOK, AtBound
<1>5. CASE Command
  BY <1>5, GoalInRange DEF TypeOK, Command
<1>6. CASE Measure
  <2>1. pos' \in Positions /\ reached' \in Positions
    BY <1>6, Rd2InRange, SettledInRange DEF Measure
  <2>2. stalled' \in 0..Stalls /\ (phase' \in {"step", "final"})
          /\ (phase' = "step" => stalled' < Stalls)
    BY <1>6 DEF Measure, TypeOK
  <2> QED BY <1>6, <2>1, <2>2 DEF Measure, TypeOK
<1>7. CASE SetLimit
  BY <1>7, FinalInRange DEF TypeOK, SetLimit
<1>8. CASE LockEeprom
  BY <1>8 DEF TypeOK, LockEeprom
<1>9. CASE Raise
  BY <1>9 DEF TypeOK, Raise
<1>10. CASE Terminated \/ UNCHANGED vars
  BY <1>10 DEF TypeOK, Terminated, vars
<1> QED BY <1>1, <1>2, <1>3, <1>4, <1>5, <1>6, <1>7, <1>8, <1>9, <1>10 DEF Next, Walk

\* Types: every goal and every limit written is a position the joint can have, on
\* whichever side of the range the walk takes place.
THEOREM WidenTypes == Spec => []TypeOK
<1>1. Init => TypeInv
  BY DEF Init, TypeInv, TypeOK
<1>2. TypeInv /\ [Next]_vars => TypeInv'
  BY TypeStep
<1>3. TypeInv => TypeOK
  BY DEF TypeInv
<1> QED BY <1>1, <1>2, <1>3, PTL DEF Spec

-----------------------------------------------------------------------------

\* The limit to be set lies between the trusted limit and the stop.
LEMMA FinalInside ==
    ASSUME TypeOK, AtOrPast(stop, before), AtOrPast(stop, reached)
    PROVE  AtOrPast(stop, Final) /\ AtOrPast(Final, before)
<1>1. CASE direction = "min"
  BY <1>1 DEF TypeOK, Final, sign, Further, AtOrPast
<1>2. CASE direction = "max"
  BY <1>2 DEF TypeOK, Final, sign, Further, AtOrPast
<1> QED BY <1>1, <1>2 DEF TypeOK

\* Every step keeps the walk short of the stop.
LEMMA WalkStep ==
    ASSUME TypeOK, TypeOK', WalkInv, [Next]_vars, "read" \notin Faults
    PROVE  WalkInv'
<1> USE DEF NeverPastStop, NeverNarrower, given
<1>1. CASE ReadBefore
  <2>1. before' = trusted
    BY <1>1, Rd2InRange DEF ReadBefore, WalkInv, TypeOK
  <2> QED BY <1>1, <2>1 DEF ReadBefore, WalkInv, AtOrPast, sign
<1>2. CASE UnlockEeprom \/ WidenForProbing
  BY <1>2 DEF UnlockEeprom, WidenForProbing, WalkInv, AtOrPast, sign
<1>3. CASE FirstReading
  <2>1. reached' = pos
    BY <1>3, Rd2InRange DEF FirstReading, TypeOK
  <2> QED BY <1>3, <2>1 DEF FirstReading, WalkInv, AtOrPast, sign
<1>4. CASE AtBound \/ Command
  BY <1>4 DEF AtBound, Command, WalkInv, AtOrPast, sign
<1>5. CASE Measure
  <2>1. reached' = pos'
    BY <1>5, Rd2InRange DEF Measure, TypeOK
  <2>2. AtOrPast(stop, pos')
    BY <1>5, SettledInRange DEF Measure, WalkInv
  <2>3. phase' \in {"step", "final"}
    BY <1>5 DEF Measure
  <2> QED BY <1>5, <2>1, <2>2, <2>3 DEF Measure, WalkInv, AtOrPast, sign
<1>6. CASE SetLimit
  <2>1. AtOrPast(stop, Final) /\ AtOrPast(Final, trusted)
    BY <1>6, FinalInside DEF SetLimit, WalkInv
  <2> QED BY <1>6, <2>1 DEF SetLimit, WalkInv, AtOrPast, sign
<1>7. CASE LockEeprom
  BY <1>7 DEF LockEeprom, WalkInv, AtOrPast, sign
<1>8. CASE Raise
  BY <1>8 DEF Raise, WalkInv, AtOrPast, sign
<1>9. CASE Terminated \/ UNCHANGED vars
  BY <1>9 DEF Terminated, vars, WalkInv, AtOrPast, sign
<1> QED BY <1>1, <1>2, <1>3, <1>4, <1>5, <1>6, <1>7, <1>8, <1>9 DEF Next, Walk

\* While no register read fails, every reachable state satisfies the inductive invariant.
LEMMA WalkKept ==
    ASSUME "read" \notin Faults
    PROVE  Spec => []WalkInv
<1>1. Init => WalkInv
  BY DEF Init, WalkInv, NeverPastStop, NeverNarrower
<1>2. TypeOK /\ TypeOK' /\ WalkInv /\ [Next]_vars => WalkInv'
  BY WalkStep
<1> QED BY <1>1, <1>2, WidenTypes, PTL DEF Spec

\* While no register read fails, the limit a walk sets is short of the mechanical stop,
\* however the joint moves on its way.
THEOREM WidenSafe ==
    ASSUME "read" \notin Faults
    PROVE  Spec => []NeverPastStop
<1>1. WalkInv => NeverPastStop
  BY DEF WalkInv
<1> QED BY <1>1, WalkKept, PTL

\* While no register read fails, the limit a walk sets takes no travel away that the
\* trusted limit allowed.
THEOREM WidenNoNarrower ==
    ASSUME "read" \notin Faults
    PROVE  Spec => []NeverNarrower
<1>1. WalkInv => NeverNarrower
  BY DEF WalkInv
<1> QED BY <1>1, WalkKept, PTL
=============================================================================
