------------------------- MODULE CalibrationBenchProofs -------------------------
(* Theorems about CalibrationBench, for every arm, every set of poses, of      *)
(* travels and of tolerances, and however many passes and edits there are.     *)
EXTENDS CalibrationBench, SequenceTheorems, SequencesExt, TLAPS

\* What the signs of a calibration say was checked is what was.
SignsSound(c) == c.validated => c.checked = c.sign

\* A pose on record vouches for the zeros it constrains.
PoseSound(c) ==
  /\ \A j \in Joints : c.src[j] = "reference_pose" => c.pin[j] = "held"
  /\ c.pose # NoPose => \A j \in Covers[c.pose] : c.pin[j] # "no"

\* The travel of a joint is the last one measured.
TravelSound(c) ==
  \A j \in Joints : c.passes[j] # <<>> => c.travel[j] = Last(c.passes[j]).travel

Sound(c) == c \in Calibrations /\ SignsSound(c) /\ PoseSound(c) /\ TravelSound(c)

\* Two copies that differ in no more than what the sliders change.
Alike(c, d) ==
  /\ c.sign = d.sign /\ c.validated = d.validated /\ c.tol = d.tol
  /\ c.passes = d.passes /\ c.travel = d.travel

USE DEF SignsSound, PoseSound, TravelSound, Sound

-----------------------------------------------------------------------------
(* What is done to a calibration keeps it sound. *)

LEMMA SeededSound == ASSUME NEW t \in Travels PROVE Sound(Seeded(t))
<1>1. <<[travel |-> t, simulated |-> FALSE]>> \in Seq(Passes)
  BY DEF Passes
<1>2. Last(<<[travel |-> t, simulated |-> FALSE]>>).travel = t
  BY DEF Last
<1> QED
  BY <1>1, <1>2, BenchAssumption DEF BenchAssumption, Seeded, Calibrations, Sources

LEMMA AlignedSound ==
  ASSUME NEW c, Sound(c), NEW js \in SUBSET Joints
  PROVE  Sound(Aligned(c, js)) /\ Alike(Aligned(c, js), c)
BY DEF Aligned, shifted_by, Calibrations, Sources, Alike

LEMMA ToleratedSound ==
  ASSUME NEW c, Sound(c), NEW t \in Tolerances PROVE Sound(Tolerated(c, t))
BY DEF Tolerated, Calibrations

LEMMA FlippedSound ==
  ASSUME NEW c, Sound(c), NEW js \in SUBSET Joints PROVE Sound(Flipped(c, js))
<1> DEFINE s == [j \in Joints |-> IF j \in js THEN -c.sign[j] ELSE c.sign[j]]
           o == [j \in Joints |-> IF j \in js THEN "manual_sign_flip" ELSE c.src[j]]
           p == [j \in Joints |-> IF j \in js THEN "no" ELSE c.pin[j]]
           f == [c EXCEPT !.sign = s, !.src = o, !.pin = p]
<1>1. s \in [Joints -> {-1, 1}]
  <2>1. \A j \in Joints : c.sign[j] \in {-1, 1} /\ -c.sign[j] \in {-1, 1}
    BY DEF Calibrations
  <2> QED
    BY <2>1
<1>2. /\ o \in [Joints -> Sources] /\ p \in [Joints -> {"no", "held", "carried", "swept"}]
      /\ \A j \in Joints : o[j] = "reference_pose" => p[j] = "held"
  BY DEF Calibrations, Sources
<1>3. Flipped(c, js) = [f EXCEPT !.pose = NoPose, !.spread = 0, !.validated = FALSE]
  BY DEF Flipped, with_direction_flipped
<1> HIDE DEF s, o, p
<1>4. /\ f \in Calibrations /\ f.passes = c.passes /\ f.travel = c.travel
      /\ f.src = o /\ f.pin = p
  BY <1>1, <1>2 DEF Calibrations
<1> HIDE DEF f
<1> DEFINE g == [f EXCEPT !.pose = NoPose, !.spread = 0, !.validated = FALSE]
<1>5. g \in Calibrations
  BY <1>4 DEF Calibrations
<1>6. /\ g.passes = c.passes /\ g.travel = c.travel /\ g.src = o /\ g.pin = p
      /\ g.pose = NoPose /\ g.validated = FALSE
  BY <1>4 DEF Calibrations
<1> HIDE DEF g
<1>7. Sound(g)
  BY <1>2, <1>5, <1>6
<1> QED
  BY <1>3, <1>7 DEF g

LEMMA CheckedSound == ASSUME NEW c, Sound(c) PROVE Sound(mark_validated(c))
BY DEF mark_validated, Calibrations

LEMMA RezeroedSound ==
  ASSUME NEW c, Sound(c), NEW p \in Poses, NEW spread \in Spreads
  PROVE  Sound(Rezeroed(c, p, spread))
<1> DEFINE o == [j \in Joints |-> IF j \in Covers[p] THEN "reference_pose" ELSE c.src[j]]
           q == [j \in Joints |-> IF j \in Covers[p] THEN "held" ELSE c.pin[j]]
<1> DEFINE g == [c EXCEPT !.src = o, !.pin = q, !.validated = c.validated, !.pose = p,
                      !.spread = spread]
<1>1. Rezeroed(c, p, spread) = g
  BY DEF Rezeroed, rezero_from_pose, Calibrations
<1>2. Covers[p] \subseteq Joints
  BY BenchAssumption DEF BenchAssumption
<1>3. /\ o \in [Joints -> Sources] /\ q \in [Joints -> {"no", "held", "carried", "swept"}]
      /\ \A j \in Joints : o[j] = "reference_pose" => q[j] = "held"
      /\ \A j \in Covers[p] : q[j] # "no"
  BY <1>2 DEF Calibrations, Sources
<1> HIDE DEF o, q
<1>4. /\ g \in Calibrations
      /\ g.src = o /\ g.pin = q /\ g.pose = p /\ g.validated = c.validated
      /\ g.sign = c.sign /\ g.checked = c.checked /\ g.passes = c.passes /\ g.travel = c.travel
  BY <1>3 DEF Calibrations
<1> HIDE DEF g
<1> QED
  BY <1>1, <1>3, <1>4

LEMMA WithdrawnSound ==
  ASSUME NEW c, Sound(c), NEW js \in SUBSET Joints
  PROVE  Sound(with_claim_withdrawn(c, js))
BY DEF with_claim_withdrawn, Calibrations, Sources

LEMMA RebasedSound ==
  ASSUME NEW c, Sound(c), NEW j \in Joints
  PROVE  /\ rebased_after_offset_change(c, j) \in Calibrations
         /\ SignsSound(rebased_after_offset_change(c, j))
         /\ PoseSound(rebased_after_offset_change(c, j))
         /\ TravelSound(rebased_after_offset_change(c, j))
<1> DEFINE d == [c EXCEPT !.src[j] = "rebased"]
           f == [d EXCEPT !.pin[j] = IF @ = "held" THEN "carried" ELSE @]
<1>1. /\ d \in Calibrations /\ d.passes = c.passes /\ d.travel = c.travel
      /\ d.sign = c.sign /\ d.checked = c.checked /\ d.validated = c.validated
      /\ d.pin = c.pin /\ d.pose = c.pose
      /\ d.src[j] = "rebased" /\ \A k \in Joints \ {j} : d.src[k] = c.src[k]
  BY DEF Calibrations, Sources
<1>2. rebased_after_offset_change(c, j) = f
  BY DEF rebased_after_offset_change
<1> HIDE DEF d
<1>3. /\ f \in Calibrations /\ f.passes = d.passes /\ f.travel = d.travel
      /\ f.sign = d.sign /\ f.checked = d.checked /\ f.validated = d.validated
      /\ f.src = d.src /\ f.pose = d.pose
  BY <1>1 DEF Calibrations
<1>4. /\ d.pin[j] # "no" => f.pin[j] # "no"
      /\ \A k \in Joints \ {j} : f.pin[k] = d.pin[k]
  BY <1>1 DEF Calibrations
<1> HIDE DEF f
<1>5. \A k \in Joints : /\ f.src[k] = "reference_pose" => f.pin[k] = "held"
                        /\ c.pin[k] # "no" => f.pin[k] # "no"
  BY <1>1, <1>3, <1>4
<1>6. c.pose # NoPose => Covers[c.pose] \subseteq Joints
  BY BenchAssumption DEF BenchAssumption, Calibrations
<1>7. PoseSound(f)
  BY <1>1, <1>3, <1>5, <1>6
<1>8. SignsSound(f) /\ TravelSound(f)
  BY <1>1, <1>3
<1> QED
  BY <1>2, <1>3, <1>7, <1>8

\* One more pass, of which the travel is that of the joint.
LEMMA PassSound ==
  ASSUME NEW s \in Seq(Passes), NEW t \in Travels, NEW sim \in BOOLEAN
  PROVE  /\ Append(s, [travel |-> t, simulated |-> sim]) \in Seq(Passes)
         /\ Last(Append(s, [travel |-> t, simulated |-> sim])).travel = t
<1> DEFINE p == [travel |-> t, simulated |-> sim]
<1>1. p \in Passes /\ p.travel = t
  BY DEF Passes
<1> HIDE DEF p
<1>2. Append(s, p) \in Seq(Passes) /\ Append(s, p)[Len(Append(s, p))] = p
  BY <1>1
<1> QED
  BY <1>1, <1>2 DEF Last, p

LEMMA RecentredSound ==
  ASSUME NEW c, Sound(c), NEW j \in Joints, NEW t \in Travels
  PROVE  Sound(Recentred(c, j, t))
<1> DEFINE d == rebased_after_offset_change(c, j)
           s == Append(d.passes[j], [travel |-> t, simulated |-> FALSE])
           e == [d EXCEPT !.travel[j] = t]
           f == [e EXCEPT !.passes[j] = s]
<1>1. d \in Calibrations /\ Sound(d)
  BY RebasedSound
<1> HIDE DEF d
<1>2. s \in Seq(Passes) /\ Last(s).travel = t
  <2>1. d.passes[j] \in Seq(Passes)
    BY <1>1 DEF Calibrations
  <2> QED
    BY <2>1, PassSound
<1>3. /\ e \in Calibrations /\ e.passes = d.passes /\ e.sign = d.sign /\ e.checked = d.checked
      /\ e.validated = d.validated /\ e.src = d.src /\ e.pin = d.pin /\ e.pose = d.pose
      /\ e.travel[j] = t /\ \A k \in Joints \ {j} : e.travel[k] = d.travel[k]
  BY <1>1 DEF Calibrations
<1>4. Recentred(c, j, t) = f
  BY <1>3 DEF Recentred, with_travel, d
<1> HIDE DEF e, s
<1>5. /\ f \in Calibrations /\ f.travel = e.travel /\ f.sign = e.sign /\ f.checked = e.checked
      /\ f.validated = e.validated /\ f.src = e.src /\ f.pin = e.pin /\ f.pose = e.pose
      /\ f.passes[j] = s /\ \A k \in Joints \ {j} : f.passes[k] = e.passes[k]
  BY <1>2, <1>3 DEF Calibrations
<1> HIDE DEF f
<1>6. Sound(f)
  BY <1>1, <1>2, <1>3, <1>5
<1> QED
  BY <1>4, <1>6

\* The results of a measurement, at most one for each joint.
Results == [Joints -> Travels \cup {None}]

LEMMA MeasuredSound ==
  ASSUME NEW c, Sound(c), NEW r \in Results, NEW sim \in BOOLEAN
  PROVE  Sound(Measured(c, r, sim))
<1> DEFINE s == [j \in Joints |->
                   IF r[j] = None THEN c.passes[j]
                   ELSE Append(c.passes[j], [travel |-> r[j], simulated |-> sim])]
           t == [j \in Joints |-> IF r[j] = None THEN c.travel[j] ELSE r[j]]
           f == [c EXCEPT !.passes = s, !.travel = t]
<1>1. ASSUME NEW j \in Joints
      PROVE  /\ s[j] \in Seq(Passes) /\ t[j] \in Travels
             /\ s[j] # <<>> => t[j] = Last(s[j]).travel
  <2>1. c.passes[j] \in Seq(Passes) /\ c.travel[j] \in Travels
    BY DEF Calibrations
  <2>2. CASE r[j] = None
    BY <2>1, <2>2
  <2>3. CASE r[j] # None
    <3>1. r[j] \in Travels
      BY <2>3 DEF Results
    <3>2. s[j] = Append(c.passes[j], [travel |-> r[j], simulated |-> sim]) /\ t[j] = r[j]
      BY <2>3
    <3> QED
      BY <2>1, <3>1, <3>2, PassSound
  <2> QED
    BY <2>2, <2>3
<1>2. s \in [Joints -> Seq(Passes)] /\ t \in [Joints -> Travels]
  BY <1>1
<1>3. Measured(c, r, sim) = f
  BY DEF Measured
<1> HIDE DEF s, t
<1>4. /\ f \in Calibrations /\ f.passes = s /\ f.travel = t /\ f.sign = c.sign
      /\ f.checked = c.checked /\ f.validated = c.validated /\ f.src = c.src
      /\ f.pin = c.pin /\ f.pose = c.pose
  BY <1>2 DEF Calibrations
<1> HIDE DEF f
<1>5. Sound(f)
  BY <1>1, <1>4
<1> QED
  BY <1>3, <1>5

\* What is left when a pass is removed is a sequence of passes.
LEMMA LeftPasses ==
  ASSUME NEW s \in Seq(Passes), NEW i \in DOMAIN s
  PROVE  /\ RemoveAt(s, i) \in Seq(Passes)
         /\ RemoveAt(s, i) # <<>> => Last(RemoveAt(s, i)).travel \in Travels
<1>1. SubSeq(s, 1, i - 1) \in Seq(Passes)
  BY SubSeqProperties
<1>2. SubSeq(s, i + 1, Len(s)) \in Seq(Passes)
  BY SubSeqProperties
<1>3. RemoveAt(s, i) \in Seq(Passes)
  BY <1>1, <1>2, ConcatProperties DEF RemoveAt
<1>4. ASSUME NEW q \in Seq(Passes), q # <<>> PROVE Last(q).travel \in Travels
  <2>1. q[Len(q)] \in Passes
    BY <1>4
  <2> QED
    BY <2>1 DEF Last, Passes
<1> QED
  BY <1>3, <1>4

LEMMA RemovedSound ==
  ASSUME NEW c, Sound(c), NEW j \in Joints, NEW i
  PROVE  Sound(RemovePass(c, j, i))
<1> SUFFICES ASSUME i \in DOMAIN c.passes[j] PROVE Sound(RemovePass(c, j, i))
  BY DEF RemovePass
<1> DEFINE left == RemoveAt(c.passes[j], i)
           t == IF left = <<>> THEN c.travel[j] ELSE Last(left).travel
           d == [c EXCEPT !.passes[j] = left]
           f == [d EXCEPT !.travel[j] = t]
<1>1. /\ left \in Seq(Passes) /\ t \in Travels
      /\ left # <<>> => t = Last(left).travel
  <2>1. c.passes[j] \in Seq(Passes) /\ c.travel[j] \in Travels
    BY DEF Calibrations
  <2> QED
    BY <2>1, LeftPasses
<1>2. RemovePass(c, j, i) = f
  BY DEF RemovePass, Calibrations
<1> HIDE DEF left, t
<1>3. /\ d \in Calibrations /\ d.travel = c.travel /\ d.sign = c.sign
      /\ d.checked = c.checked /\ d.validated = c.validated /\ d.src = c.src
      /\ d.pin = c.pin /\ d.pose = c.pose
      /\ d.passes[j] = left /\ \A k \in Joints \ {j} : d.passes[k] = c.passes[k]
  BY <1>1 DEF Calibrations
<1> HIDE DEF d
<1>4. /\ f \in Calibrations /\ f.passes = d.passes /\ f.sign = d.sign
      /\ f.checked = d.checked /\ f.validated = d.validated /\ f.src = d.src
      /\ f.pin = d.pin /\ f.pose = d.pose
      /\ f.travel[j] = t /\ \A k \in Joints \ {j} : f.travel[k] = d.travel[k]
  BY <1>1, <1>3 DEF Calibrations
<1> HIDE DEF f
<1>5. Sound(f)
  BY <1>1, <1>3, <1>4
<1> QED
  BY <1>2, <1>5

LEMMA MergedSound ==
  ASSUME NEW c, Sound(c), NEW r \in Results, NEW sim \in BOOLEAN
  PROVE  Sound(_merge_into_existing(c, r, sim))
<1> DEFINE swept == {j \in Joints : r[j] # None}
           fresh == swept = Joints
           g == [j \in Joints |-> IF j \in swept THEN 1 ELSE c.sign[j]]
           o == [j \in Joints |-> IF j \in swept THEN "travel" ELSE c.src[j]]
           p == [j \in Joints |-> IF j \in swept THEN "swept" ELSE c.pin[j]]
           t == [j \in Joints |-> IF j \in swept THEN r[j] ELSE c.travel[j]]
           s == [j \in Joints |->
                   IF j \in swept
                   THEN Append(c.passes[j], [travel |-> r[j], simulated |-> sim])
                   ELSE c.passes[j]]
           d == [c EXCEPT !.sign = g, !.src = o, !.pin = p, !.travel = t, !.passes = s,
                          !.validated = FALSE]
           f == [d EXCEPT !.tol = IF fresh THEN None ELSE @,
                          !.pose = IF fresh THEN NoPose ELSE @,
                          !.spread = IF fresh THEN 0 ELSE @,
                          !.dry = IF fresh THEN sim ELSE @ \/ sim]
<1>1. ASSUME NEW j \in Joints
      PROVE  /\ s[j] \in Seq(Passes) /\ t[j] \in Travels
             /\ s[j] # <<>> => t[j] = Last(s[j]).travel
  <2>1. c.passes[j] \in Seq(Passes) /\ c.travel[j] \in Travels
    BY DEF Calibrations
  <2>2. CASE r[j] = None
    BY <2>1, <2>2
  <2>3. CASE r[j] # None
    <3>1. r[j] \in Travels
      BY <2>3 DEF Results
    <3>2. s[j] = Append(c.passes[j], [travel |-> r[j], simulated |-> sim]) /\ t[j] = r[j]
      BY <2>3
    <3> QED
      BY <2>1, <3>1, <3>2, PassSound
  <2> QED
    BY <2>2, <2>3
<1>2. s \in [Joints -> Seq(Passes)] /\ t \in [Joints -> Travels]
  BY <1>1
<1>3. /\ g \in [Joints -> {-1, 1}] /\ o \in [Joints -> Sources]
      /\ p \in [Joints -> {"no", "held", "carried", "swept"}]
      /\ \A j \in Joints : o[j] = "reference_pose" => p[j] = "held"
      /\ \A j \in Joints : c.pin[j] # "no" => p[j] # "no"
  BY DEF Calibrations, Sources
<1>4. _merge_into_existing(c, r, sim) = f
  BY DEF _merge_into_existing, Calibrations
<1> HIDE DEF swept, g, o, p, t, s
<1>5. /\ d \in Calibrations /\ d.passes = s /\ d.travel = t /\ d.sign = g
      /\ d.src = o /\ d.pin = p /\ d.pose = c.pose /\ d.validated = FALSE
  BY <1>2, <1>3 DEF Calibrations
<1> HIDE DEF d, fresh
<1>6. /\ f \in Calibrations /\ f.passes = d.passes /\ f.travel = d.travel
      /\ f.src = d.src /\ f.pin = d.pin /\ f.validated = FALSE
      /\ f.pose = d.pose \/ f.pose = NoPose
  <2> DEFINE x == IF fresh THEN None ELSE d.tol
             y == IF fresh THEN NoPose ELSE d.pose
             z == IF fresh THEN 0 ELSE d.spread
             w == IF fresh THEN sim ELSE d.dry \/ sim
  <2>1. /\ x \in Tolerances \cup {None} /\ y \in Poses \cup {NoPose}
        /\ z \in Spreads \cup {0} /\ (y = d.pose \/ y = NoPose)
    BY <1>5 DEF Calibrations
  <2>2. w \in BOOLEAN
    <3>1. d.dry \in BOOLEAN
      BY <1>5 DEF Calibrations
    <3> QED
      BY <3>1
  <2>3. f = [d EXCEPT !.tol = x, !.pose = y, !.spread = z, !.dry = w]
    OBVIOUS
  <2> HIDE DEF f, x, y, z, w
  <2> QED
    BY <1>5, <2>1, <2>2, <2>3 DEF Calibrations
<1> HIDE DEF f
<1>7. Sound(f)
  BY <1>1, <1>3, <1>5, <1>6, BenchAssumption DEF BenchAssumption, Calibrations
<1> QED
  BY <1>4, <1>7

-----------------------------------------------------------------------------
(* Every step keeps every copy sound, and two copies alike. *)

\* The copies of the calibration.
CopiesSound == \A c \in Copies : Sound(c)

\* What the sliders start from has all that is in the mirror.
CopiesAlike ==
  live # NoCal => base # NoCal /\ Alike(live, base) /\ (nudged = {} => live = base)

\* What is measured, by joint; where the discard dropdown points.
ResultTypes ==
  rom \in Results /\ hand \in Results /\ pick.joint \in Joints /\ flipped \subseteq Joints

\* A save has something to write, and a copy of what it writes over.
SaveSound ==
  /\ saving # "idle" => live # NoCal
  /\ saving = "backed" => kept # "no" \/ file = NoCal

BenchInv == CopiesSound /\ CopiesAlike /\ ResultTypes /\ SaveSound

\* An edit that is made to both copies, of which both results are sound and alike,
\* keeps the invariant when it leaves the file and the handlers' state alone.
LEMMA EditBoth ==
  ASSUME BenchInv, live # NoCal,
         Sound(live'), Sound(base'), Alike(live', base'),
         live = base => live' = base',
         UNCHANGED <<nudged, file, saving, kept>>,
         ResultTypes'
  PROVE  BenchInv'
<1>1. CopiesSound'
  BY DEF BenchInv, CopiesSound, Copies
<1>2. live' # NoCal /\ base' # NoCal
  BY NoCalAssumption DEF NoCalAssumption
<1>3. CopiesAlike'
  BY <1>2 DEF BenchInv, CopiesAlike
<1>4. SaveSound'
  BY <1>2 DEF BenchInv, SaveSound
<1> QED
  BY <1>1, <1>3, <1>4 DEF BenchInv

\* Both copies, when there is a live one.
LEMMA TwoCopies ==
  ASSUME BenchInv, live # NoCal
  PROVE  Sound(live) /\ Sound(base) /\ base # NoCal /\ Alike(live, base)
BY DEF BenchInv, CopiesSound, CopiesAlike, Copies

\* The fields that two alike copies share stay alike under the same edit.
LEMMA ChangedAlike ==
  ASSUME NEW c, NEW d, Sound(c), Sound(d), Alike(c, d)
  PROVE  /\ \A t \in Tolerances : Alike(Tolerated(c, t), Tolerated(d, t))
         /\ Alike(mark_validated(c), mark_validated(d))
         /\ \A js \in SUBSET Joints : Alike(with_claim_withdrawn(c, js), with_claim_withdrawn(d, js))
BY DEF Alike, Tolerated, mark_validated, with_claim_withdrawn, Calibrations

LEMMA FlippedAlike ==
  ASSUME NEW c, NEW d, Sound(c), Sound(d), Alike(c, d), NEW js \in SUBSET Joints
  PROVE  Alike(Flipped(c, js), Flipped(d, js))
BY DEF Alike, Flipped, with_direction_flipped, Calibrations

LEMMA MeasuredAlike ==
  ASSUME NEW c, NEW d, Sound(c), Sound(d), Alike(c, d), NEW r, NEW sim
  PROVE  Alike(Measured(c, r, sim), Measured(d, r, sim))
BY DEF Alike, Measured, Calibrations

LEMMA RemovedAlike ==
  ASSUME NEW c, NEW d, Sound(c), Sound(d), Alike(c, d), NEW j, NEW i
  PROVE  Alike(RemovePass(c, j, i), RemovePass(d, j, i))
BY DEF Alike, RemovePass, Calibrations

LEMMA RecentredAlike ==
  ASSUME NEW c, NEW d, Sound(c), Sound(d), Alike(c, d), NEW j, NEW t
  PROVE  Alike(Recentred(c, j, t), Recentred(d, j, t))
BY DEF Alike, Recentred, with_travel, rebased_after_offset_change, Calibrations

\* A selection that is refreshed is one that is offered.
LEMMA RefreshedOffered ==
  ASSUME NEW c, NEW p, p.joint \in Joints, c = NoCal \/ c \in Calibrations
  PROVE  Refreshed(c, p) \in _pass_options(c, p.joint)
<1> DEFINE options == _pass_options(c, p.joint)
<1>1. \E o \in options : o.index <= 1
  <2>1. CASE c = NoCal \/ c.passes[p.joint] = <<>>
    <3>1. [joint |-> p.joint, index |-> 0, pass |-> None] \in options
      BY <2>1 DEF _pass_options
    <3> QED
      BY <3>1
  <2>2. CASE c # NoCal /\ c.passes[p.joint] # <<>>
    <3>1. 1 \in DOMAIN c.passes[p.joint]
      BY <2>2 DEF Calibrations
    <3>2. [joint |-> p.joint, index |-> 1, pass |-> c.passes[p.joint][1]] \in options
      BY <2>2, <3>1 DEF _pass_options
    <3> QED
      BY <3>2
  <2> QED
    BY <2>1, <2>2
<1> HIDE DEF options
<1> QED
  BY <1>1 DEF Refreshed, options

LEMMA SelectionTypes ==
  ASSUME NEW c, NEW p, p.joint \in Joints, c = NoCal \/ c \in Calibrations
  PROVE  Refreshed(c, p).joint = p.joint
<1>1. Refreshed(c, p) \in _pass_options(c, p.joint)
  BY RefreshedOffered
<1> QED
  BY <1>1 DEF _pass_options

LEMMA FirstPassTypes ==
  ASSUME NEW c, c = NoCal \/ c \in Calibrations PROVE FirstPass(c).joint \in Joints
<1> DEFINE p == [joint |-> CHOOSE j \in Joints : TRUE, index |-> 0, pass |-> None]
<1>1. p.joint \in Joints
  BY BenchAssumption DEF BenchAssumption
<1> HIDE DEF p
<1> QED
  BY <1>1, SelectionTypes DEF FirstPass, p

LEMMA BenchInit == Init => BenchInv
<1> SUFFICES ASSUME Init PROVE BenchInv
  OBVIOUS
<1>1. Sound(file) /\ live = file /\ base = file /\ file # NoCal
  BY SeededSound, NoCalAssumption DEF Init, NoCalAssumption
<1>2. CopiesSound /\ CopiesAlike
  BY <1>1 DEF CopiesSound, Copies, CopiesAlike, Alike
<1>3. ResultTypes
  BY <1>1, FirstPassTypes DEF Init, ResultTypes, Results
<1>4. SaveSound
  BY <1>1 DEF Init, SaveSound
<1> QED
  BY <1>2, <1>3, <1>4 DEF BenchInv

\* The edits of tolerances and of signs.
LEMMA SignsStep ==
  ASSUME BenchInv,
         \/ \E t \in Tolerances : RecordTolerances(t)
         \/ \E j \in Joints, v \in {"unchecked", "ok", "inverted"} : _apply_signs(j, v)
         \/ ConfirmSigns
         \/ _withdraw
  PROVE  BenchInv'
<1>1. ASSUME UNCHANGED <<rom, hand, pick>>, flipped' \subseteq Joints PROVE ResultTypes'
  BY <1>1 DEF BenchInv, ResultTypes
<1>6. flipped \subseteq Joints
  BY DEF BenchInv, ResultTypes
<1>2. ASSUME NEW t \in Tolerances, RecordTolerances(t) PROVE BenchInv'
  <2>1. /\ live' = Tolerated(live, t) /\ base' = Tolerated(base, t) /\ live # NoCal
        /\ UNCHANGED <<nudged, rom, hand, pick, flipped, file, saving, kept>>
    BY <1>2 DEF RecordTolerances, _live_calibrations, gui, disk, Edit
  <2> HIDE DEF Sound, SignsSound, PoseSound, TravelSound
  <2>2. Sound(live') /\ Sound(base') /\ Alike(live', base')
    BY <2>1, TwoCopies, ToleratedSound, ChangedAlike
  <2> QED
    BY <2>1, <2>2, <1>1, <1>6, EditBoth
<1>3. ASSUME NEW j \in Joints, NEW v \in {"unchecked", "ok", "inverted"}, _apply_signs(j, v)
      PROVE  BenchInv'
  <2>1. UNCHANGED <<nudged, rom, hand, pick, file, saving, kept>> /\ flipped' \subseteq Joints
    BY <1>3 DEF _apply_signs, disk, Edit, BenchInv, ResultTypes
  <2>2. CASE UNCHANGED <<live, base>>
    BY <2>1, <2>2 DEF BenchInv, CopiesSound, Copies, CopiesAlike, ResultTypes, SaveSound
  <2>3. CASE live # NoCal /\ \E js \in SUBSET Joints :
               live' = Flipped(live, js) /\ base' = Flipped(base, js)
    <3>1. Sound(live') /\ Sound(base') /\ Alike(live', base')
      BY <2>3, TwoCopies, FlippedSound, FlippedAlike
    <3>2. live = base => live' = base'
      BY <2>3
    <3> QED
      BY <2>1, <2>3, <3>1, <3>2, <1>1, EditBoth
  <2>4. \/ UNCHANGED <<live, base>>
        \/ live # NoCal /\ \E js \in SUBSET Joints :
             live' = Flipped(live, js) /\ base' = Flipped(base, js)
    <3> DEFINE want == {k \in Joints : verdict'[k] = "inverted"}
               delta == (want \ flipped) \cup (flipped \ want)
    <3>1. delta \in SUBSET Joints
      BY DEF BenchInv, ResultTypes
    <3>2. \/ UNCHANGED <<live, base>>
          \/ live # NoCal /\ live' = Flipped(live, delta) /\ base' = Flipped(base, delta)
      BY <1>3 DEF _apply_signs, _live_calibrations
    <3> HIDE DEF delta
    <3> QED
      BY <3>1, <3>2
  <2> QED
    BY <2>2, <2>3, <2>4
<1>4. CASE ConfirmSigns
  <2>1. /\ live' = mark_validated(live) /\ base' = mark_validated(base) /\ live # NoCal
        /\ UNCHANGED <<nudged, rom, hand, pick, flipped, file, saving, kept>>
    BY <1>4 DEF ConfirmSigns, _live_calibrations, gui, disk, Edit
  <2> HIDE DEF Sound, SignsSound, PoseSound, TravelSound
  <2>2. Sound(live') /\ Sound(base') /\ Alike(live', base')
    BY <2>1, TwoCopies, CheckedSound, ChangedAlike
  <2> QED
    BY <2>1, <2>2, <1>1, <1>6, EditBoth
<1>5. CASE _withdraw
  <2> DEFINE js == _unsupported_pose_claims(live)
  <2>1. /\ live' = with_claim_withdrawn(live, js) /\ base' = with_claim_withdrawn(base, js)
        /\ live # NoCal /\ UNCHANGED <<nudged, rom, hand, pick, flipped, file, saving, kept>>
    BY <1>5 DEF _withdraw, _live_calibrations, gui, disk, Edit
  <2>2. js \in SUBSET Joints
    BY DEF _unsupported_pose_claims
  <2> HIDE DEF js
  <2> HIDE DEF Sound, SignsSound, PoseSound, TravelSound
  <2>3. Sound(live') /\ Sound(base') /\ Alike(live', base')
    BY <2>1, <2>2, TwoCopies, WithdrawnSound, ChangedAlike
  <2> QED
    BY <2>1, <2>3, <1>1, <1>6, EditBoth
<1> QED
  BY <1>2, <1>3, <1>4, <1>5

\* Measurements, swept, made up or by hand, and the passes on record.
LEMMA RecordStep ==
  ASSUME BenchInv, NEW r \in Results, NEW sim \in BOOLEAN, _record_endpoints(r, sim),
         UNCHANGED <<nudged, file, saving, kept>>, ResultTypes'
  PROVE  BenchInv'
<1>1. CASE UNCHANGED <<live, base>>
  BY <1>1 DEF BenchInv, CopiesSound, Copies, CopiesAlike, SaveSound
<1>2. CASE live # NoCal /\ live' = Measured(live, r, sim) /\ base' = Measured(base, r, sim)
  <2>1. Sound(live') /\ Sound(base') /\ Alike(live', base')
    BY <1>2, TwoCopies, MeasuredSound, MeasuredAlike
  <2> QED
    BY <1>2, <2>1, EditBoth
<1> QED
  BY <1>1, <1>2 DEF _record_endpoints, _live_calibrations

LEMMA PassesStep ==
  ASSUME BenchInv,
         \/ \E r \in Swept, sim \in BOOLEAN : _do_sweep(r, sim)
         \/ _do_man_compute
         \/ _discard
         \/ \E j \in Joints, t \in Travels : _recentre(j, t)
  PROVE  BenchInv'
<1>1. ResultTypes
  BY DEF BenchInv
<1>2. ASSUME NEW r \in Swept, NEW sim \in BOOLEAN, _do_sweep(r, sim) PROVE BenchInv'
  <2>1. r \in Results
    BY BenchAssumption DEF BenchAssumption, Results
  <2>2. rom' \in Results
    BY <1>1, <1>2, <2>1 DEF _do_sweep, ResultTypes, Results
  <2>3. UNCHANGED <<nudged, flipped, hand, pick, file, saving, kept>>
    BY <1>2 DEF _do_sweep, disk
  <2>4. ResultTypes'
    BY <1>1, <2>2, <2>3 DEF ResultTypes
  <2>5. _record_endpoints(rom', sim)
    BY <1>2 DEF _do_sweep
  <2> QED
    BY <2>2, <2>3, <2>4, <2>5, RecordStep
<1>3. CASE _do_man_compute
  <2>1. rom' \in Results
    BY <1>1, <1>3 DEF _do_man_compute, ResultTypes, Results
  <2>2. UNCHANGED <<nudged, flipped, hand, pick, file, saving, kept>>
    BY <1>3 DEF _do_man_compute, disk
  <2>3. ResultTypes'
    BY <1>1, <2>1, <2>2 DEF ResultTypes
  <2>4. _record_endpoints(rom', FALSE)
    BY <1>3 DEF _do_man_compute
  <2> QED
    BY <2>1, <2>2, <2>3, <2>4, RecordStep
<1>4. CASE _discard
  <2> DEFINE j == pick.joint
             i == pick.index
  <2>1. j \in Joints
    BY <1>1 DEF ResultTypes
  <2>2. live # NoCal /\ UNCHANGED <<nudged, flipped, rom, hand, file, saving, kept>>
    BY <1>4 DEF _discard, disk
  <2>3. \/ live' = RemovePass(live, j, i) /\ base' = RemovePass(base, j, i)
        \/ UNCHANGED <<live, base>>
    BY <1>4 DEF _discard, _live_calibrations
  <2>4. Sound(live') /\ Sound(base') /\ Alike(live', base') /\ (live = base => live' = base')
    BY <2>1, <2>2, <2>3, TwoCopies, RemovedSound, RemovedAlike
  <2>5. pick'.joint \in Joints
    BY <1>4, <2>1, <2>4, SelectionTypes DEF _discard
  <2>6. ResultTypes'
    BY <1>1, <2>2, <2>5 DEF ResultTypes
  <2> QED
    BY <2>2, <2>4, <2>6, EditBoth
<1>5. ASSUME NEW j \in Joints, NEW t \in Travels, _recentre(j, t) PROVE BenchInv'
  <2>1. /\ live' = Recentred(live, j, t) /\ base' = Recentred(base, j, t) /\ live # NoCal
        /\ UNCHANGED <<nudged, rom, hand, pick, flipped, file, saving, kept>>
    BY <1>5 DEF _recentre, _live_calibrations, gui, disk
  <2>2. Sound(live') /\ Sound(base') /\ Alike(live', base')
    BY <2>1, TwoCopies, RecentredSound, RecentredAlike
  <2>3. ResultTypes'
    BY <1>1, <2>1 DEF ResultTypes
  <2> QED
    BY <2>1, <2>2, <2>3, EditBoth
<1> QED
  BY <1>2, <1>3, <1>4, <1>5

\* The zeros: a pose, and the sliders.
LEMMA ZeroStep ==
  ASSUME BenchInv,
         \/ \E p \in Poses, spread \in Spreads : _do_rezero(p, spread)
         \/ \E js \in SUBSET Joints : _apply(js)
  PROVE  BenchInv'
<1>1. ASSUME NEW p \in Poses, NEW spread \in Spreads, _do_rezero(p, spread) PROVE BenchInv'
  <2>1. /\ live # NoCal /\ live' = Rezeroed(live, p, spread) /\ base' = live'
        /\ UNCHANGED <<rom, hand, pick, flipped, file, saving, kept>>
    BY <1>1 DEF _do_rezero, disk
  <2>2. Sound(live') /\ Sound(base')
    BY <2>1, TwoCopies, RezeroedSound
  <2>3. live' # NoCal
    BY <2>2, NoCalAssumption DEF NoCalAssumption
  <2>4. CopiesSound'
    BY <2>1, <2>2 DEF BenchInv, CopiesSound, Copies
  <2>5. CopiesAlike'
    BY <2>1, <2>3 DEF CopiesAlike, Alike
  <2> QED
    BY <2>1, <2>3, <2>4, <2>5 DEF BenchInv, ResultTypes, SaveSound
<1>2. ASSUME NEW js \in SUBSET Joints, _apply(js) PROVE BenchInv'
  <2>1. /\ base # NoCal /\ live' = Aligned(base, js) /\ nudged' = js
        /\ UNCHANGED <<base, rom, hand, pick, flipped, file, saving, kept>>
    BY <1>2 DEF _apply, disk
  <2>2. Sound(base)
    BY <2>1 DEF BenchInv, CopiesSound, Copies
  <2>3. Sound(live') /\ Alike(live', base')
    BY <2>1, <2>2, AlignedSound
  <2>4. live' # NoCal
    BY <2>3, NoCalAssumption DEF NoCalAssumption
  <2>5. js = {} => live' = base'
    BY <2>1 DEF Aligned
  <2>6. CopiesSound'
    BY <2>1, <2>3 DEF BenchInv, CopiesSound, Copies
  <2>7. CopiesAlike'
    BY <2>1, <2>3, <2>5 DEF CopiesAlike
  <2> QED
    BY <2>1, <2>4, <2>6, <2>7 DEF BenchInv, ResultTypes, SaveSound
<1> QED
  BY <1>1, <1>2

\* Saving, loading, and what happens beside the dashboard.
LEMMA FileStep ==
  ASSUME BenchInv,
         \/ Save \/ ToolFails \/ _reload \/ _on_tick \/ Restart
         \/ \E r \in Swept, sim \in BOOLEAN : SweepCli(r, sim)
         \/ \E j \in Joints, t \in Travels \cup {None} : RecordByHand(j, t)
         \/ \E j \in Joints : \E o \in _pass_options(live, j) : SelectPass(o)
         \/ UNCHANGED vars
  PROVE  BenchInv'
<1> USE DEF BenchInv, CopiesSound, Copies, CopiesAlike, ResultTypes, SaveSound
<1>1. CASE \/ \E again \in BOOLEAN : SaveBackup(again) \/ SaveRefuses(again)
           \/ SaveWrite \/ SaveFails \/ ToolFails
  BY <1>1 DEF SaveBackup, SaveRefuses, SaveWrite, SaveFails, ToolFails, Keeping, Edit, gui
<1>2. CASE SaveDone
  BY <1>2 DEF SaveDone, Alike
<1>3. CASE _reload
  BY <1>3 DEF _reload, Alike, disk
<1>4. CASE _on_tick
  <2>1. live = NoCal \/ live \in Calibrations
    OBVIOUS
  <2>2. pick'.joint \in Joints
    BY <1>4, <2>1, SelectionTypes DEF _on_tick
  <2> QED
    BY <1>4, <2>2 DEF _on_tick, disk
<1>5. CASE Restart
  <2>1. file = NoCal \/ file \in Calibrations
    OBVIOUS
  <2>2. pick'.joint \in Joints
    BY <1>5, <2>1, FirstPassTypes DEF Restart
  <2>3. rom' \in Results /\ hand' \in Results
    BY <1>5 DEF Restart, Results
  <2> QED
    BY <1>5, <2>2, <2>3 DEF Restart, load_calibration, Alike
<1>6. ASSUME NEW r \in Swept, NEW sim \in BOOLEAN, SweepCli(r, sim) PROVE BenchInv'
  <2>1. /\ file # NoCal /\ file' = _merge_into_existing(file, r, sim) /\ saving = "idle"
        /\ UNCHANGED <<live, base, nudged, rom, hand, pick, flipped, saving>>
    BY <1>6 DEF SweepCli, gui, Edit
  <2>2. r \in Results
    BY BenchAssumption DEF BenchAssumption, Results
  <2> HIDE DEF Sound
  <2>3. Sound(file)
    BY <2>1
  <2>4. Sound(_merge_into_existing(file, r, sim))
    BY <2>2, <2>3, MergedSound
  <2> HIDE DEF CopiesAlike, ResultTypes, SaveSound
  <2>5. Sound(file') /\ file' # NoCal
    BY <2>1, <2>4, NoCalAssumption DEF NoCalAssumption, Sound
  <2> QED
    BY <2>1, <2>5 DEF CopiesAlike, ResultTypes, SaveSound
<1>7. ASSUME NEW j \in Joints, NEW t \in Travels \cup {None}, RecordByHand(j, t) PROVE BenchInv'
  <2>1. hand' \in Results
    BY <1>7 DEF RecordByHand, Results
  <2> QED
    BY <1>7, <2>1 DEF RecordByHand, disk
<1>8. ASSUME NEW j \in Joints, NEW o \in _pass_options(live, j), SelectPass(o) PROVE BenchInv'
  <2>1. o.joint = j
    BY DEF _pass_options
  <2> QED
    BY <1>8, <2>1 DEF SelectPass, disk
<1>9. CASE UNCHANGED vars
  BY <1>9 DEF vars
<1> QED
  BY <1>1, <1>2, <1>3, <1>4, <1>5, <1>6, <1>7, <1>8, <1>9 DEF Save

LEMMA BenchStep == BenchInv /\ [Next]_vars => BenchInv'
<1> SUFFICES ASSUME BenchInv, [Next]_vars PROVE BenchInv'
  OBVIOUS
<1>1. ASSUME NEW r \in Swept, _run_rom_sweep_auto(r) \/ simulate_rom_sweep(r)
      PROVE  \E sim \in BOOLEAN : _do_sweep(r, sim)
  BY <1>1 DEF _run_rom_sweep_auto, simulate_rom_sweep
<1> QED
  BY <1>1, SignsStep, PassesStep, ZeroStep, FileStep DEF Next

\* The invariant holds in every state.
LEMMA BenchAlways == Spec => []BenchInv
BY BenchInit, BenchStep, PTL DEF Spec

-----------------------------------------------------------------------------
(* What follows from it. *)

\* Nothing an operator records is lost to the next slider that moves: the live
\* calibration and the base of the sliders differ in nothing but what sliders
\* change (_live_calibrations of panels/calibration.py).
THEOREM BenchNothingLost == Spec => []NothingLostToSliders
<1>1. BenchInv => NothingLostToSliders
  BY DEF BenchInv, CopiesAlike, Alike, NothingLostToSliders
<1> QED
  BY <1>1, BenchAlways, PTL

\* A calibration that says its signs were checked has the signs that were
\* checked, in the mirror, under the sliders and on disk (_apply_signs).
THEOREM BenchSigns == Spec => []SignsWereChecked
<1>1. BenchInv => SignsWereChecked
  BY DEF BenchInv, CopiesSound, SignsWereChecked
<1> QED
  BY <1>1, BenchAlways, PTL

\* A zero that claims a pose was solved from one under the sign in force, and an
\* accepted pose vouches for every joint it constrains (CalibrationPipeline).
THEOREM BenchPoses == Spec => []PoseVouches
<1>1. BenchInv => PoseVouches
  BY DEF BenchInv, CopiesSound, PoseVouches, report, _reference_result_from_notes
<1> QED
  BY <1>1, BenchAlways, PTL

\* The limit a robot enforces is within the last travel measured, and past what
\* the URDF declares only with the support of every pass (effective_limits).
THEOREM BenchTravel == Spec => []TravelIsLastPass
<1>1. ASSUME BenchInv PROVE TravelIsLastPass
  <2> SUFFICES ASSUME NEW c \in Copies, NEW j \in Joints
               PROVE  /\ c.passes[j] # <<>>
                           => effective_limits(c)[j] <= Last(c.passes[j]).travel
                      /\ effective_limits(c)[j] > Declared => \A i \in DOMAIN c.passes[j] :
                           /\ effective_limits(c)[j] - c.passes[j][i].travel <= c.tol.rom
                           /\ ~c.passes[j][i].simulated
    BY DEF TravelIsLastPass
  <2> DEFINE t == c.travel[j]
             s == c.passes[j]
             e == effective_limits(c)[j]
  <2>1. Sound(c)
    BY <1>1 DEF BenchInv, CopiesSound
  <2>2. t \in Nat /\ Declared \in Nat /\ s \in Seq(Passes)
        /\ (s # <<>> => t = Last(s).travel)
    <3>1. Travels \subseteq Nat /\ Declared \in Nat
      BY BenchAssumption DEF BenchAssumption
    <3>2. t \in Travels /\ s \in Seq(Passes)
      BY <2>1 DEF Calibrations
    <3>3. s # <<>> => t = Last(s).travel
      BY <2>1
    <3> QED
      BY <3>1, <3>2, <3>3
  <2>3. e = IF measured_is_trusted(c) \/ t < Declared THEN t ELSE Declared
    BY DEF effective_limits
  <2>4. s # <<>> => e <= Last(s).travel
    BY <2>2, <2>3
  <2>5. ASSUME e > Declared
        PROVE  \A i \in DOMAIN s : e - s[i].travel <= c.tol.rom /\ ~s[i].simulated
    <3>1. measured_is_trusted(c) /\ e = t
      BY <2>2, <2>3, <2>5
    <3>2. /\ Len(s) >= 2
          /\ \A i \in DOMAIN s : ~s[i].simulated
          /\ \A a, b \in DOMAIN s : s[a].travel - s[b].travel <= c.tol.rom
      BY <3>1 DEF measured_is_trusted, report, _rom_result
    <3>3. Len(s) \in DOMAIN s /\ t = s[Len(s)].travel
      BY <2>2, <3>2 DEF Last
    <3> QED
      BY <3>1, <3>2, <3>3
  <2> HIDE DEF e, s
  <2> QED
    BY <2>4, <2>5 DEF e, s
<1>2. BenchInv => TravelIsLastPass
  BY <1>1
<1> QED
  BY <1>2, BenchAlways, PTL

\* What touches the file and its backups.
LEMMA DiskSteps ==
  ASSUME [Next]_vars
  PROVE  \/ UNCHANGED <<file, kept>> \/ SaveWrite \/ SaveDone \/ ToolFails
         \/ \E again \in BOOLEAN : SaveBackup(again) \/ SaveRefuses(again)
         \/ \E r \in Swept, sim \in BOOLEAN : SweepCli(r, sim)
<1> USE DEF disk
<1>1. CASE \/ \E t \in Tolerances : RecordTolerances(t)
           \/ \E j \in Joints, v \in {"unchecked", "ok", "inverted"} : _apply_signs(j, v)
           \/ ConfirmSigns \/ _withdraw \/ _discard \/ _do_man_compute
           \/ \E j \in Joints, t \in Travels : _recentre(j, t)
           \/ \E p \in Poses, spread \in Spreads : _do_rezero(p, spread)
           \/ \E js \in SUBSET Joints : _apply(js)
           \/ \E r \in Swept : _run_rom_sweep_auto(r) \/ simulate_rom_sweep(r)
  BY <1>1 DEF RecordTolerances, _apply_signs, ConfirmSigns, _withdraw, _discard,
     _do_man_compute, _recentre, _do_rezero, _apply, _run_rom_sweep_auto, simulate_rom_sweep,
     _do_sweep
<1>2. CASE SaveFails \/ _reload \/ _on_tick \/ Restart \/ UNCHANGED vars
  BY <1>2 DEF SaveFails, _reload, _on_tick, Restart, vars
<1>3. CASE \/ \E j \in Joints, t \in Travels \cup {None} : RecordByHand(j, t)
           \/ \E j \in Joints : \E o \in _pass_options(live, j) : SelectPass(o)
  BY <1>3 DEF RecordByHand, SelectPass
<1> QED
  BY <1>1, <1>2, <1>3 DEF Next, Save

\* Only a Save over a file that was cut short, in the second of the backup before,
\* and a tool cut short in its write lose what was last written completely; no other
\* save, whatever fails, and no end of the process does (_do_save).
THEOREM BenchLastCopy == Spec => LastCopyKept
<1> DEFINE Lost == \/ file = NoCal /\ (SaveBackup(TRUE) \/ SaveRefuses(TRUE))
                   \/ ToolFails
<1>1. ASSUME BenchInv, [Next]_vars, Intact PROVE Intact' \/ Lost
  <2> USE DEF Intact
  <2>1. CASE UNCHANGED <<file, kept>>
    BY <1>1, <2>1
  <2>2. CASE SaveWrite
    BY <1>1, <2>2 DEF SaveWrite, BenchInv, SaveSound
  <2>3. CASE SaveDone
    BY <1>1, <2>3 DEF SaveDone, BenchInv, SaveSound
  <2>4. ASSUME NEW again \in BOOLEAN, SaveBackup(again) \/ SaveRefuses(again)
        PROVE  Intact' \/ Lost
    <3>1. CASE again
      BY <1>1, <2>4, <3>1 DEF SaveBackup, SaveRefuses
    <3>2. CASE ~again
      BY <1>1, <2>4, <3>2 DEF SaveBackup, SaveRefuses, Keeping
    <3> QED
      BY <3>1, <3>2
  <2>5. ASSUME NEW r \in Swept, NEW sim \in BOOLEAN, SweepCli(r, sim) PROVE Intact'
    <3>1. file # NoCal /\ file' = _merge_into_existing(file, r, sim)
      BY <2>5 DEF SweepCli
    <3>2. Sound(file) /\ r \in Results
      BY <1>1, <3>1, BenchAssumption DEF BenchInv, CopiesSound, Copies, BenchAssumption, Results
    <3>3. Sound(file')
      BY <3>1, <3>2, MergedSound
    <3> QED
      BY <3>3, NoCalAssumption DEF NoCalAssumption, Sound
  <2> HIDE DEF Intact
  <2>6. \/ UNCHANGED <<file, kept>> \/ SaveWrite \/ SaveDone \/ ToolFails
        \/ \E again \in BOOLEAN : SaveBackup(again) \/ SaveRefuses(again)
        \/ \E r \in Swept, sim \in BOOLEAN : SweepCli(r, sim)
    BY <1>1, DiskSteps
  <2> QED
    BY <2>1, <2>2, <2>3, <2>4, <2>5, <2>6
<1> HIDE DEF Lost
<1>2. BenchInv /\ [Next]_vars => [Intact => Intact' \/ Lost]_vars
  BY <1>1
<1>3. BenchInv /\ [Next]_vars =>
        [Intact => \/ Intact'
                   \/ file = NoCal /\ (SaveBackup(TRUE) \/ SaveRefuses(TRUE))
                   \/ ToolFails]_vars
  BY <1>2 DEF Lost
<1> QED
  BY <1>3, BenchAlways, PTL DEF Spec, LastCopyKept

-----------------------------------------------------------------------------
(* The record of passes: what a step does to it, and how long it is.           *)

\* The passes of every joint are p before and q after.
Kept(p, q) == q = p

Grown(p, q) ==
  \A j \in Joints : \/ q[j] = p[j]
                    \/ Len(p[j]) < MaxPasses /\ \E x \in Passes : q[j] = Append(p[j], x)

\* What is selected is in the record of c, and is removed from it.
Cut(c, p, q) ==
  /\ pick.pass # None /\ pick \in _pass_options(c, pick.joint)
  /\ \A j \in Joints : q[j] = IF j = pick.joint THEN RemoveAt(p[j], pick.index) ELSE p[j]

Short(p) == \A j \in Joints : Len(p[j]) <= MaxPasses

\* A measurement and a re-centring add a pass to a joint at most.
LEMMA MeasuredGrows ==
  ASSUME NEW c, Sound(c), NEW r \in Results, NEW sim \in BOOLEAN
  PROVE  \A j \in Joints : Measured(c, r, sim).passes[j] =
           IF r[j] = None THEN c.passes[j]
           ELSE Append(c.passes[j], [travel |-> r[j], simulated |-> sim])
<1> DEFINE s == [j \in Joints |->
                   IF r[j] = None THEN c.passes[j]
                   ELSE Append(c.passes[j], [travel |-> r[j], simulated |-> sim])]
           t == [j \in Joints |-> IF r[j] = None THEN c.travel[j] ELSE r[j]]
<1>1. Measured(c, r, sim) = [c EXCEPT !.passes = s, !.travel = t]
  BY DEF Measured
<1> HIDE DEF s, t
<1>2. [c EXCEPT !.passes = s, !.travel = t].passes = s
  BY DEF Calibrations
<1> QED
  BY <1>1, <1>2 DEF s

LEMMA RecentredGrows ==
  ASSUME NEW c, Sound(c), NEW j \in Joints, NEW t \in Travels
  PROVE  \A k \in Joints : Recentred(c, j, t).passes[k] =
           IF k = j THEN Append(c.passes[j], [travel |-> t, simulated |-> FALSE])
           ELSE c.passes[k]
<1> DEFINE d == with_travel(rebased_after_offset_change(c, j), j, t)
           x == [travel |-> t, simulated |-> FALSE]
<1>1. d.passes = c.passes /\ DOMAIN d = DOMAIN c
  BY DEF with_travel, rebased_after_offset_change, Calibrations
<1>2. c.passes \in [Joints -> Seq(Passes)] /\ "passes" \in DOMAIN c
  BY DEF Calibrations
<1>3. Recentred(c, j, t) = [d EXCEPT !.passes[j] = Append(@, x)]
  BY DEF Recentred
<1> HIDE DEF d, x
<1>4. Recentred(c, j, t).passes = [c.passes EXCEPT ![j] = Append(c.passes[j], x)]
  BY <1>1, <1>2, <1>3
<1> QED
  BY <1>2, <1>4 DEF x

LEMMA RemovedCuts ==
  ASSUME NEW c, Sound(c), NEW j \in Joints, NEW i \in DOMAIN c.passes[j]
  PROVE  \A k \in Joints : RemovePass(c, j, i).passes[k] =
           IF k = j THEN RemoveAt(c.passes[j], i) ELSE c.passes[k]
<1> DEFINE left == RemoveAt(c.passes[j], i)
           t == IF left = <<>> THEN c.travel[j] ELSE Last(left).travel
           d == [c EXCEPT !.passes[j] = left]
<1>1. RemovePass(c, j, i) = [d EXCEPT !.travel[j] = t]
  BY DEF RemovePass, Calibrations
<1> HIDE DEF left, t
<1>2. c.passes \in [Joints -> Seq(Passes)]
  BY DEF Calibrations
<1>3. [d EXCEPT !.travel[j] = t].passes = d.passes
      /\ d.passes = [c.passes EXCEPT ![j] = left]
  BY DEF Calibrations
<1> QED
  BY <1>1, <1>2, <1>3 DEF left

LEMMA MergedGrows ==
  ASSUME NEW c, Sound(c), NEW r \in Results, NEW sim \in BOOLEAN
  PROVE  \A j \in Joints : _merge_into_existing(c, r, sim).passes[j] =
           IF r[j] = None THEN c.passes[j]
           ELSE Append(c.passes[j], [travel |-> r[j], simulated |-> sim])
BY DEF _merge_into_existing, Calibrations

LEMMA PassesKept ==
  ASSUME NEW c, Sound(c)
  PROVE  /\ \A t \in Tolerances : Tolerated(c, t).passes = c.passes
         /\ mark_validated(c).passes = c.passes
         /\ \A js \in SUBSET Joints :
              /\ Flipped(c, js).passes = c.passes
              /\ Aligned(c, js).passes = c.passes
              /\ with_claim_withdrawn(c, js).passes = c.passes
         /\ \A p \in Poses, spread \in Spreads : Rezeroed(c, p, spread).passes = c.passes
<1>1. \A t \in Tolerances : Tolerated(c, t).passes = c.passes
  BY DEF Tolerated, Calibrations
<1>2. mark_validated(c).passes = c.passes
  BY DEF mark_validated, Calibrations
<1>3. \A js \in SUBSET Joints : Flipped(c, js).passes = c.passes
  BY DEF Flipped, with_direction_flipped, Calibrations
<1>4. \A js \in SUBSET Joints : Aligned(c, js).passes = c.passes
  BY DEF Aligned, shifted_by, Calibrations
<1>5. \A js \in SUBSET Joints : with_claim_withdrawn(c, js).passes = c.passes
  BY DEF with_claim_withdrawn, Calibrations
<1>6. \A p \in Poses, spread \in Spreads : Rezeroed(c, p, spread).passes = c.passes
  BY DEF Rezeroed, rezero_from_pose, Calibrations
<1> QED
  BY <1>1, <1>2, <1>3, <1>4, <1>5, <1>6

\* What the dropdown offers.
LEMMA OptionTypes ==
  ASSUME NEW c, c = NoCal \/ (c \in Calibrations /\ Short(c.passes)),
         NEW j \in Joints, NEW o \in _pass_options(c, j)
  PROVE  /\ o.joint = j /\ o.index \in 0 .. MaxPasses /\ o.pass \in Passes \cup {None}
         /\ o.pass # None => c # NoCal /\ o.index # 0 /\ o.index \in DOMAIN c.passes[j]
<1>0. MaxPasses \in Nat
  BY BenchAssumption DEF BenchAssumption
<1>1. CASE c = NoCal \/ c.passes[j] = <<>>
  <2>1. o = [joint |-> j, index |-> 0, pass |-> None]
    BY <1>1 DEF _pass_options
  <2> QED
    BY <1>0, <2>1
<1>2. CASE ~ (c = NoCal \/ c.passes[j] = <<>>)
  <2>1. PICK i \in DOMAIN c.passes[j] : o = [joint |-> j, index |-> i, pass |-> c.passes[j][i]]
    BY <1>2 DEF _pass_options
  <2>2. c.passes[j] \in Seq(Passes) /\ Len(c.passes[j]) <= MaxPasses
    BY <1>2 DEF Calibrations, Short
  <2>3. c.passes[j][i] \in Passes /\ i \in 1 .. Len(c.passes[j]) /\ Len(c.passes[j]) \in Nat
    BY <2>1, <2>2
  <2> QED
    BY <1>0, <1>2, <2>1, <2>2, <2>3
<1> QED
  BY <1>1, <1>2

\* The bounds of the instance, and what else TypeOK says.
BoundInv ==
  /\ \A c \in Copies : Short(c.passes)
  /\ pick.index \in 0 .. MaxPasses /\ pick.pass \in Passes \cup {None}
  /\ verdict \in [Joints -> {"unchecked", "ok", "inverted"}]
  /\ nudged \subseteq Joints
  /\ saving \in {"idle", "backed", "writing"} /\ kept \in {"newest", "older", "no"}
  /\ edits \in 0 .. MaxEdits

LEMMA RecordGrows ==
  ASSUME BenchInv, NEW r \in Results, NEW sim \in BOOLEAN, _record_endpoints(r, sim)
  PROVE  \/ live' = live /\ base' = base
         \/ live # NoCal /\ live' # NoCal /\ Grown(live.passes, live'.passes)
<1> SUFFICES ASSUME live # NoCal
             PROVE  live' # NoCal /\ Grown(live.passes, live'.passes)
  BY DEF _record_endpoints
<1>1. /\ live' = Measured(live, r, sim)
      /\ \A j \in Joints : r[j] # None => Len(live.passes[j]) < MaxPasses
  BY DEF _record_endpoints, _live_calibrations
<1>2. Sound(live)
  BY TwoCopies
<1>3. live' # NoCal
  <2>1. Sound(Measured(live, r, sim))
    BY <1>2, MeasuredSound
  <2> QED
    BY <1>1, <2>1, NoCalAssumption DEF NoCalAssumption
<1>4. \A j \in Joints : live'.passes[j] =
        IF r[j] = None THEN live.passes[j]
        ELSE Append(live.passes[j], [travel |-> r[j], simulated |-> sim])
  BY <1>1, <1>2, MeasuredGrows
<1>5. \A j \in Joints : r[j] # None => [travel |-> r[j], simulated |-> sim] \in Passes
  BY DEF Results, Passes
<1> QED
  BY <1>1, <1>3, <1>4, <1>5 DEF Grown

\* What a step makes of the passes in the mirror.
LEMMA LiveStep ==
  ASSUME BenchInv, BoundInv, [Next]_vars
  PROVE  \/ live' = live /\ (live = NoCal => base' = base)
         \/ live' = file /\ base' = file
         \/ base # NoCal /\ live'.passes = base.passes /\ UNCHANGED base
         \/ /\ live # NoCal /\ live' # NoCal
            /\ \/ Kept(live.passes, live'.passes)
               \/ Grown(live.passes, live'.passes)
               \/ Cut(live, live.passes, live'.passes)
<1> DEFINE Goal == \/ live' = live /\ (live = NoCal => base' = base)
                   \/ live' = file /\ base' = file
                   \/ base # NoCal /\ live'.passes = base.passes /\ UNCHANGED base
                   \/ /\ live # NoCal /\ live' # NoCal
                      /\ \/ Kept(live.passes, live'.passes)
                         \/ Grown(live.passes, live'.passes)
                         \/ Cut(live, live.passes, live'.passes)
<1>1. BenchInv'
  BY BenchStep
<1>2. ASSUME live # NoCal, NEW c, Sound(c), live' = c, c.passes = live.passes PROVE Goal
  <2>1. live' # NoCal
    BY <1>2, NoCalAssumption DEF NoCalAssumption
  <2> QED
    BY <1>2, <2>1 DEF Kept
<1>3. live # NoCal => Sound(live)
  BY TwoCopies
<1>4. ASSUME NEW t \in Tolerances, RecordTolerances(t) PROVE Goal
  BY <1>2, <1>3, <1>4, ToleratedSound, PassesKept DEF RecordTolerances, _live_calibrations
<1>5. ASSUME NEW j \in Joints, NEW v, _apply_signs(j, v) PROVE Goal
  <2> DEFINE want == {k \in Joints : verdict'[k] = "inverted"}
             delta == (want \ flipped) \cup (flipped \ want)
  <2>1. (live' = live /\ base' = base) \/ (live # NoCal /\ live' = Flipped(live, delta))
    BY <1>5 DEF _apply_signs, _live_calibrations
  <2>2. delta \in SUBSET Joints
    BY DEF BenchInv, ResultTypes
  <2> HIDE DEF delta
  <2> QED
    BY <1>2, <1>3, <2>1, <2>2, FlippedSound, PassesKept
<1>6. ASSUME ConfirmSigns PROVE Goal
  BY <1>2, <1>3, <1>6, CheckedSound, PassesKept DEF ConfirmSigns, _live_calibrations
<1>7. ASSUME _withdraw PROVE Goal
  <2> DEFINE js == _unsupported_pose_claims(live)
  <2>1. live # NoCal /\ live' = with_claim_withdrawn(live, js)
    BY <1>7 DEF _withdraw, _live_calibrations
  <2>2. js \in SUBSET Joints
    BY DEF _unsupported_pose_claims
  <2> HIDE DEF js
  <2> QED
    BY <1>2, <1>3, <2>1, <2>2, WithdrawnSound, PassesKept
<1>8. ASSUME NEW r \in Swept, NEW sim \in BOOLEAN, _do_sweep(r, sim) PROVE Goal
  <2>1. rom \in Results /\ r \in Results
    BY BenchAssumption DEF BenchAssumption, Results, BenchInv, ResultTypes
  <2>2. rom' \in Results /\ _record_endpoints(rom', sim)
    BY <1>8, <2>1 DEF _do_sweep, Results
  <2> QED
    BY <2>2, RecordGrows
<1>9. ASSUME _do_man_compute PROVE Goal
  <2>1. rom' \in Results /\ _record_endpoints(rom', FALSE)
    BY <1>9 DEF _do_man_compute, Results, BenchInv, ResultTypes
  <2> QED
    BY <2>1, RecordGrows
<1>10. ASSUME _discard PROVE Goal
  <2>1. live # NoCal /\ pick.pass # None
    BY <1>10 DEF _discard
  <2>2. CASE pick \in _pass_options(live, pick.joint)
    <3>1. live' = RemovePass(live, pick.joint, pick.index)
      BY <1>10, <2>2 DEF _discard, _live_calibrations
    <3>2. pick.joint \in Joints /\ Sound(live) /\ Short(live.passes)
      BY <1>3, <2>1 DEF BenchInv, ResultTypes, BoundInv, Copies
    <3>3. pick.index \in DOMAIN live.passes[pick.joint]
      BY <2>1, <2>2, <3>2, OptionTypes
    <3>4. Cut(live, live.passes, live'.passes)
      BY <2>1, <2>2, <3>1, <3>2, <3>3, RemovedCuts DEF Cut
    <3>5. Sound(live')
      BY <3>1, <3>2, RemovedSound
    <3> QED
      BY <2>1, <3>4, <3>5, NoCalAssumption DEF NoCalAssumption
  <2>3. CASE pick \notin _pass_options(live, pick.joint)
    BY <1>10, <2>3 DEF _discard
  <2> QED
    BY <2>2, <2>3
<1>11. ASSUME NEW j \in Joints, NEW t \in Travels, _recentre(j, t) PROVE Goal
  <2>1. live # NoCal /\ live' = Recentred(live, j, t) /\ Len(live.passes[j]) < MaxPasses
    BY <1>11 DEF _recentre, _live_calibrations
  <2>2. Sound(live')
    BY <1>3, <2>1, RecentredSound
  <2>3. [travel |-> t, simulated |-> FALSE] \in Passes
    BY DEF Passes
  <2>4. Grown(live.passes, live'.passes)
    <3>1. \A k \in Joints : live'.passes[k] =
            IF k = j THEN Append(live.passes[j], [travel |-> t, simulated |-> FALSE])
            ELSE live.passes[k]
      BY <1>3, <2>1, RecentredGrows
    <3> HIDE DEF Sound
    <3> QED
      BY <2>1, <2>3, <3>1 DEF Grown
  <2> QED
    BY <2>1, <2>2, <2>4, NoCalAssumption DEF NoCalAssumption
<1>12. ASSUME NEW p \in Poses, NEW spread \in Spreads, _do_rezero(p, spread) PROVE Goal
  BY <1>2, <1>3, <1>12, RezeroedSound, PassesKept DEF _do_rezero
<1>13. ASSUME NEW js \in SUBSET Joints, _apply(js) PROVE Goal
  <2>1. base # NoCal /\ live' = Aligned(base, js) /\ UNCHANGED base
    BY <1>13 DEF _apply
  <2>2. Sound(base)
    BY <2>1 DEF BenchInv, CopiesSound, Copies
  <2> QED
    BY <2>1, <2>2, PassesKept
<1>14. ASSUME Save \/ ToolFails \/ _reload \/ _on_tick \/ Restart \/ UNCHANGED vars PROVE Goal
  <2>1. saving # "idle" => live # NoCal
    BY DEF BenchInv, SaveSound
  <2> QED
    BY <1>14, <2>1 DEF Save, SaveBackup, SaveRefuses, ToolFails, SaveWrite, SaveDone,
                       SaveFails, _reload, _on_tick,
                       Restart, load_calibration, vars
<1>15. ASSUME \/ \E r \in Swept, sim \in BOOLEAN : SweepCli(r, sim)
              \/ \E j \in Joints, t \in Travels \cup {None} : RecordByHand(j, t)
              \/ \E j \in Joints : \E o \in _pass_options(live, j) : SelectPass(o)
       PROVE  Goal
  BY <1>15 DEF SweepCli, RecordByHand, SelectPass, gui
<1>16. ASSUME NEW r \in Swept, _run_rom_sweep_auto(r) \/ simulate_rom_sweep(r) PROVE Goal
  BY <1>8, <1>16 DEF _run_rom_sweep_auto, simulate_rom_sweep
<1> HIDE DEF Goal
<1>17. Goal
  <2>1. CASE Next
    BY <1>4, <1>5, <1>6, <1>7, <1>9, <1>10, <1>11, <1>12, <1>13, <1>14, <1>15, <1>16, <2>1
       DEF Next
  <2>2. CASE UNCHANGED vars
    BY <1>14, <2>2
  <2> QED
    BY <2>1, <2>2
<1> QED
  BY <1>17 DEF Goal

LEMMA RemovedLength ==
  ASSUME NEW s \in Seq(Passes), NEW i \in DOMAIN s
  PROVE  Len(RemoveAt(s, i)) = Len(s) - 1
<1>1. i \in 1 .. Len(s) /\ Len(s) \in Nat
  OBVIOUS
<1>2. SubSeq(s, 1, i - 1) \in Seq(Passes) /\ Len(SubSeq(s, 1, i - 1)) = i - 1
  BY <1>1, SubSeqProperties
<1>3. SubSeq(s, i + 1, Len(s)) \in Seq(Passes) /\ Len(SubSeq(s, i + 1, Len(s))) = Len(s) - i
  BY <1>1, SubSeqProperties
<1>4. Len(RemoveAt(s, i)) = (i - 1) + (Len(s) - i)
  BY <1>2, <1>3, ConcatProperties DEF RemoveAt
<1> QED
  BY <1>1, <1>4

LEMMA FileChanges ==
  ASSUME [Next]_vars
  PROVE  \/ file' = file \/ file' = live \/ file' = NoCal
         \/ \E r \in Swept, sim \in BOOLEAN : SweepCli(r, sim)
<1> USE DEF disk
<1>1. CASE \/ \E t \in Tolerances : RecordTolerances(t)
           \/ \E j \in Joints, v \in {"unchecked", "ok", "inverted"} : _apply_signs(j, v)
           \/ ConfirmSigns \/ _withdraw \/ _discard \/ _do_man_compute
           \/ \E j \in Joints, t \in Travels : _recentre(j, t)
           \/ \E p \in Poses, spread \in Spreads : _do_rezero(p, spread)
           \/ \E js \in SUBSET Joints : _apply(js)
           \/ \E r \in Swept : _run_rom_sweep_auto(r) \/ simulate_rom_sweep(r)
  BY <1>1 DEF RecordTolerances, _apply_signs, ConfirmSigns, _withdraw, _discard,
     _do_man_compute, _recentre, _do_rezero, _apply, _run_rom_sweep_auto, simulate_rom_sweep,
     _do_sweep
<1>2. CASE Save \/ ToolFails \/ _reload \/ _on_tick \/ Restart \/ UNCHANGED vars
  BY <1>2 DEF Save, SaveBackup, SaveRefuses, ToolFails, SaveWrite, SaveDone, SaveFails,
     _reload, _on_tick, Restart, vars
<1>3. CASE \/ \E j \in Joints, t \in Travels \cup {None} : RecordByHand(j, t)
           \/ \E j \in Joints : \E o \in _pass_options(live, j) : SelectPass(o)
  BY <1>3 DEF RecordByHand, SelectPass
<1> QED
  BY <1>1, <1>2, <1>3 DEF Next

\* No record is longer than the bound, whatever is copied where.
LEMMA ShortStep ==
  ASSUME BenchInv, BoundInv, [Next]_vars
  PROVE  \A c \in Copies' : Short(c.passes)
<1> USE DEF Copies
<1>0. \A c \in {live, base, file} : c # NoCal => Short(c.passes)
  BY DEF BoundInv
<1>1. BenchInv'
  BY BenchStep
<1>2. live # NoCal => base # NoCal /\ base.passes = live.passes
  BY DEF BenchInv, CopiesAlike, Alike
<1>3. live' # NoCal => Short(live'.passes)
  <2> SUFFICES ASSUME live' # NoCal PROVE Short(live'.passes)
    OBVIOUS
  <2>1. CASE live # NoCal /\ Grown(live.passes, live'.passes)
    <3>1. Sound(live)
      BY <2>1, TwoCopies
    <3>2. ASSUME NEW j \in Joints PROVE Len(live'.passes[j]) <= MaxPasses
      <4>1. live.passes[j] \in Seq(Passes) /\ Len(live.passes[j]) <= MaxPasses
        BY <1>0, <2>1, <3>1 DEF Calibrations, Short
      <4>2. \A x \in Passes : Len(Append(live.passes[j], x)) = Len(live.passes[j]) + 1
        BY <4>1
      <4>3. Len(live.passes[j]) \in Nat /\ MaxPasses \in Nat
        BY <4>1, BenchAssumption DEF BenchAssumption
      <4> QED
        BY <2>1, <4>1, <4>2, <4>3 DEF Grown
    <3> QED
      BY <3>2 DEF Short
  <2>2. CASE live # NoCal /\ Cut(live, live.passes, live'.passes)
    <3>1. Sound(live) /\ pick.joint \in Joints /\ Short(live.passes)
      BY <1>0, <2>2, TwoCopies DEF BenchInv, ResultTypes
    <3>2. pick.index \in DOMAIN live.passes[pick.joint]
      BY <2>2, <3>1, OptionTypes DEF Cut
    <3>3. ASSUME NEW j \in Joints PROVE Len(live'.passes[j]) <= MaxPasses
      <4>1. live.passes[j] \in Seq(Passes) /\ Len(live.passes[j]) <= MaxPasses
        BY <3>1 DEF Calibrations, Short
      <4>2. CASE j = pick.joint
        <5>1. Len(RemoveAt(live.passes[j], pick.index)) = Len(live.passes[j]) - 1
          BY <3>2, <4>1, <4>2, RemovedLength
        <5>2. Len(live.passes[j]) \in Nat /\ MaxPasses \in Nat
          BY <4>1, BenchAssumption DEF BenchAssumption
        <5> QED
          BY <2>2, <4>1, <4>2, <5>1, <5>2 DEF Cut
      <4>3. CASE j # pick.joint
        BY <2>2, <4>1, <4>3 DEF Cut
      <4> QED
        BY <4>2, <4>3
    <3> QED
      BY <3>3 DEF Short
  <2>3. CASE \/ live' = live \/ live' = file
             \/ base # NoCal /\ live'.passes = base.passes
             \/ live # NoCal /\ Kept(live.passes, live'.passes)
    BY <1>0, <2>3 DEF Kept
  <2> QED
    BY <2>1, <2>2, <2>3, LiveStep
<1>4. base' # NoCal => Short(base'.passes)
  <2>1. CASE live' # NoCal
    BY <1>1, <1>3, <2>1 DEF BenchInv, CopiesAlike, Alike
  <2>2. CASE live' = NoCal
    <3>1. base' = base \/ base' = file
      BY <2>2, LiveStep
    <3> QED
      BY <1>0, <3>1
  <2> QED
    BY <2>1, <2>2
<1>5. file' # NoCal => Short(file'.passes)
  <2>1. ASSUME NEW r \in Swept, NEW sim \in BOOLEAN, SweepCli(r, sim)
        PROVE  file' # NoCal => Short(file'.passes)
    <3>1. /\ file # NoCal /\ file' = _merge_into_existing(file, r, sim)
          /\ \A j \in Joints : Len(file.passes[j]) < MaxPasses
      BY <2>1 DEF SweepCli
    <3>2. Sound(file) /\ r \in Results
      BY <3>1, BenchAssumption DEF BenchInv, CopiesSound, BenchAssumption, Results
    <3>3. \A j \in Joints : file'.passes[j] =
            IF r[j] = None THEN file.passes[j]
            ELSE Append(file.passes[j], [travel |-> r[j], simulated |-> sim])
      BY <3>1, <3>2, MergedGrows
    <3>4. ASSUME NEW j \in Joints PROVE Len(file'.passes[j]) <= MaxPasses
      <4>1. file.passes[j] \in Seq(Passes) /\ MaxPasses \in Nat
        BY <3>2, BenchAssumption DEF BenchAssumption, Calibrations
      <4>2. PICK s \in Seq(Passes) : s = file.passes[j] /\ Len(s) < MaxPasses
        BY <3>1, <4>1
      <4>3. file'.passes[j] = s \/ \E x : file'.passes[j] = Append(s, x)
        BY <3>3, <4>2
      <4>4. Len(s) \in Nat /\ \A x : Len(Append(s, x)) = Len(s) + 1
        BY <4>2
      <4> QED
        BY ONLY <4>1, <4>2, <4>3, <4>4
    <3> QED
      BY <3>4 DEF Short
  <2>2. CASE file' = file \/ file' = live \/ file' = NoCal
    BY <1>0, <2>2
  <2>3. \/ file' = file \/ file' = live \/ file' = NoCal
        \/ \E r \in Swept, sim \in BOOLEAN : SweepCli(r, sim)
    BY FileChanges
  <2> QED
    BY <2>1, <2>2, <2>3
<1> QED
  BY <1>3, <1>4, <1>5

\* The selection is one that was offered.
LEMMA PickStep ==
  ASSUME BenchInv, [Next]_vars
  PROVE  \/ pick' = pick
         \/ \E j \in Joints : pick' \in _pass_options(live, j) \/ pick' \in _pass_options(live', j)
<1>1. /\ pick.joint \in Joints /\ (live = NoCal \/ live \in Calibrations)
      /\ (live' = NoCal \/ live' \in Calibrations)
  <2>1. BenchInv'
    BY BenchStep
  <2> QED
    BY <2>1 DEF BenchInv, ResultTypes, CopiesSound, Copies
<1>2. Refreshed(live, pick) \in _pass_options(live, pick.joint)
  BY <1>1, RefreshedOffered
<1>3. PICK c : c = live'
  OBVIOUS
<1>4. Refreshed(c, pick) \in _pass_options(c, pick.joint)
  BY <1>1, <1>3, RefreshedOffered
<1> USE DEF gui, disk
<1>5. CASE \/ \E t \in Tolerances : RecordTolerances(t)
           \/ \E j \in Joints, v \in {"unchecked", "ok", "inverted"} : _apply_signs(j, v)
           \/ ConfirmSigns \/ _withdraw \/ _do_man_compute
           \/ \E j \in Joints, t \in Travels : _recentre(j, t)
           \/ \E p \in Poses, spread \in Spreads : _do_rezero(p, spread)
           \/ \E js \in SUBSET Joints : _apply(js)
           \/ \E r \in Swept : _run_rom_sweep_auto(r) \/ simulate_rom_sweep(r)
  BY <1>5 DEF RecordTolerances, _apply_signs, ConfirmSigns, _withdraw,
     _do_man_compute, _recentre, _do_rezero, _apply, _run_rom_sweep_auto, simulate_rom_sweep,
     _do_sweep
<1>6. CASE \/ Save \/ ToolFails \/ _reload \/ UNCHANGED vars
           \/ \E r \in Swept, sim \in BOOLEAN : SweepCli(r, sim)
           \/ \E j \in Joints, t \in Travels \cup {None} : RecordByHand(j, t)
           \/ \E j \in Joints : \E o \in _pass_options(live, j) : SelectPass(o)
  BY <1>6 DEF Save, SaveBackup, SaveRefuses, ToolFails, SaveWrite, SaveDone, SaveFails,
     _reload, vars, SweepCli,
     RecordByHand, SelectPass
<1>7. CASE _discard \/ _on_tick
  BY <1>1, <1>2, <1>3, <1>4, <1>7 DEF _discard, _on_tick
<1>8. CASE Restart
  <2> DEFINE p == [joint |-> CHOOSE j \in Joints : TRUE, index |-> 0, pass |-> None]
  <2>1. p.joint \in Joints
    BY BenchAssumption DEF BenchAssumption
  <2>2. pick' = Refreshed(c, p)
    BY <1>3, <1>8 DEF Restart, load_calibration, FirstPass
  <2> HIDE DEF p
  <2>3. Refreshed(c, p) \in _pass_options(c, p.joint)
    BY <1>1, <1>3, <2>1, RefreshedOffered
  <2> QED
    BY <1>3, <2>1, <2>2, <2>3
<1> QED
  BY <1>5, <1>6, <1>7, <1>8 DEF Next

LEMMA BoundStep ==
  ASSUME BenchInv, BoundInv, [Next]_vars
  PROVE  BoundInv'
<1>1. \A c \in Copies' : Short(c.passes)
  BY ShortStep
<1>2. pick'.index \in 0 .. MaxPasses /\ pick'.pass \in Passes \cup {None}
  <2>1. /\ live = NoCal \/ (live \in Calibrations /\ Short(live.passes))
        /\ live' = NoCal \/ (live' \in Calibrations /\ Short(live'.passes))
    <3>1. BenchInv'
      BY BenchStep
    <3> QED
      BY <1>1, <3>1 DEF BenchInv, BoundInv, CopiesSound, Copies
  <2>2. CASE pick' = pick
    BY <2>2 DEF BoundInv
  <2>3. ASSUME NEW j \in Joints,
               pick' \in _pass_options(live, j) \/ pick' \in _pass_options(live', j)
        PROVE  pick'.index \in 0 .. MaxPasses /\ pick'.pass \in Passes \cup {None}
    <3>1. PICK c, o : o = pick' /\ o \in _pass_options(c, j)
                      /\ (c = NoCal \/ (c \in Calibrations /\ Short(c.passes)))
      BY <2>1, <2>3
    <3>2. o.index \in 0 .. MaxPasses /\ o.pass \in Passes \cup {None}
      BY <3>1, OptionTypes
    <3> QED
      BY <3>1, <3>2
  <2> QED
    BY <2>2, <2>3, PickStep
<1>3. /\ verdict' \in [Joints -> {"unchecked", "ok", "inverted"}] /\ nudged' \subseteq Joints
      /\ saving' \in {"idle", "backed", "writing"} /\ kept' \in {"newest", "older", "no"}
      /\ edits' \in 0 .. MaxEdits
  <2>1. /\ verdict \in [Joints -> {"unchecked", "ok", "inverted"}] /\ nudged \subseteq Joints
        /\ saving \in {"idle", "backed", "writing"} /\ kept \in {"newest", "older", "no"}
        /\ edits \in 0 .. MaxEdits /\ MaxEdits \in Nat
    BY BenchAssumption DEF BoundInv, BenchAssumption
  <2>2. Edit => edits' \in 0 .. MaxEdits
    BY <2>1 DEF Edit
  <2> USE DEF gui, disk
  <2>3. CASE \/ \E t \in Tolerances : RecordTolerances(t)
             \/ ConfirmSigns \/ _withdraw \/ _do_man_compute \/ _discard
             \/ \E j \in Joints, t \in Travels : _recentre(j, t)
             \/ \E p \in Poses, spread \in Spreads : _do_rezero(p, spread)
             \/ \E js \in SUBSET Joints : _apply(js)
             \/ \E r \in Swept : _run_rom_sweep_auto(r) \/ simulate_rom_sweep(r)
             \/ \E j \in Joints, t \in Travels \cup {None} : RecordByHand(j, t)
             \/ \E j \in Joints : \E o \in _pass_options(live, j) : SelectPass(o)
    <3>1. Edit /\ UNCHANGED <<verdict, saving, kept>> /\ nudged' \subseteq Joints
      BY <2>1, <2>3 DEF RecordTolerances, ConfirmSigns, _withdraw, _do_man_compute, _discard,
         _recentre, _do_rezero, _apply, _run_rom_sweep_auto, simulate_rom_sweep, _do_sweep,
         RecordByHand, SelectPass
    <3> QED
      BY <2>1, <2>2, <3>1
  <2>4. ASSUME NEW j \in Joints, NEW v \in {"unchecked", "ok", "inverted"}, _apply_signs(j, v)
        PROVE  /\ verdict' \in [Joints -> {"unchecked", "ok", "inverted"}]
               /\ UNCHANGED <<saving, kept, nudged>> /\ edits' \in 0 .. MaxEdits
    BY <2>1, <2>2, <2>4 DEF _apply_signs
  <2>5. CASE Save \/ ToolFails \/ _reload \/ _on_tick \/ UNCHANGED vars
    <3>1. \A whole, again \in BOOLEAN : Keeping(whole, again) \in {"newest", "older", "no"}
      BY <2>1 DEF Keeping
    <3>2. CASE \E again \in BOOLEAN : SaveBackup(again) \/ SaveRefuses(again)
      BY <2>1, <3>1, <3>2 DEF SaveBackup, SaveRefuses
    <3>3. CASE ToolFails
      BY <2>1, <2>2, <3>3 DEF ToolFails
    <3>4. CASE SaveWrite \/ SaveDone \/ SaveFails \/ _reload \/ _on_tick \/ UNCHANGED vars
      BY <2>1, <2>2, <3>4 DEF SaveWrite, SaveDone, SaveFails, _reload, _on_tick, vars
    <3> QED
      BY <2>5, <3>2, <3>3, <3>4 DEF Save
  <2>6. ASSUME NEW r \in Swept, NEW sim \in BOOLEAN, SweepCli(r, sim)
        PROVE  /\ UNCHANGED <<verdict, saving, nudged>> /\ kept' \in {"newest", "older", "no"}
               /\ edits' \in 0 .. MaxEdits
    BY <2>1, <2>2, <2>6 DEF SweepCli
  <2>7. CASE Restart
    BY <2>1, <2>7 DEF Restart
  <2> QED
    BY <2>1, <2>3, <2>4, <2>5, <2>6, <2>7 DEF Next
<1> QED
  BY <1>1, <1>2, <1>3 DEF BoundInv

LEMMA BoundInit == Init => BoundInv
<1> SUFFICES ASSUME Init PROVE BoundInv
  OBVIOUS
<1>1. PICK t \in Travels : file = Seeded(t) /\ live = file /\ base = file
  BY DEF Init
<1>2. Sound(file) /\ file # NoCal
  BY <1>1, SeededSound, NoCalAssumption DEF NoCalAssumption
<1>3. Short(file.passes)
  <2>1. \A j \in Joints : Len(file.passes[j]) = 1
    BY <1>1 DEF Seeded
  <2> QED
    <3>1. MaxPasses \in Nat /\ 1 <= MaxPasses
      BY BenchAssumption DEF BenchAssumption
    <3> QED
      BY ONLY <2>1, <3>1 DEF Short
<1>4. pick.index \in 0 .. MaxPasses /\ pick.pass \in Passes \cup {None}
  <2> DEFINE p == [joint |-> CHOOSE j \in Joints : TRUE, index |-> 0, pass |-> None]
  <2>1. p.joint \in Joints
    BY BenchAssumption DEF BenchAssumption
  <2>2. pick = Refreshed(file, p)
    BY DEF Init, FirstPass
  <2> HIDE DEF p
  <2>3. Refreshed(file, p) \in _pass_options(file, p.joint)
    BY <1>2, <2>1, RefreshedOffered
  <2> QED
    BY <1>2, <1>3, <2>1, <2>2, <2>3, OptionTypes
<1>5. /\ verdict \in [Joints -> {"unchecked", "ok", "inverted"}] /\ nudged = {}
      /\ saving = "idle" /\ kept = "no"
  BY DEF Init
<1>6. edits \in 0 .. MaxEdits
  BY BenchAssumption DEF Init, BenchAssumption
<1>7. \A c \in Copies : c = file
  BY <1>1 DEF Copies
<1> QED
  BY <1>3, <1>4, <1>5, <1>6, <1>7 DEF BoundInv

LEMMA BoundAlways == Spec => []BoundInv
BY BoundInit, BoundStep, BenchAlways, PTL DEF Spec

\* Every copy of the calibration, and all that the handlers keep, has its type: no
\* joint has more passes on record than there may be, and the dropdown never points
\* past them (_refresh).
THEOREM BenchTypes == Spec => []TypeOK
<1>1. BenchInv /\ BoundInv => TypeOK
  BY DEF BenchInv, CopiesSound, ResultTypes, Results, BoundInv, Short, TypeOK
<1> QED
  BY <1>1, BenchAlways, BoundAlways, PTL

\* What a step does to the passes of a joint the mirror still holds.
LEMMA DiscardStep ==
  ASSUME BenchInv, BoundInv, [Next]_vars, NEW j \in Joints,
         live # NoCal, live' # NoCal, live' # file, live'.passes[j] # live.passes[j]
  PROVE  \/ IsPrefix(live.passes[j], live'.passes[j])
         \/ /\ pick.index # 0 /\ pick \in _pass_options(live, j)
            /\ live'.passes[j] = RemoveAt(live.passes[j], pick.index)
<1>1. Sound(live) /\ base.passes = live.passes /\ Short(live.passes) /\ pick.joint \in Joints
  BY TwoCopies DEF Alike, BoundInv, Copies, BenchInv, ResultTypes
<1>2. CASE Grown(live.passes, live'.passes)
  <2>1. PICK s \in Seq(Passes) : s = live.passes[j]
    BY <1>1 DEF Calibrations
  <2>2. PICK x \in Passes : live'.passes[j] = Append(s, x)
    BY <1>2, <2>1 DEF Grown
  <2>3. PICK a : a = Append(s, x)
    OBVIOUS
  <2>4. /\ Len(s) \in Nat /\ a \in Seq(Passes) /\ Len(a) = Len(s) + 1
        /\ \A i \in 1 .. Len(s) : a[i] = s[i]
    BY <2>3
  <2>5. SubSeq(s, 1, Len(s)) = SubSeq(a, 1, Len(s))
    BY <2>4
  <2> QED
    BY <2>1, <2>2, <2>3, <2>4, <2>5 DEF IsPrefix
<1>3. CASE Cut(live, live.passes, live'.passes)
  <2>1. j = pick.joint
    BY <1>3 DEF Cut
  <2>2. pick.index # 0
    BY <1>1, <1>3, OptionTypes DEF Cut
  <2> QED
    BY <1>3, <2>1, <2>2 DEF Cut
<1> QED
  BY <1>1, <1>2, <1>3, LiveStep DEF Kept

\* A step that changes the passes of a joint, other than by loading or leaving the file,
\* adds passes behind the recorded ones or takes out exactly the pass that is selected and
\* still offered under the label it was selected by (_discard).
THEOREM BenchDiscards == Spec => DiscardsWhatWasShown
<1>1. BenchInv /\ BoundInv /\ [Next]_vars =>
        [\A j \in Joints :
           live # NoCal /\ live' \notin {NoCal, file} /\ live'.passes[j] # live.passes[j]
             => \/ IsPrefix(live.passes[j], live'.passes[j])
                \/ /\ pick.index # 0 /\ pick \in _pass_options(live, j)
                   /\ live'.passes[j] = RemoveAt(live.passes[j], pick.index)]_vars
  BY DiscardStep
<1> QED
  BY <1>1, BenchAlways, BoundAlways, PTL DEF Spec, DiscardsWhatWasShown
=============================================================================
