--------------------------- MODULE CalibrationBench ---------------------------
(***************************************************************************)
(* The calibration tabs of the dashboard (dashboard/panels/calibration.py  *)
(* and the homing controls of panels/setup.py) over one arm's calibration  *)
(* file (calibration/frame.py) and the policy that accepts it              *)
(* (calibration/pipeline.py).                                              *)
(*                                                                         *)
(* Three copies of the calibration exist at once: the live one the 3-D     *)
(* mirror renders, the base the alignment sliders are applied to, and the  *)
(* file.  Handlers of the GUI run one after the other on the callback      *)
(* thread; the main loop's tick, a failing disk and a restart come between *)
(* them.                                                                   *)
(*                                                                         *)
(* A zero is not a number here but a statement of where it came from: the  *)
(* zero_source the code records, and beside it the ghost pin: the zero and *)
(* the sign are those solved from a pose ("held"), or were before the      *)
(* homing offset moved ("carried"), or come from a sweep ("swept"), or     *)
(* were changed by hand since ("no").                                      *)
(***************************************************************************)
EXTENDS Integers, Sequences, SequencesExt, FiniteSets

CONSTANTS
  Joints,        \* the joints of the arm
  Poses,         \* the reference poses the dashboard offers
  Covers,        \* the joints each pose constrains
  Travels,       \* travels that can be measured, by their end point
  Declared,      \* the end point the URDF declares for every joint
  Swept,         \* what one sweep of some joints measures
  Tolerances,    \* tolerances an operator may record
  Spreads,       \* how far the arm may move while a pose is sampled, settled
  Failures,      \* what may go wrong: "disk", "restart"
  NoCal,         \* no calibration loaded; as a file, one that cannot be read
  NoPose,        \* no pose recorded
  None,          \* nothing measured, or no tolerances recorded
  MaxPasses,     \* bound: recorded passes per joint
  MaxEdits       \* bound: edits of the operator

\* Tolerances the policy takes: all are positive.
AcceptanceTolerances == [pose : Nat \ {0}, rom : Nat \ {0}]

ASSUME BenchAssumption ==
  /\ Joints # {}
  /\ Covers \in [Poses -> SUBSET Joints]
  /\ NoPose \notin Poses
  /\ Travels \subseteq Nat /\ Declared \in Nat /\ Spreads \subseteq Nat
  /\ Swept \subseteq [Joints -> Travels \cup {None}]
  /\ \A r \in Swept : \E j \in Joints : r[j] # None
  /\ Tolerances \subseteq AcceptanceTolerances
  /\ None \notin Travels /\ None \notin Tolerances
  /\ MaxPasses \in Nat \ {0} /\ MaxEdits \in Nat
  /\ Failures \subseteq {"disk", "restart"}

VARIABLES
  live,      \* ctx.calibration, what the mirror shows
  base,      \* handles["nudge_base"], what the sliders start from
  file,      \* the calibration on disk
  nudged,    \* joints whose alignment slider is off zero
  verdict,   \* the direction dropdown of each joint
  flipped,   \* handles["signs_flipped"]
  rom,       \* rom_results: the last measurement of each joint
  hand,      \* man_positions: the limits recorded by hand
  pick,      \* the pass selected in the discard dropdown, with its label
  saving,    \* where the Save handler is: "idle", "backed", "writing"
  kept,      \* ghost: the backup that holds what was last written completely:
             \* "newest", an "older" one, "no" backup
  edits      \* how many edits the operator made

vars == <<live, base, file, nudged, verdict, flipped, rom, hand, pick,
          saving, kept, edits>>

gui == <<nudged, verdict, flipped, rom, hand, pick>>
disk == <<file, saving, kept>>

-----------------------------------------------------------------------------
(* Calibrations. *)

Sources == {"travel", "reference_pose", "manual_nudge", "manual_sign_flip",
            "rebased", "unknown"}

Passes == [travel : Travels, simulated : BOOLEAN]

Calibrations ==
  [sign : [Joints -> {-1, 1}],
   src : [Joints -> Sources],
   pin : [Joints -> {"no", "held", "carried", "swept"}],
   travel : [Joints -> Travels],
   passes : [Joints -> Seq(Passes)],
   validated : BOOLEAN,
   checked : [Joints -> {-1, 0, 1}],
   tol : Tolerances \cup {None},
   pose : Poses \cup {NoPose},
   spread : Spreads \cup {0},
   dry : BOOLEAN]

\* A file that cannot be read is no calibration.
ASSUME NoCalAssumption == NoCal \notin Calibrations

\* A calibration seeded from one sweep: signs assumed, nothing accepted.
Seeded(t) ==
  [sign |-> [j \in Joints |-> 1], src |-> [j \in Joints |-> "travel"],
   pin |-> [j \in Joints |-> "swept"], travel |-> [j \in Joints |-> t],
   passes |-> [j \in Joints |-> <<[travel |-> t, simulated |-> FALSE]>>],
   validated |-> FALSE, checked |-> [j \in Joints |-> 0],
   tol |-> None, pose |-> NoPose, spread |-> 0, dry |-> FALSE]

\* The zero moves by what a slider says; the pose no longer vouches for it.
shifted_by(c, js) ==
  [c EXCEPT !.src = [j \in Joints |-> IF j \in js THEN "manual_nudge" ELSE @[j]],
            !.pin = [j \in Joints |-> IF j \in js THEN "no" ELSE @[j]]]

\* Mutant: the sign is toggled as a bit.
with_direction_flippedBit(c, js) ==
  [c EXCEPT !.sign = [j \in Joints |-> IF j \in js THEN 1 - @[j] ELSE @[j]],
            !.src = [j \in Joints |-> IF j \in js THEN "manual_sign_flip" ELSE @[j]],
            !.pin = [j \in Joints |-> IF j \in js THEN "no" ELSE @[j]]]

\* Joints js turn the other way; their zeros were solved under the old sign.
with_direction_flipped(c, js) ==
  [c EXCEPT !.sign = [j \in Joints |-> IF j \in js THEN -@[j] ELSE @[j]],
            !.src = [j \in Joints |-> IF j \in js THEN "manual_sign_flip" ELSE @[j]],
            !.pin = [j \in Joints |-> IF j \in js THEN "no" ELSE @[j]]]

with_travel(c, j, t) == [c EXCEPT !.travel[j] = t]

\* The homing offset moved: the zero is carried along, not verified.
rebased_after_offset_change(c, j) ==
  [c EXCEPT !.src[j] = "rebased",
            !.pin[j] = IF @ = "held" THEN "carried" ELSE @]

with_claim_withdrawn(c, js) ==
  [c EXCEPT !.src = [j \in Joints |->
                       IF j \in js /\ @[j] = "reference_pose" THEN "unknown" ELSE @[j]]]

\* A physical check of the signs; checked is a ghost.
mark_validated(c) == [c EXCEPT !.validated = TRUE, !.checked = c.sign]

\* Mutant: the whole arm is stamped with a pose that constrains part of it.
rezero_from_poseAll(c, p) ==
  [c EXCEPT !.src = [j \in Joints |-> "reference_pose"],
            !.pin = [j \in Joints |-> IF j \in Covers[p] THEN "held" ELSE @[j]],
            !.validated = FALSE]

\* The zeros of the joints the pose constrains, and of no other, come from it.
rezero_from_pose(c, p) ==
  [c EXCEPT !.src = [j \in Joints |->
                       IF j \in Covers[p] THEN "reference_pose" ELSE @[j]],
            !.pin = [j \in Joints |-> IF j \in Covers[p] THEN "held" ELSE @[j]],
            !.validated = FALSE]

\* seed_from_travel of the joints that were swept, the others carried over:
\* what soarm-calibrate-rom makes of the file that is there.  Only a sweep of
\* the whole arm drops the tolerances and the pose on record.
_merge_into_existing(c, results, sim) ==
  LET swept == {j \in Joints : results[j] # None}
      fresh == swept = Joints
  IN [c EXCEPT
        !.sign = [j \in Joints |-> IF j \in swept THEN 1 ELSE @[j]],
        !.src = [j \in Joints |-> IF j \in swept THEN "travel" ELSE @[j]],
        !.pin = [j \in Joints |-> IF j \in swept THEN "swept" ELSE @[j]],
        !.travel = [j \in Joints |-> IF j \in swept THEN results[j] ELSE @[j]],
        !.passes = [j \in Joints |->
           IF j \in swept
           THEN Append(@[j], [travel |-> results[j], simulated |-> sim]) ELSE @[j]],
        !.validated = FALSE,
        !.tol = IF fresh THEN None ELSE @,
        !.pose = IF fresh THEN NoPose ELSE @,
        !.spread = IF fresh THEN 0 ELSE @,
        !.dry = IF fresh THEN sim ELSE @ \/ sim]

-----------------------------------------------------------------------------
(* CalibrationPipeline: what the evidence in a calibration is enough for. *)

_rom_result(c) ==
  /\ c.tol # None
  /\ ~c.dry
  /\ \A j \in Joints :
       /\ Len(c.passes[j]) >= 2
       /\ \A i \in DOMAIN c.passes[j] : ~c.passes[j][i].simulated
       /\ \A a, b \in DOMAIN c.passes[j] :
            c.passes[j][a].travel - c.passes[j][b].travel <= c.tol.rom

_zero_provenance_result(c) ==
  IF c.pose = NoPose
  THEN \A j \in Joints : c.src[j] # "reference_pose"
  ELSE \A j \in Joints \ Covers[c.pose] : c.src[j] # "reference_pose"

record_reference_pose(c) == c.tol # None /\ c.spread <= c.tol.pose

_reference_result_from_notes(c) == c.pose # NoPose /\ record_reference_pose(c)

\* A calibration is accepted when every stage is; some consumers look at one.
report(c) ==
  [acceptance |-> c.tol # None,
   signs      |-> c.validated,
   rom        |-> _rom_result(c),
   provenance |-> _zero_provenance_result(c),
   reference  |-> _reference_result_from_notes(c)]

\* calibration/limits.py: a travel that was accepted replaces what the model of
\* the arm declares; any other is intersected with it.
measured_is_trusted(c) == report(c).rom

effective_limits(c) ==
  [j \in Joints |-> IF measured_is_trusted(c) \/ c.travel[j] < Declared
                   THEN c.travel[j] ELSE Declared]

-----------------------------------------------------------------------------
(* Helpers of the tabs. *)

\* One more edit of the operator, while no handler is running.
Edit ==
  /\ saving = "idle"
  /\ edits < MaxEdits
  /\ edits' = edits + 1

\* An edit must reach the live calibration and the base of the sliders.
_live_calibrations(changed_live, changed_base) ==
  /\ live' = changed_live
  /\ base' = changed_base

\* The mirror shows the base with every slider applied to it.
Aligned(b, js) ==
  IF js = {} THEN b
  ELSE [shifted_by(b, js) EXCEPT !.pose = NoPose, !.spread = 0]

\* The labels of a joint's passes in the discard dropdown, a dash for none: the
\* number of the pass and its numbers.
_pass_options(c, j) ==
  IF c = NoCal \/ c.passes[j] = <<>>
  THEN {[joint |-> j, index |-> 0, pass |-> None]}
  ELSE {[joint |-> j, index |-> i, pass |-> c.passes[j][i]] : i \in DOMAIN c.passes[j]}

\* _refresh: a selection that is no longer offered falls back to the first.
Refreshed(c, p) ==
  LET options == _pass_options(c, p.joint)
  IN IF p \in options THEN p ELSE CHOOSE o \in options : o.index <= 1

FirstPass(c) ==
  Refreshed(c, [joint |-> CHOOSE j \in Joints : TRUE, index |-> 0, pass |-> None])

-----------------------------------------------------------------------------
(* Tab 1: tolerances.  Tab 2: signs. *)

Tolerated(c, t) == [c EXCEPT !.tol = t]

\* Mutant: only the live calibration is written.
RecordTolerancesLive(t) ==
  /\ live # NoCal
  /\ Edit
  /\ live' = Tolerated(live, t)
  /\ UNCHANGED <<base, gui, disk>>

RecordTolerances(t) ==
  /\ live # NoCal
  /\ Edit
  /\ _live_calibrations(Tolerated(live, t), Tolerated(base, t))
  /\ UNCHANGED <<gui, disk>>

\* Mutant: the check of the signs outlives the flip.
FlippedKeeps(c, js) ==
  [with_direction_flipped(c, js) EXCEPT !.pose = NoPose, !.spread = 0]

\* A flip takes back the check of the signs and the record of the pose.
Flipped(c, js) ==
  [with_direction_flipped(c, js) EXCEPT
     !.pose = NoPose, !.spread = 0, !.validated = FALSE]

\* A dropdown changed: flip what it now says against what was flipped before.
_apply_signs(j, v) ==
  /\ v # verdict[j]
  /\ Edit
  /\ verdict' = [verdict EXCEPT ![j] = v]
  /\ LET want  == {k \in Joints : verdict'[k] = "inverted"}
         delta == (want \ flipped) \cup (flipped \ want)
     IN IF delta = {} \/ live = NoCal
        THEN UNCHANGED <<live, base, flipped>>
        ELSE /\ _live_calibrations(Flipped(live, delta), Flipped(base, delta))
             /\ flipped' = want
  /\ UNCHANGED <<nudged, rom, hand, pick, disk>>

ConfirmSigns ==
  /\ live # NoCal
  /\ \A j \in Joints : verdict[j] # "unchecked"
  /\ Edit
  /\ _live_calibrations(mark_validated(live), mark_validated(base))
  /\ UNCHANGED <<gui, disk>>

-----------------------------------------------------------------------------
(* Tab 3: travel. *)

\* A result is one more pass of its joint, and its travel.
Measured(c, results, sim) ==
  [c EXCEPT
     !.passes = [j \in Joints |->
        IF results[j] = None THEN @[j]
        ELSE Append(@[j], [travel |-> results[j], simulated |-> sim])],
     !.travel = [j \in Joints |-> IF results[j] = None THEN @[j] ELSE results[j]]]

\* _publish_endpoints and _record_endpoints: every result there is counts, old
\* ones included.
_record_endpoints(results, sim) ==
  IF live = NoCal THEN UNCHANGED <<live, base>>
  ELSE /\ \A j \in Joints : results[j] # None => Len(live.passes[j]) < MaxPasses
       /\ _live_calibrations(Measured(live, results, sim),
                             Measured(base, results, sim))

\* A sweep of some joints; one that fails records nothing.
_do_sweep(results, sim) ==
  /\ Edit
  /\ rom' = [j \in Joints |-> IF results[j] # None THEN results[j] ELSE rom[j]]
  /\ _record_endpoints(rom', sim)
  /\ UNCHANGED <<nudged, verdict, flipped, hand, pick, disk>>

\* The joints are driven into their stops, or a plausible travel is made up for
\* them without an arm.
_run_rom_sweep_auto(results) == _do_sweep(results, FALSE)
simulate_rom_sweep(results) == _do_sweep(results, TRUE)

\* Record Min and Record Max of a joint moved by hand, or Reset.
RecordByHand(j, t) ==
  /\ t # hand[j]
  /\ Edit
  /\ hand' = [hand EXCEPT ![j] = t]
  /\ UNCHANGED <<live, base, nudged, verdict, flipped, rom, pick, disk>>

_do_man_compute ==
  /\ \E j \in Joints : hand[j] # None
  /\ Edit
  /\ rom' = [j \in Joints |-> IF hand[j] # None THEN hand[j] ELSE rom[j]]
  /\ _record_endpoints(rom', FALSE)
  /\ UNCHANGED <<nudged, verdict, flipped, hand, pick, disk>>

\* The operator picks a joint and a pass, from options just refreshed.
SelectPass(o) ==
  /\ pick # o
  /\ Edit
  /\ pick' = o
  /\ UNCHANGED <<live, base, nudged, verdict, flipped, rom, hand, disk>>

\* Mutant: the travel stays that of the pass that was removed.
RemovePassAlone(c, j, i) ==
  IF i \notin DOMAIN c.passes[j] THEN c
  ELSE [c EXCEPT !.passes[j] = RemoveAt(@, i)]

\* One pass less; the travel is again that of the last pass that is left.
RemovePass(c, j, i) ==
  LET left == RemoveAt(c.passes[j], i)
  IN IF i \notin DOMAIN c.passes[j] THEN c
     ELSE [c EXCEPT !.passes[j] = left,
                    !.travel[j] = IF left = <<>> THEN @ ELSE Last(left).travel]

\* Mutant: whatever now stands at the selected place is removed.
_discardByIndex ==
  /\ live # NoCal /\ pick.pass # None
  /\ Edit
  /\ _live_calibrations(RemovePass(live, pick.joint, pick.index),
                        RemovePass(base, pick.joint, pick.index))
  /\ pick' = Refreshed(live', pick)
  /\ UNCHANGED <<nudged, verdict, flipped, rom, hand, disk>>

\* A selection that no longer matches the list is refused and refreshed.
_discard ==
  /\ live # NoCal /\ pick.pass # None
  /\ Edit
  /\ IF pick \in _pass_options(live, pick.joint)
     THEN _live_calibrations(RemovePass(live, pick.joint, pick.index),
                             RemovePass(base, pick.joint, pick.index))
     ELSE UNCHANGED <<live, base>>
  /\ pick' = Refreshed(live', pick)
  /\ UNCHANGED <<nudged, verdict, flipped, rom, hand, disk>>

\* Zero and travel are carried to the new frame, and the travel that was measured
\* is one more pass.
Recentred(c, j, t) ==
  [with_travel(rebased_after_offset_change(c, j), j, t) EXCEPT
     !.passes[j] = Append(@, [travel |-> t, simulated |-> FALSE])]

\* The servo's homing offset moves.
_recentre(j, t) ==
  /\ live # NoCal
  /\ Len(live.passes[j]) < MaxPasses
  /\ Edit
  /\ _live_calibrations(Recentred(live, j, t), Recentred(base, j, t))
  /\ UNCHANGED <<gui, disk>>

-----------------------------------------------------------------------------
(* Tab 4: zeros. *)

\* The new zeros, with the check of the signs kept and the pose on record.
Rezeroed(c, p, spread) ==
  [rezero_from_pose(c, p) EXCEPT
     !.validated = c.validated, !.pose = p, !.spread = spread]

\* The arm is sampled twice and has settled; the sliders go back to zero.
_do_rezero(p, spread) ==
  /\ live # NoCal
  /\ Covers[p] # {}
  /\ Edit
  /\ live' = Rezeroed(live, p, spread) /\ base' = live'
  /\ nudged' = {}
  /\ UNCHANGED <<verdict, flipped, rom, hand, pick, disk>>

\* A slider moved, or is reported again: the mirror is rebuilt from the base.
_apply(js) ==
  /\ base # NoCal
  /\ Edit
  /\ nudged' = js
  /\ live' = Aligned(base, js)
  /\ UNCHANGED <<base, verdict, flipped, rom, hand, pick, disk>>

_unsupported_pose_claims(c) ==
  {j \in Joints : /\ c.src[j] = "reference_pose"
                  /\ c.pose = NoPose \/ j \notin Covers[c.pose]}

_withdraw ==
  /\ live # NoCal
  /\ _unsupported_pose_claims(live) # {}
  /\ Edit
  /\ LET names == _unsupported_pose_claims(live)
     IN _live_calibrations(with_claim_withdrawn(live, names),
                           with_claim_withdrawn(base, names))
  /\ UNCHANGED <<gui, disk>>

-----------------------------------------------------------------------------
(* Review and save. *)

\* Where the last complete calibration is once there is one backup more, a whole
\* copy of the file or not.  A backup is named by the second, so that it may take
\* the place of the one before (again).
Keeping(whole, again) ==
  IF whole /\ file # NoCal THEN "newest"
  ELSE IF kept # "newest" THEN kept
  ELSE IF again THEN "no" ELSE "older"

\* Mutant: no copy is made first.
SaveBackupNot(again) ==
  /\ saving = "idle"
  /\ live # NoCal
  /\ saving' = "backed"
  /\ UNCHANGED <<live, base, file, gui, kept, edits>>

\* A copy of the file is made first, whatever is in it.
SaveBackup(again) ==
  /\ saving = "idle"
  /\ live # NoCal
  /\ saving' = "backed"
  /\ kept' = Keeping(TRUE, again)
  /\ UNCHANGED <<live, base, file, gui, edits>>

\* The copy is cut short, and Save refuses.
SaveRefuses(again) ==
  /\ saving = "idle"
  /\ live # NoCal
  /\ "disk" \in Failures
  /\ kept' = Keeping(FALSE, again)
  /\ UNCHANGED <<live, base, file, gui, saving, edits>>

\* The file is truncated, then written; the write may fail half way.
SaveWrite ==
  /\ saving = "backed"
  /\ saving' = "writing"
  /\ file' = NoCal
  /\ UNCHANGED <<live, base, gui, kept, edits>>

SaveDone ==
  /\ saving = "writing"
  /\ saving' = "idle"
  /\ file' = live
  /\ base' = live
  /\ nudged' = {}
  /\ kept' = "no"
  /\ UNCHANGED <<live, verdict, flipped, rom, hand, pick, edits>>

\* The disk is full before the file is written to its end.
SaveFails ==
  /\ saving = "writing"
  /\ "disk" \in Failures
  /\ saving' = "idle"
  /\ UNCHANGED <<live, base, file, gui, kept, edits>>

\* soarm-calibrate-rom runs beside the dashboard, in a process of its own, and
\* replaces the file without a backup; never in the middle of a save.
SweepCli(results, sim) ==
  /\ file # NoCal
  /\ \A j \in Joints : Len(file.passes[j]) < MaxPasses
  /\ Edit
  /\ file' = _merge_into_existing(file, results, sim)
  /\ kept' = "no"
  /\ UNCHANGED <<live, base, gui, saving>>

\* Its write, or that of widen_limit, is cut short.
ToolFails ==
  /\ "disk" \in Failures
  /\ file # NoCal
  /\ Edit
  /\ file' = NoCal
  /\ UNCHANGED <<live, base, gui, saving, kept>>

\* Discard and reload: the dropdowns and the results keep what they say.
_reload ==
  /\ file # NoCal
  /\ Edit
  /\ live' = file /\ base' = file
  /\ flipped' = {}
  /\ nudged' = {}
  /\ UNCHANGED <<verdict, rom, hand, pick, disk>>

\* The main loop's tick refreshes the discard dropdown.
_on_tick ==
  /\ pick # Refreshed(live, pick)
  /\ pick' = Refreshed(live, pick)
  /\ UNCHANGED <<live, base, nudged, verdict, flipped, rom, hand, disk, edits>>

\* What the dashboard finds when it starts: no calibration where the file is
\* incomplete.
load_calibration(c) == live' = c /\ base' = c

\* The process ends, a save half way included, and is started again.
Restart ==
  /\ "restart" \in Failures
  /\ edits < MaxEdits /\ edits' = edits + 1
  /\ load_calibration(file)
  /\ nudged' = {} /\ flipped' = {}
  /\ verdict' = [j \in Joints |-> "ok"]
  /\ rom' = [j \in Joints |-> None] /\ hand' = [j \in Joints |-> None]
  /\ pick' = FirstPass(file)
  /\ saving' = "idle"
  /\ UNCHANGED <<file, kept>>

Init ==
  /\ \E t \in Travels : file = Seeded(t)
  /\ live = file /\ base = file
  /\ nudged = {} /\ flipped = {}
  /\ verdict = [j \in Joints |-> "ok"]
  /\ rom = [j \in Joints |-> None] /\ hand = [j \in Joints |-> None]
  /\ pick = FirstPass(file)
  /\ saving = "idle" /\ kept = "no"
  /\ edits = 0

Save == \/ \E again \in BOOLEAN : SaveBackup(again) \/ SaveRefuses(again)
        \/ SaveWrite \/ SaveDone \/ SaveFails

Next ==
  \/ \E t \in Tolerances : RecordTolerances(t)
  \/ \E j \in Joints, v \in {"unchecked", "ok", "inverted"} : _apply_signs(j, v)
  \/ ConfirmSigns
  \/ \E r \in Swept : _run_rom_sweep_auto(r) \/ simulate_rom_sweep(r)
  \/ \E r \in Swept, sim \in BOOLEAN : SweepCli(r, sim)
  \/ ToolFails
  \/ \E j \in Joints, t \in Travels \cup {None} : RecordByHand(j, t)
  \/ _do_man_compute
  \/ \E j \in Joints : \E o \in _pass_options(live, j) : SelectPass(o)
  \/ _discard
  \/ \E j \in Joints, t \in Travels : _recentre(j, t)
  \/ \E p \in Poses, s \in Spreads : _do_rezero(p, s)
  \/ \E js \in SUBSET Joints : _apply(js)
  \/ _withdraw
  \/ Save
  \/ _reload
  \/ _on_tick
  \/ Restart

Spec == Init /\ [][Next]_vars

-----------------------------------------------------------------------------
(* Properties. *)

Copies == {live, base, file} \ {NoCal}

\* The types of the variables (the handles of panels/calibration.py).
TypeOK ==
  /\ \A c \in Copies : /\ c \in Calibrations
                      /\ \A j \in Joints : Len(c.passes[j]) <= MaxPasses
  /\ nudged \subseteq Joints /\ flipped \subseteq Joints
  /\ verdict \in [Joints -> {"unchecked", "ok", "inverted"}]
  /\ rom \in [Joints -> Travels \cup {None}]
  /\ hand \in [Joints -> Travels \cup {None}]
  /\ pick.joint \in Joints /\ pick.index \in 0..MaxPasses
  /\ pick.pass \in Passes \cup {None}
  /\ saving \in {"idle", "backed", "writing"}
  /\ kept \in {"newest", "older", "no"} /\ edits \in 0..MaxEdits

\* What an operator records reaches the live calibration and the base of the
\* sliders alike, so the next slider to move loses none of it; and with every
\* slider at zero the mirror shows the base itself (_live_calibrations).
NothingLostToSliders ==
  live # NoCal =>
    /\ base # NoCal
    /\ live.sign = base.sign /\ live.validated = base.validated
    /\ live.tol = base.tol
    /\ live.passes = base.passes /\ live.travel = base.travel
    /\ nudged = {} => live = base

\* A calibration that says its signs were checked has the signs that were
\* checked, wherever it is kept and whatever was flipped, reloaded or saved
\* since (mark_validated, _apply_signs).
SignsWereChecked ==
  \A c \in Copies : c.validated => c.checked = c.sign

\* A zero that claims a reference pose is the one solved from a pose under
\* the sign in force; and where the pipeline accepts a pose, every joint it
\* constrains was pinned to it, or swept again since, and after that neither
\* flipped nor nudged (_zero_provenance_result, _reference_result_from_notes).
PoseVouches ==
  \A c \in Copies :
    /\ \A j \in Joints : c.src[j] = "reference_pose" => c.pin[j] = "held"
    /\ report(c).provenance /\ report(c).reference
         => \A j \in Covers[c.pose] : c.pin[j] # "no"

\* The limit a robot enforces never lets a joint past the last travel that was
\* measured, whatever was recorded, discarded, merged or reloaded since; and one
\* that goes past what the URDF declares is within the tolerance of every pass
\* on record, none of them simulated (effective_limits, _record_endpoints,
\* _discard, _recentre).
TravelIsLastPass ==
  \A c \in Copies : \A j \in Joints :
    /\ c.passes[j] # <<>> => effective_limits(c)[j] <= Last(c.passes[j]).travel
    /\ effective_limits(c)[j] > Declared => \A i \in DOMAIN c.passes[j] :
         /\ effective_limits(c)[j] - c.passes[j][i].travel <= c.tol.rom
         /\ ~c.passes[j][i].simulated

\* A pass leaves the record only as the one the operator saw selected, or
\* when the whole calibration is read from disk again (_discard).
DiscardsWhatWasShown ==
  [][\A j \in Joints :
       live # NoCal /\ live' \notin {NoCal, file} /\ live'.passes[j] # live.passes[j]
         => \/ IsPrefix(live.passes[j], live'.passes[j])
            \/ /\ pick.index # 0 /\ pick \in _pass_options(live, j)
               /\ live'.passes[j] = RemoveAt(live.passes[j], pick.index)]_vars

\* There is a complete copy of what was last written completely.
Intact == file # NoCal \/ kept # "no"

\* Saves that are refused, fail half way, are tried again or end with the process
\* never lose the calibration last written completely: it is in the file or in a
\* backup.  What loses it is one of two things only: a Save over a file that was cut
\* short, in the very second of the backup before, whose name it takes; and a tool,
\* which makes no backup, cut short in its write (_do_save, RobotCalibration.save).
LastCopyKept ==
  [][Intact => \/ Intact'
               \/ file = NoCal /\ (SaveBackup(TRUE) \/ SaveRefuses(TRUE))
               \/ ToolFails]_vars

=============================================================================
