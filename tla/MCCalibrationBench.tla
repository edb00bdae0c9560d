-------------------------- MODULE MCCalibrationBench --------------------------
(* CalibrationBench with two joints: one that only the wider of the two poses *)
(* constrains, and one that both do. *)
EXTENDS CalibrationBench

CONSTANTS j1, j2, level, folded_flat, urdf_zero

MCCovers == level :> {j1, j2} @@ folded_flat :> {j2} @@ urdf_zero :> {}
MCSwept == {j1 :> 3 @@ j2 :> 1, j1 :> None @@ j2 :> 3}
MCTolerances == {[pose |-> 1, rom |-> 1]}

=============================================================================
