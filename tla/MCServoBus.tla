----------------------------- MODULE MCServoBus -----------------------------
(* Instances of ServoBus for TLC.                                          *)
EXTENDS ServoBus, TLC

CONSTANTS c1, c2, p0, p1

Perms == Permutations({c1, c2})
AllFaults == FaultKinds
=============================================================================
