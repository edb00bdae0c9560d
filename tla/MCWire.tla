-------------------------------- MODULE MCWire --------------------------------
(* Wire with two servos and every fault. *)
EXTENDS Wire

CONSTANTS s1, s2

=============================================================================
