---------------------------- MODULE MCWidenLimit ----------------------------
(* Instances of WidenLimit for TLC.                                        *)
EXTENDS WidenLimit

HardFaults == {"write", "port"}
=============================================================================
