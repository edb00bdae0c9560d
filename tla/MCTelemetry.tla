---------------------------- MODULE MCTelemetry -----------------------------
(* An instance of Telemetry for TLC, and the refinement for one of the sinks. *)
EXTENDS RecorderLog

CONSTANTS s1, s2

TwoSinks  == <<s1, s2>>
AllFaults == FaultKinds
=============================================================================
