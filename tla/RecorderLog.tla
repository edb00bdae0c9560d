---------------------------- MODULE RecorderLog -----------------------------
(* The lossy log that the recorder implements for one of its sinks. *)
EXTENDS Telemetry

CONSTANT Sink    \* the sink that is looked at

ASSUME SinkAssumption == Sink \in SinkSet

Newest == IF accepted = {} THEN 0 ELSE Max(accepted)

Log == INSTANCE TelemetryLog WITH
         newest <- Newest, pending <- Pending(Sink), log <- written[Sink],
         failed <- Sink \in failed, ordered <- ~late

\* The recorder implements the lossy log for the sink: in order and at most once,
\* with samples lost only as TelemetryLog allows.
ImplementsLog == Log!Spec
=============================================================================
