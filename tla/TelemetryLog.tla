---------------------------- MODULE TelemetryLog ----------------------------
(***************************************************************************)
(* What the telemetry path promises one sink: a lossy log.  Samples are    *)
(* accepted in the order they were measured, wait, and reach the log at    *)
(* most once and in that order.  A waiting sample may be lost: one of them *)
(* when a new one is accepted, the latest ones when the feed is closed,    *)
(* all of them when the sink fails.  Once two deliverers are at work the   *)
(* order is given up, and one of them may lose what it holds.              *)
(***************************************************************************)
EXTENDS Naturals, Sequences, SequencesExt

VARIABLES
    newest,   \* number of the newest sample accepted
    pending,  \* accepted samples that are still to be logged
    log,      \* what the sink holds
    failed,   \* the sink failed
    ordered   \* the log is still kept in order

vars == <<newest, pending, log, failed, ordered>>

Init ==
    /\ newest = 0 /\ pending = <<>> /\ log = <<>>
    /\ failed = FALSE /\ ordered = TRUE

\* A sample newer than all before it is accepted; one that waits may be lost for it.
Accept ==
    /\ newest' > newest
    /\ \/ pending' = Append(pending, newest')
       \/ \E i \in DOMAIN pending : pending' = Append(RemoveAt(pending, i), newest')
       \/ failed /\ UNCHANGED pending
    /\ UNCHANGED <<log, failed, ordered>>

\* The oldest waiting sample is logged; any of them once the order is given up.
Deliver ==
    /\ \E i \in DOMAIN pending :
         /\ ordered => i = 1
         /\ log' = Append(log, pending[i])
         /\ pending' = RemoveAt(pending, i)
    /\ UNCHANGED <<newest, failed, ordered>>

\* Waiting samples are lost together: the latest when the feed is closed, any run of
\* them once the order is given up.
Cut ==
    /\ \E i, j \in 0..Len(pending) :
         /\ i < j /\ (ordered => j = Len(pending))
         /\ pending' = SubSeq(pending, 1, i) \o SubSeq(pending, j + 1, Len(pending))
    /\ UNCHANGED <<newest, log, failed, ordered>>

Fail ==
    /\ ~failed /\ failed' = TRUE /\ pending' = <<>>
    /\ UNCHANGED <<newest, log, ordered>>

\* The second deliverer may still write what it holds to a sink that failed.
Stray ==
    /\ failed /\ ~ordered
    /\ \E n \in 1..newest : log' = Append(log, n)
    /\ UNCHANGED <<newest, pending, failed, ordered>>

GiveUpOrder ==
    /\ ordered /\ ordered' = FALSE
    /\ UNCHANGED <<newest, pending, log, failed>>

Next == Accept \/ Deliver \/ Cut \/ Fail \/ Stray \/ GiveUpOrder

Spec == Init /\ [][Next]_vars
=============================================================================
