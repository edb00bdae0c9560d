----------------------------- MODULE Telemetry ------------------------------
(***************************************************************************)
(* The telemetry path from the bus thread to the sinks: _publish_sample of *)
(* ServoHardwareInterface (robot/hardware.py), one TelemetryStream         *)
(* (robot/telemetry.py) and the TelemetryRecorder that drains it           *)
(* (robot/telemetry_sinks.py).                                             *)
(*                                                                         *)
(* Three threads take part besides the bus thread: the recorder's own      *)
(* thread, the thread that starts and stops the recorder, and the thread   *)
(* that stops the interface.  A sample is its sequence number.             *)
(***************************************************************************)
EXTENDS Naturals, Sequences, SequencesExt

CONSTANTS
    Sinks,      \* the sinks the recorder is built with, as a sequence
    MaxLen,     \* maxlen of the stream
    Faults,     \* what may go wrong, a subset of FaultKinds
    MaxTicks    \* bound: bus ticks

FaultKinds ==
    { "read",   \* a tick's read fails: no sample
      "sink",   \* a sink raises in write()
      "join" }  \* a sink blocks beyond the 2 s stop() waits for the thread

ASSUME LenAssumption   == MaxLen \in Nat \ {0} /\ MaxTicks \in Nat
ASSUME FaultAssumption == Faults \subseteq FaultKinds

SinkSet  == ToSet(Sinks)

\* No sink is given twice.
ASSUME SinksAssumption ==
    /\ Sinks \in Seq(SinkSet)
    /\ \A i, j \in DOMAIN Sinks : Sinks[i] = Sinks[j] => i = j

Drainers == {"thread", "owner"}

VARIABLES
    \* the bus thread
    seq,       \* _seq: ticks so far
    bus,       \* where it is in _publish_sample
    \* the interface
    listed,    \* the stream is in _streams
    hw,        \* where the thread that stops the interface is
    \* the stream
    buf,       \* _buf
    event,     \* _event is set
    closed,    \* _closed
    accepted,  \* the samples counted in _published
    dropped,   \* the samples counted in _dropped
    \* the recorder
    running,   \* _running
    sinks,     \* _sinks
    failed,    \* failed_sinks
    at,        \* where the recorder's thread and the owner are
    batch,     \* what each of them drained and has not finished
    todo,      \* the sinks each of them has not offered the head of its batch
    \* the sinks
    written,   \* the samples each sink wrote
    shut,      \* the sinks that were closed
    \* history
    cut,       \* samples in the stream when it was closed
    late       \* the join expired, with the thread still writing

busVars    == <<seq, bus>>
hwVars     == <<listed, hw>>
streamVars == <<buf, event, closed, accepted, dropped, cut>>
recVars    == <<running, sinks, failed, at, batch, todo, late>>
sinkVars   == <<written, shut>>
vars == <<busVars, hwVars, streamVars, recVars, sinkVars>>

Samples == 1..MaxTicks

\* Every index and slot is in range; a full stream holds MaxLen samples.
TypeOK ==
    /\ seq \in 0..MaxTicks
    /\ bus \in {"idle", "fan", "put", "set"}
    /\ hw \in {"open", "close", "down"}
    /\ buf \in Seq(Samples) /\ Len(buf) <= MaxLen
    /\ {listed, event, closed, running, late} \subseteq BOOLEAN
    /\ accepted \subseteq Samples /\ dropped \subseteq Samples /\ cut \subseteq Samples
    /\ sinks \in Seq(SinkSet)
    /\ failed \subseteq SinkSet /\ shut \subseteq SinkSet
    /\ at \in [Drainers -> {"new", "run", "test", "wait", "drain", "write", "join",
                            "unlist", "shut", "sinks", "done", "raised"}]
    /\ batch \in [Drainers -> Seq(Samples)]
    /\ todo \in [Drainers -> Seq(SinkSet)]
    /\ written \in [SinkSet -> Seq(Samples)]

Init ==
    /\ seq = 0 /\ bus = "idle"
    /\ listed = FALSE /\ hw = "open"
    /\ buf = <<>> /\ event = FALSE /\ closed = FALSE
    /\ accepted = {} /\ dropped = {} /\ cut = {}
    /\ running = FALSE /\ sinks = Sinks /\ failed = {} /\ late = FALSE
    /\ at = [a \in Drainers |-> "new"]
    /\ batch = [a \in Drainers |-> <<>>]
    /\ todo = [a \in Drainers |-> <<>>]
    /\ written = [s \in SinkSet |-> <<>>]
    /\ shut = {}

-----------------------------------------------------------------------------
(* The bus thread: _read_once counts the tick, _publish_sample fans out    *)

Tick ==
    /\ bus = "idle" /\ hw = "open" /\ seq < MaxTicks
    /\ seq' = seq + 1
    /\ \/ bus' = "fan"
       \/ "read" \in Faults /\ bus' = "idle"
    /\ UNCHANGED <<hwVars, streamVars, recVars, sinkVars>>

\* The list of streams is copied under _stream_lock.
FanOut ==
    /\ bus = "fan"
    /\ bus' = IF listed THEN "put" ELSE "idle"
    /\ UNCHANGED <<seq, hwVars, streamVars, recVars, sinkVars>>

\* Mutant: a full stream refuses the new sample.
PutDropNewest ==
    /\ bus = "put"
    /\ IF closed THEN UNCHANGED <<buf, accepted, dropped>> /\ bus' = "idle"
       ELSE /\ accepted' = accepted \cup {seq}
            /\ bus' = "set"
            /\ IF Len(buf) < MaxLen THEN buf' = Append(buf, seq) /\ UNCHANGED dropped
                                    ELSE dropped' = dropped \cup {seq} /\ UNCHANGED buf
    /\ UNCHANGED <<seq, hwVars, event, closed, cut, recVars, sinkVars>>

\* Mutant: the sample pushed out of a full stream is not counted.
PutUncounted ==
    /\ bus = "put"
    /\ IF closed THEN UNCHANGED <<buf, accepted>> /\ bus' = "idle"
       ELSE /\ accepted' = accepted \cup {seq}
            /\ buf' = Append(IF Len(buf) = MaxLen THEN Tail(buf) ELSE buf, seq)
            /\ bus' = "set"
    /\ UNCHANGED <<seq, hwVars, event, closed, dropped, cut, recVars, sinkVars>>

\* Mutant: the buffer is an unbounded list.
PutUnbounded ==
    /\ bus = "put"
    /\ IF closed THEN UNCHANGED <<buf, accepted>> /\ bus' = "idle"
       ELSE accepted' = accepted \cup {seq} /\ buf' = Append(buf, seq) /\ bus' = "set"
    /\ UNCHANGED <<seq, hwVars, event, closed, dropped, cut, recVars, sinkVars>>

\* _publish, under the stream's lock; the event is set after it is released.
Put ==
    /\ bus = "put"
    /\ IF closed
       THEN bus' = "idle" /\ UNCHANGED <<buf, accepted, dropped>>
       ELSE /\ bus' = "set"
            /\ accepted' = accepted \cup {seq}
            /\ buf' = Append(IF Len(buf) = MaxLen THEN Tail(buf) ELSE buf, seq)
            /\ dropped' = IF Len(buf) = MaxLen THEN dropped \cup {Head(buf)}
                                               ELSE dropped
    /\ UNCHANGED <<seq, hwVars, event, closed, cut, recVars, sinkVars>>

SetEvent ==
    /\ bus = "set"
    /\ event' = TRUE
    /\ bus' = "idle"
    /\ UNCHANGED <<seq, hwVars, buf, closed, accepted, dropped, cut, recVars, sinkVars>>

BusStep == Tick \/ FanOut \/ Put \/ SetEvent

-----------------------------------------------------------------------------
(* The stream                                                              *)

\* close(): what is still buffered is discarded, and counted nowhere.
CloseStream ==
    /\ closed' = TRUE /\ event' = TRUE
    /\ cut' = cut \cup ToSet(buf)
    /\ buf' = <<>>
    /\ UNCHANGED <<accepted, dropped>>

-----------------------------------------------------------------------------
(* The interface's stop(): it detaches every stream, then closes them      *)

StopInterface ==
    /\ hw = "open" /\ bus = "idle"     \* the bus thread was joined
    /\ hw' = IF listed THEN "close" ELSE "down"
    /\ listed' = FALSE
    /\ UNCHANGED <<busVars, streamVars, recVars, sinkVars>>

CloseListed ==
    /\ hw = "close"
    /\ hw' = "down"
    /\ CloseStream
    /\ UNCHANGED <<busVars, listed, recVars, sinkVars>>

-----------------------------------------------------------------------------
(* _drain_once, run by the recorder's thread or by the owner in stop()     *)

Goto(a, place) == at' = [at EXCEPT ![a] = place]

\* Mutant: the buffer is copied under the lock and cleared later, by the close.
DrainCopies(a) ==
    /\ at[a] = "drain"
    /\ batch' = [batch EXCEPT ![a] = buf]
    /\ todo' = [todo EXCEPT ![a] = sinks]
    /\ event' = FALSE
    /\ Goto(a, "write")
    /\ UNCHANGED <<busVars, hwVars, buf, closed, accepted, dropped, cut, running, sinks,
                   failed, late, sinkVars>>

\* drain(): the buffer is emptied and the event cleared in one critical section.
Drain(a) ==
    /\ at[a] = "drain"
    /\ batch' = [batch EXCEPT ![a] = buf]
    /\ todo' = [todo EXCEPT ![a] = sinks]
    /\ buf' = <<>> /\ event' = FALSE
    /\ Goto(a, "write")
    /\ UNCHANGED <<busVars, hwVars, closed, accepted, dropped, cut, running, sinks,
                   failed, late, sinkVars>>

\* sink.write(sample) returns.  Nothing forbids a write to a closed sink.
Write(a) ==
    /\ at[a] = "write" /\ batch[a] # <<>> /\ todo[a] # <<>>
    /\ written' = [written EXCEPT ![Head(todo[a])] = Append(@, Head(batch[a]))]
    /\ todo' = [todo EXCEPT ![a] = Tail(@)]
    /\ UNCHANGED <<busVars, hwVars, streamVars, running, sinks, failed, at, batch, late,
                   shut>>

\* A sink that raised is removed; list.remove raises if it is gone already.
WriteFails(a) ==
    /\ at[a] = "write" /\ batch[a] # <<>> /\ todo[a] # <<>>
    /\ LET s == Head(todo[a]) IN
         /\ "sink" \in Faults \/ s \in shut    \* a closed file raises
         /\ \/ /\ \E i \in DOMAIN sinks :
                    sinks[i] = s /\ sinks' = RemoveAt(sinks, i)
               /\ failed' = failed \cup {s}
               /\ todo' = [todo EXCEPT ![a] = Tail(@)]
               /\ UNCHANGED <<at, batch>>
            \/ /\ s \notin ToSet(sinks)
               /\ Goto(a, "raised")
               /\ batch' = [batch EXCEPT ![a] = <<>>]
               /\ todo' = [todo EXCEPT ![a] = <<>>]
               /\ UNCHANGED <<sinks, failed>>
    /\ UNCHANGED <<busVars, hwVars, streamVars, running, late, sinkVars>>

NextSample(a) ==
    /\ at[a] = "write" /\ batch[a] # <<>> /\ todo[a] = <<>>
    /\ batch' = [batch EXCEPT ![a] = Tail(@)]
    /\ todo' = [todo EXCEPT ![a] = sinks]
    /\ UNCHANGED <<busVars, hwVars, streamVars, running, sinks, failed, at, late,
                   sinkVars>>

DrainDone(a) ==
    /\ at[a] = "write" /\ batch[a] = <<>>
    /\ Goto(a, IF a = "thread" THEN "test" ELSE "unlist")
    /\ todo' = [todo EXCEPT ![a] = <<>>]
    /\ UNCHANGED <<busVars, hwVars, streamVars, running, sinks, failed, batch, late,
                   sinkVars>>

DrainStep(a) ==
    Drain(a) \/ Write(a) \/ WriteFails(a) \/ NextSample(a) \/ DrainDone(a)

-----------------------------------------------------------------------------
(* _loop, on the recorder's thread                                         *)

\* Mutant: the loop does not look at _running.
LoopTestForever ==
    /\ at["thread"] = "test"
    /\ Goto("thread", "wait")
    /\ UNCHANGED <<busVars, hwVars, streamVars, running, sinks, failed, batch, todo,
                   late, sinkVars>>

LoopTest ==
    /\ at["thread"] = "test"
    /\ Goto("thread", IF running THEN "wait" ELSE "done")
    /\ UNCHANGED <<busVars, hwVars, streamVars, running, sinks, failed, batch, todo,
                   late, sinkVars>>

\* Mutant: the wait resets the event.
LoopWaitResets ==
    /\ at["thread"] = "wait"
    /\ Goto("thread", IF event THEN "drain" ELSE "test")
    /\ event' = FALSE
    /\ UNCHANGED <<busVars, hwVars, buf, closed, accepted, dropped, cut, running, sinks,
                   failed, batch, todo, late, sinkVars>>

\* wait(timeout): either the event is set or the timeout passes.
LoopWait ==
    /\ at["thread"] = "wait"
    /\ Goto("thread", IF event THEN "drain" ELSE "test")
    /\ UNCHANGED <<busVars, hwVars, streamVars, running, sinks, failed, batch, todo,
                   late, sinkVars>>

-----------------------------------------------------------------------------
(* start() and stop() of the recorder, on the owner's thread               *)

StartRecorder ==
    /\ at["owner"] = "new"
    /\ listed' = TRUE
    /\ running' = TRUE
    /\ at' = [a \in Drainers |-> IF a = "thread" THEN "test" ELSE "run"]
    /\ UNCHANGED <<busVars, hw, streamVars, sinks, failed, batch, todo, late, sinkVars>>

StopRecorder ==
    /\ at["owner"] = "run"
    /\ running' = FALSE
    /\ Goto("owner", "join")
    /\ UNCHANGED <<busVars, hwVars, streamVars, sinks, failed, batch, todo, late,
                   sinkVars>>

\* Mutant: stop() closes the sinks without a last drain.
JoinNoDrain ==
    /\ at["owner"] = "join" /\ at["thread"] \in {"done", "raised"}
    /\ Goto("owner", "unlist")
    /\ UNCHANGED <<busVars, hwVars, streamVars, running, sinks, failed, batch, todo, late,
                   sinkVars>>

\* join(timeout=2.0); it can only expire on a sink that does not return.
Join ==
    /\ at["owner"] = "join"
    /\ \/ at["thread"] \in {"done", "raised"} /\ UNCHANGED late
       \/ /\ "join" \in Faults
          /\ at["thread"] = "write" /\ todo["thread"] # <<>> /\ batch["thread"] # <<>>
          /\ late' = TRUE
    /\ Goto("owner", "drain")
    /\ UNCHANGED <<busVars, hwVars, streamVars, running, sinks, failed, batch, todo,
                   sinkVars>>

\* unsubscribe(): out of the list first, then close().
Unlist ==
    /\ at["owner"] = "unlist"
    /\ listed' = FALSE
    /\ Goto("owner", "shut")
    /\ UNCHANGED <<busVars, hw, streamVars, running, sinks, failed, batch, todo, late,
                   sinkVars>>

Unsubscribe ==
    /\ at["owner"] = "shut"
    /\ CloseStream
    /\ Goto("owner", "sinks")
    /\ UNCHANGED <<busVars, hwVars, running, sinks, failed, batch, todo, late, sinkVars>>

CloseSinks ==
    /\ at["owner"] = "sinks"
    /\ shut' = shut \cup ToSet(sinks)
    /\ Goto("owner", "done")
    /\ UNCHANGED <<busVars, hwVars, streamVars, running, sinks, failed, batch, todo, late,
                   written>>

ThreadStep == LoopTest \/ LoopWait \/ DrainStep("thread")
OwnerStep  == StartRecorder \/ StopRecorder \/ Join \/ DrainStep("owner")
                \/ Unlist \/ Unsubscribe \/ CloseSinks

Ended == {"done", "raised"}
Terminated ==
    /\ at["owner"] \in Ended /\ at["thread"] \in Ended
    /\ hw = "down"
    /\ UNCHANGED vars

Next == BusStep \/ StopInterface \/ CloseListed \/ ThreadStep \/ OwnerStep \/ Terminated

Spec == Init /\ [][Next]_vars

\* Every thread is scheduled; nobody is obliged to start or stop the recorder or
\* the interface, but a stop() that began goes on.
Fairness ==
    /\ WF_vars(BusStep) /\ WF_vars(CloseListed) /\ WF_vars(ThreadStep)
    /\ WF_vars(Join \/ DrainStep("owner") \/ Unlist \/ Unsubscribe \/ CloseSinks)

FairSpec == Spec /\ Fairness

-----------------------------------------------------------------------------
(* Properties                                                              *)

\* While a sample is buffered the event is set, or the bus thread is about to:
\* a consumer that waits is never left asleep over data.
NoLostWakeup == buf # <<>> => event \/ bus = "set"

\* The samples a drainer still holds for the sink s, the oldest first.
Held(a, s) ==
    IF batch[a] = <<>> THEN <<>>
    ELSE IF s \in ToSet(todo[a]) THEN batch[a] ELSE Tail(batch[a])

\* What has been accepted and neither lost nor written to s yet.
Pending(s) == IF s \in failed THEN <<>>
              ELSE Held("thread", s) \o Held("owner", s) \o buf

\* "Samples accepted since subscription, drops included": for a sink that did not
\* fail, every accepted sample is written, held, buffered, counted as dropped or was
\* buffered when the stream was closed; and it is only one of these.
Accounted ==
    (\A a \in Drainers : at[a] # "raised") =>
    \A s \in SinkSet \ failed :
        LET parts == <<ToSet(written[s]), ToSet(Pending(s)), dropped, cut>>
        IN  /\ accepted = UNION {parts[i] : i \in 1..4}
            /\ \A i, j \in 1..4 : i # j => parts[i] \cap parts[j] = {}

\* "A consumer that stops draining loses the oldest samples, never the newest": what
\* is dropped from the stream is older than what stays in it.
DropsOldest == \A d \in dropped, x \in ToSet(buf) : d < x

\* stop() promises to "drain what is left": a sample accepted while the recorder runs
\* reaches every sink that works or is counted as dropped, unless the interface is
\* stopped first or a drainer died on a sink the other one had removed.
EverySampleLands ==
    \A s \in SinkSet, x \in Samples :
        (x \in accepted /\ running) ~>
            (\/ x \in ToSet(written[s]) \cup dropped
             \/ s \in failed \/ hw # "open"
             \/ \E a \in Drainers : at[a] = "raised")

\* stop() comes to its end.
StopEnds == (at["owner"] = "join") ~> (at["owner"] \in Ended)
=============================================================================
