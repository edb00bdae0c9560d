--------------------------- MODULE TelemetryProofs ---------------------------
(* Theorems about Telemetry, for every sequence of different sinks, every length *)
(* of the stream, any number of ticks and any faults.                            *)
EXTENDS Telemetry, SequenceTheorems, SequencesExt, TLAPS

Increasing(q) == \A i, j \in DOMAIN q : i < j => q[i] < q[j]
Distinct(q) == \A i, j \in DOMAIN q : q[i] = q[j] => i = j

-----------------------------------------------------------------------------
(* Sequences and the sets of their elements. *)

LEMMA EmptySet == ToSet(<<>>) = {}
BY DEF ToSet

LEMMA TailSet ==
  ASSUME NEW S, NEW q \in Seq(S), q # <<>>
  PROVE  /\ Head(q) \in S /\ Tail(q) \in Seq(S) /\ Len(Tail(q)) = Len(q) - 1
         /\ ToSet(q) = {Head(q)} \cup ToSet(Tail(q))
<1>1. /\ Len(q) \in Nat /\ Len(q) >= 1 /\ DOMAIN q = 1 .. Len(q) /\ Head(q) = q[1]
      /\ Tail(q) \in Seq(S) /\ DOMAIN Tail(q) = 1 .. Len(q) - 1 /\ Len(Tail(q)) = Len(q) - 1
      /\ \A i \in 1 .. Len(q) - 1 : Tail(q)[i] = q[i + 1]
  OBVIOUS
<1>2. ASSUME NEW x \in ToSet(q) PROVE x \in {Head(q)} \cup ToSet(Tail(q))
  <2>1. PICK i \in DOMAIN q : x = q[i]
    BY DEF ToSet
  <2>2. CASE i = 1
    BY <1>1, <2>1, <2>2
  <2>3. CASE i # 1
    <3>1. i - 1 \in 1 .. Len(q) - 1 /\ Tail(q)[i - 1] = x
      BY <1>1, <2>1, <2>3
    <3> QED
      BY <1>1, <3>1 DEF ToSet
  <2> QED
    BY <2>2, <2>3
<1>3. ASSUME NEW x \in ToSet(Tail(q)) PROVE x \in ToSet(q)
  <2>1. PICK i \in 1 .. Len(q) - 1 : x = Tail(q)[i]
    BY <1>1 DEF ToSet
  <2>2. i + 1 \in DOMAIN q /\ q[i + 1] = x
    BY <1>1, <2>1
  <2> QED
    BY <2>2 DEF ToSet
<1>4. Head(q) \in ToSet(q) /\ Head(q) \in S
  BY <1>1 DEF ToSet
<1> QED
  BY <1>1, <1>2, <1>3, <1>4

LEMMA AppendSet ==
  ASSUME NEW S, NEW q \in Seq(S), NEW x \in S
  PROVE  /\ Append(q, x) \in Seq(S) /\ Len(Append(q, x)) = Len(q) + 1
         /\ ToSet(Append(q, x)) = ToSet(q) \cup {x}
<1>1. /\ Len(q) \in Nat /\ DOMAIN q = 1 .. Len(q)
      /\ Append(q, x) \in Seq(S) /\ DOMAIN Append(q, x) = 1 .. Len(q) + 1
      /\ Len(Append(q, x)) = Len(q) + 1
      /\ \A i \in 1 .. Len(q) : Append(q, x)[i] = q[i]
      /\ Append(q, x)[Len(q) + 1] = x
  OBVIOUS
<1>2. ASSUME NEW y \in ToSet(Append(q, x)) PROVE y \in ToSet(q) \cup {x}
  <2>1. PICK i \in 1 .. Len(q) + 1 : y = Append(q, x)[i]
    BY <1>1 DEF ToSet
  <2> QED
    BY <1>1, <2>1 DEF ToSet
<1>3. ASSUME NEW y \in ToSet(q) PROVE y \in ToSet(Append(q, x))
  <2>1. PICK i \in 1 .. Len(q) : y = q[i]
    BY <1>1 DEF ToSet
  <2>2. i \in DOMAIN Append(q, x) /\ Append(q, x)[i] = y
    BY <1>1, <2>1
  <2> QED
    BY <2>2 DEF ToSet
<1>4. x \in ToSet(Append(q, x))
  BY <1>1 DEF ToSet
<1> QED
  BY <1>1, <1>2, <1>3, <1>4

LEMMA ConcatSet ==
  ASSUME NEW S, NEW p \in Seq(S), NEW q \in Seq(S)
  PROVE  p \o q \in Seq(S) /\ ToSet(p \o q) = ToSet(p) \cup ToSet(q)
<1>1. /\ Len(p) \in Nat /\ DOMAIN p = 1 .. Len(p)
      /\ Len(q) \in Nat /\ DOMAIN q = 1 .. Len(q)
      /\ p \o q \in Seq(S) /\ DOMAIN (p \o q) = 1 .. Len(p) + Len(q)
      /\ \A i \in 1 .. Len(p) : (p \o q)[i] = p[i]
      /\ \A i \in 1 .. Len(p) + Len(q) : i > Len(p) => (p \o q)[i] = q[i - Len(p)]
  OBVIOUS
<1>2. ASSUME NEW x \in ToSet(p \o q) PROVE x \in ToSet(p) \cup ToSet(q)
  <2>1. PICK i \in 1 .. Len(p) + Len(q) : x = (p \o q)[i]
    BY <1>1 DEF ToSet
  <2>2. CASE i <= Len(p)
    BY <1>1, <2>1, <2>2 DEF ToSet
  <2>3. CASE i > Len(p)
    <3>1. i - Len(p) \in DOMAIN q /\ q[i - Len(p)] = x
      BY <1>1, <2>1, <2>3
    <3> QED
      BY <3>1 DEF ToSet
  <2> QED
    BY <1>1, <2>2, <2>3
<1>3. ASSUME NEW x \in ToSet(p) PROVE x \in ToSet(p \o q)
  <2>1. PICK i \in 1 .. Len(p) : x = p[i]
    BY <1>1 DEF ToSet
  <2>2. i \in DOMAIN (p \o q) /\ (p \o q)[i] = x
    BY <1>1, <2>1
  <2> QED
    BY <2>2 DEF ToSet
<1>4. ASSUME NEW x \in ToSet(q) PROVE x \in ToSet(p \o q)
  <2>1. PICK i \in 1 .. Len(q) : x = q[i]
    BY <1>1 DEF ToSet
  <2>2. Len(p) + i \in 1 .. Len(p) + Len(q) /\ Len(p) + i > Len(p) /\ Len(p) + i - Len(p) = i
    BY <1>1, <2>1
  <2>3. Len(p) + i \in DOMAIN (p \o q) /\ (p \o q)[Len(p) + i] = x
    BY <1>1, <2>1, <2>2
  <2> QED
    BY <2>3 DEF ToSet
<1> QED
  BY <1>1, <1>2, <1>3, <1>4

LEMMA TailIncreasing ==
  ASSUME NEW q \in Seq(Nat), q # <<>>, Increasing(q)
  PROVE  Increasing(Tail(q)) /\ \A x \in ToSet(Tail(q)) : Head(q) < x
<1>1. /\ Len(q) \in Nat /\ DOMAIN q = 1 .. Len(q) /\ Head(q) = q[1] /\ Len(q) >= 1
      /\ DOMAIN Tail(q) = 1 .. Len(q) - 1
      /\ \A i \in 1 .. Len(q) - 1 : Tail(q)[i] = q[i + 1]
  OBVIOUS
<1>2. ASSUME NEW i \in DOMAIN Tail(q), NEW j \in DOMAIN Tail(q), i < j
      PROVE  Tail(q)[i] < Tail(q)[j]
  <2>1. i + 1 \in DOMAIN q /\ j + 1 \in DOMAIN q /\ i + 1 < j + 1
    BY <1>1, <1>2
  <2> QED
    BY <1>1, <2>1 DEF Increasing
<1>3. ASSUME NEW x \in ToSet(Tail(q)) PROVE Head(q) < x
  <2>1. PICK i \in 1 .. Len(q) - 1 : x = Tail(q)[i]
    BY <1>1 DEF ToSet
  <2>2. 1 \in DOMAIN q /\ i + 1 \in DOMAIN q /\ 1 < i + 1 /\ x = q[i + 1]
    BY <1>1, <2>1
  <2> QED
    BY <1>1, <2>2 DEF Increasing
<1> QED
  BY <1>2, <1>3 DEF Increasing

LEMMA AppendIncreasing ==
  ASSUME NEW q \in Seq(Nat), NEW x \in Nat, Increasing(q), \A y \in ToSet(q) : y < x
  PROVE  Increasing(Append(q, x))
<1>1. /\ Len(q) \in Nat /\ DOMAIN q = 1 .. Len(q)
      /\ DOMAIN Append(q, x) = 1 .. Len(q) + 1
      /\ \A i \in 1 .. Len(q) : Append(q, x)[i] = q[i]
      /\ Append(q, x)[Len(q) + 1] = x
  OBVIOUS
<1>2. ASSUME NEW i \in DOMAIN Append(q, x), NEW j \in DOMAIN Append(q, x), i < j
      PROVE  Append(q, x)[i] < Append(q, x)[j]
  <2>1. i \in 1 .. Len(q) /\ Append(q, x)[i] = q[i]
    BY <1>1, <1>2
  <2>2. CASE j \in 1 .. Len(q)
    BY <1>1, <1>2, <2>1, <2>2 DEF Increasing
  <2>3. CASE j = Len(q) + 1
    <3>1. q[i] \in ToSet(q)
      BY <1>1, <2>1 DEF ToSet
    <3> QED
      BY <1>1, <2>1, <2>3, <3>1
  <2> QED
    BY <1>1, <2>2, <2>3
<1> QED
  BY <1>2 DEF Increasing

LEMMA TailDistinct ==
  ASSUME NEW S, NEW q \in Seq(S), q # <<>>, Distinct(q)
  PROVE  Distinct(Tail(q)) /\ Head(q) \notin ToSet(Tail(q))
<1>1. /\ Len(q) \in Nat /\ DOMAIN q = 1 .. Len(q) /\ Head(q) = q[1] /\ Len(q) >= 1
      /\ DOMAIN Tail(q) = 1 .. Len(q) - 1
      /\ \A i \in 1 .. Len(q) - 1 : Tail(q)[i] = q[i + 1]
  OBVIOUS
<1>2. ASSUME NEW i \in DOMAIN Tail(q), NEW j \in DOMAIN Tail(q), Tail(q)[i] = Tail(q)[j]
      PROVE  i = j
  <2>1. i + 1 \in DOMAIN q /\ j + 1 \in DOMAIN q /\ q[i + 1] = q[j + 1]
    BY <1>1, <1>2
  <2>2. i + 1 = j + 1
    BY <2>1 DEF Distinct
  <2> QED
    BY <1>1, <2>2
<1>3. ASSUME NEW i \in DOMAIN Tail(q) PROVE Tail(q)[i] # Head(q)
  <2>1. i + 1 \in DOMAIN q /\ 1 \in DOMAIN q /\ i + 1 # 1 /\ Tail(q)[i] = q[i + 1]
    BY <1>1
  <2> QED
    BY <1>1, <2>1 DEF Distinct
<1> QED
  BY <1>2, <1>3 DEF Distinct, ToSet

LEMMA RemoveAtType ==
  ASSUME NEW S, NEW q \in Seq(S), NEW i \in DOMAIN q
  PROVE  /\ RemoveAt(q, i) \in Seq(S) /\ DOMAIN RemoveAt(q, i) = 1 .. Len(q) - 1
         /\ \A k \in 1 .. Len(q) - 1 :
               RemoveAt(q, i)[k] = IF k < i THEN q[k] ELSE q[k + 1]
<1> DEFINE r == RemoveAt(q, i)
<1> DEFINE n == Len(q)
           u == SubSeq(q, 1, i - 1)
           v == SubSeq(q, i + 1, n)
<1>1. n \in Nat /\ DOMAIN q = 1 .. n /\ i \in 1 .. n
  OBVIOUS
<1>2. /\ u \in Seq(S) /\ Len(u) = i - 1
      /\ \A k \in 1 .. i - 1 : u[k] = q[k]
  BY <1>1
<1>3. /\ v \in Seq(S) /\ Len(v) = n - i
      /\ \A k \in 1 .. n - i : v[k] = q[i + k]
  BY <1>1
<1>4. r = u \o v
  BY DEF RemoveAt
<1> HIDE DEF u, v, n, r
<1>5. r \in Seq(S) /\ Len(r) = n - 1 /\ DOMAIN r = 1 .. n - 1
  <2>1. r \in Seq(S) /\ Len(r) = Len(u) + Len(v) /\ DOMAIN r = 1 .. Len(r)
    <3>1. u \in Seq(S) /\ v \in Seq(S)
      BY <1>2, <1>3
    <3> QED
      BY <1>4, <3>1, ConcatProperties
  <2>2. (i - 1) + (n - i) = n - 1
    BY <1>1
  <2> QED
    BY <1>2, <1>3, <2>1, <2>2
<1>6. ASSUME NEW k \in 1 .. n - 1 PROVE r[k] = IF k < i THEN q[k] ELSE q[k + 1]
  <2>1. CASE k < i
    BY <1>1, <1>2, <1>3, <1>4, <2>1
  <2>2. CASE ~(k < i)
    <3>1. r[k] = v[k - (i - 1)] /\ k - (i - 1) \in 1 .. n - i /\ i + (k - (i - 1)) = k + 1
      BY <1>1, <1>2, <1>3, <1>4, <2>2
    <3> QED
      BY <1>3, <2>2, <3>1
  <2> QED
    BY <2>1, <2>2
<1> QED
  BY <1>1, <1>5, <1>6 DEF n, r

LEMMA RemoveAtSet ==
  ASSUME NEW S, NEW q \in Seq(S), NEW i \in DOMAIN q, Distinct(q)
  PROVE  /\ RemoveAt(q, i) \in Seq(S) /\ Distinct(RemoveAt(q, i))
         /\ \A x \in ToSet(q) : x # q[i] => x \in ToSet(RemoveAt(q, i))
<1> DEFINE r == RemoveAt(q, i)
<1>1. /\ Len(q) \in Nat /\ DOMAIN q = 1 .. Len(q) /\ i \in 1 .. Len(q)
      /\ r \in Seq(S) /\ DOMAIN r = 1 .. Len(q) - 1
      /\ \A k \in 1 .. Len(q) - 1 : r[k] = IF k < i THEN q[k] ELSE q[k + 1]
  BY RemoveAtType
<1> HIDE DEF r
<1>2. ASSUME NEW k \in DOMAIN r, NEW m \in DOMAIN r, r[k] = r[m] PROVE k = m
  <2> DEFINE K == IF k < i THEN k ELSE k + 1
             M == IF m < i THEN m ELSE m + 1
  <2>1. K \in DOMAIN q /\ M \in DOMAIN q /\ q[K] = q[M]
    BY <1>1, <1>2
  <2>2. K = M
    BY <2>1 DEF Distinct
  <2> QED
    BY <1>1, <2>2
<1>3. ASSUME NEW x \in ToSet(q), x # q[i] PROVE x \in ToSet(r)
  <2>1. PICK k \in DOMAIN q : x = q[k]
    BY DEF ToSet
  <2> DEFINE m == IF k < i THEN k ELSE k - 1
  <2>2. m \in DOMAIN r /\ r[m] = x
    BY <1>1, <1>3, <2>1
  <2> QED
    BY <2>2 DEF ToSet
<1> QED
  BY <1>1, <1>2, <1>3 DEF Distinct, r

-----------------------------------------------------------------------------
(* Every variable in its range; the sample being published has a number.   *)

Types == TypeOK /\ (bus # "idle" => seq \in Samples)

LEMMA TypesStep ==
  ASSUME Types, [Next]_vars
  PROVE  Types'
<1> DEFINE Places == {"new", "run", "test", "wait", "drain", "write", "join",
                      "unlist", "shut", "sinks", "done", "raised"}
<1>e. <<>> \in Seq(Samples) /\ <<>> \in Seq(SinkSet) /\ Len(<<>>) <= MaxLen
  BY LenAssumption
<1>f. ASSUME buf' = <<>> PROVE buf' \in Seq(Samples) /\ Len(buf') <= MaxLen
  BY <1>e, <1>f
<1> USE LenAssumption DEF Types, TypeOK, Samples, Drainers
<1>0. CASE UNCHANGED vars
  BY <1>0 DEF vars, busVars, hwVars, streamVars, recVars, sinkVars
<1>1. CASE Tick
  BY <1>1 DEF Tick, hwVars, streamVars, recVars, sinkVars
<1>2. CASE FanOut
  BY <1>2 DEF FanOut, hwVars, streamVars, recVars, sinkVars
<1>3. CASE Put
  <2>1. CASE closed
    BY <1>3, <2>1 DEF Put, hwVars, recVars, sinkVars
  <2>2. CASE ~closed
    <3> DEFINE rest == IF Len(buf) = MaxLen THEN Tail(buf) ELSE buf
    <3>1. rest \in Seq(Samples) /\ Len(rest) < MaxLen
          /\ (Len(buf) = MaxLen => Head(buf) \in Samples)
      <4>1. CASE Len(buf) = MaxLen
        <5>1. buf # <<>>
          BY <4>1
        <5> QED
          BY <4>1, <5>1, TailSet
      <4> QED
        BY <4>1
    <3>2. seq \in Samples /\ buf' = Append(rest, seq)
      BY <1>3, <2>2 DEF Put
    <3> HIDE DEF rest
    <3>3. buf' \in Seq(Samples) /\ Len(buf') <= MaxLen
      <4>1. buf' \in Seq(Samples) /\ Len(buf') = Len(rest) + 1
        BY <3>1, <3>2, AppendSet
      <4> QED
        BY <3>1, <4>1
    <3>4. accepted' \subseteq Samples /\ dropped' \subseteq Samples
      BY <1>3, <2>2, <3>1, <3>2 DEF Put
    <3> QED
      BY <1>3, <2>2, <3>3, <3>4 DEF Put, hwVars, recVars, sinkVars
  <2> QED
    BY <2>1, <2>2
<1>4. CASE SetEvent
  BY <1>4 DEF SetEvent, hwVars, recVars, sinkVars
<1>5. CASE StopInterface
  BY <1>5 DEF StopInterface, busVars, streamVars, recVars, sinkVars
<1>6. ASSUME CloseStream
      PROVE  /\ buf' \in Seq(Samples) /\ Len(buf') <= MaxLen /\ cut' \subseteq Samples
             /\ {event', closed'} \subseteq BOOLEAN
             /\ accepted' \subseteq Samples /\ dropped' \subseteq Samples
  <2>1. ToSet(buf) \subseteq Samples
    BY DEF ToSet
  <2> QED
    BY <1>6, <1>f, <2>1 DEF CloseStream
<1>7. CASE CloseListed
  BY <1>6, <1>7 DEF CloseListed, busVars, recVars, sinkVars
<1>8. CASE Unsubscribe
  BY <1>6, <1>8 DEF Unsubscribe, Goto, busVars, hwVars, sinkVars
<1>9. CASE \E a \in Drainers : Drain(a)
  <2>1. PICK a \in Drainers : Drain(a)
    BY <1>9
  <2>2. /\ batch' \in [Drainers -> Seq(Samples)] /\ todo' \in [Drainers -> Seq(SinkSet)]
        /\ at' \in [Drainers -> Places]
    BY <2>1 DEF Drain, Goto
  <2>3. buf' \in Seq(Samples) /\ Len(buf') <= MaxLen /\ event' \in BOOLEAN
    BY <1>f, <2>1 DEF Drain
  <2> QED
    BY <2>1, <2>2, <2>3 DEF Drain, busVars, hwVars, sinkVars
<1>10. ASSUME NEW a \in Drainers, Write(a)
       PROVE  Types'
  <2>1. Head(batch[a]) \in Samples
    BY <1>10, TailSet DEF Write
  <2>2. Head(todo[a]) \in SinkSet /\ Tail(todo[a]) \in Seq(SinkSet)
    BY <1>10, TailSet DEF Write
  <2>3. written' \in [SinkSet -> Seq(Samples)]
    BY <1>10, <2>1, <2>2 DEF Write
  <2> QED
    BY <1>10, <2>2, <2>3 DEF Write, busVars, hwVars, streamVars
<1>11. ASSUME NEW a \in Drainers, WriteFails(a)
       PROVE  Types'
  <2>1. Head(todo[a]) \in SinkSet /\ Tail(todo[a]) \in Seq(SinkSet)
    BY <1>11, TailSet DEF WriteFails
  <2>2. \A i \in DOMAIN sinks : RemoveAt(sinks, i) \in Seq(SinkSet)
    BY RemoveAtType
  <2>3. sinks' \in Seq(SinkSet) /\ failed' \subseteq SinkSet
    BY <1>11, <2>1, <2>2 DEF WriteFails
  <2>4. /\ todo' \in [Drainers -> Seq(SinkSet)] /\ batch' \in [Drainers -> Seq(Samples)]
        /\ at' \in [Drainers -> Places]
    <3>1. CASE /\ todo' = [todo EXCEPT ![a] = Tail(@)]
               /\ UNCHANGED <<at, batch>>
      BY <2>1, <3>1
    <3>2. CASE /\ Goto(a, "raised")
               /\ batch' = [batch EXCEPT ![a] = <<>>]
               /\ todo' = [todo EXCEPT ![a] = <<>>]
      BY <1>e, <3>2 DEF Goto
    <3> QED
      BY <1>11, <3>1, <3>2 DEF WriteFails
  <2> QED
    BY <1>11, <2>3, <2>4 DEF WriteFails, busVars, hwVars, streamVars, sinkVars
<1>12. ASSUME NEW a \in Drainers, NextSample(a)
       PROVE  Types'
  <2>1. Tail(batch[a]) \in Seq(Samples)
    BY <1>12, TailSet DEF NextSample
  <2> QED
    BY <1>12, <2>1 DEF NextSample, busVars, hwVars, streamVars, sinkVars
<1>13. CASE \E a \in Drainers : DrainDone(a)
  BY <1>13 DEF DrainDone, Goto, busVars, hwVars, streamVars, sinkVars
<1>14. CASE LoopTest
  BY <1>14 DEF LoopTest, Goto, busVars, hwVars, streamVars, sinkVars
<1>15. CASE LoopWait
  BY <1>15 DEF LoopWait, Goto, busVars, hwVars, streamVars, sinkVars
<1>16. CASE StartRecorder
  BY <1>16 DEF StartRecorder, busVars, streamVars, sinkVars
<1>17. CASE StopRecorder
  BY <1>17 DEF StopRecorder, Goto, busVars, hwVars, streamVars, sinkVars
<1>18. CASE Join
  BY <1>18 DEF Join, Goto, busVars, hwVars, streamVars, sinkVars
<1>19. CASE Unlist
  BY <1>19 DEF Unlist, Goto, busVars, streamVars, sinkVars
<1>20. CASE CloseSinks
  <2>1. ToSet(sinks) \subseteq SinkSet
    BY DEF ToSet
  <2> QED
    BY <1>20, <2>1 DEF CloseSinks, Goto, busVars, hwVars, streamVars
<1> QED
  BY <1>0, <1>1, <1>2, <1>3, <1>4, <1>5, <1>7, <1>8, <1>9, <1>10, <1>11, <1>12, <1>13,
     <1>14, <1>15, <1>16, <1>17, <1>18, <1>19, <1>20
     DEF Next, BusStep, ThreadStep, OwnerStep, DrainStep, Terminated

LEMMA TypesHold == Spec => []Types
<1>1. Init => Types
  <2> SUFFICES ASSUME Init PROVE Types
    OBVIOUS
  <2>1. <<>> \in Seq(Samples) /\ <<>> \in Seq(SinkSet) /\ Len(<<>>) <= MaxLen
    BY LenAssumption
  <2>2. buf \in Seq(Samples) /\ Len(buf) <= MaxLen
    BY <2>1 DEF Init
  <2>3. /\ batch \in [Drainers -> Seq(Samples)] /\ todo \in [Drainers -> Seq(SinkSet)]
        /\ written \in [SinkSet -> Seq(Samples)]
    BY <2>1 DEF Init
  <2>4. /\ seq = 0 /\ bus = "idle" /\ hw = "open" /\ at = [a \in Drainers |-> "new"]
        /\ listed = FALSE /\ event = FALSE /\ closed = FALSE /\ running = FALSE /\ late = FALSE
        /\ accepted = {} /\ dropped = {} /\ cut = {} /\ failed = {} /\ shut = {}
        /\ sinks \in Seq(SinkSet)
    BY SinksAssumption DEF Init
  <2>5. seq \in 0 .. MaxTicks
    BY <2>4, LenAssumption
  <2>6. {listed, event, closed, running, late} \subseteq BOOLEAN
    BY <2>4
  <2>7. at \in [Drainers -> {"new", "run", "test", "wait", "drain", "write", "join",
                            "unlist", "shut", "sinks", "done", "raised"}]
    BY <2>4
  <2> QED
    BY <2>2, <2>3, <2>4, <2>5, <2>6, <2>7 DEF Types, TypeOK
<1>2. Types /\ [Next]_vars => Types'
  BY TypesStep
<1> QED
  BY <1>1, <1>2, PTL DEF Spec

\* Every variable stays in its range: the stream never holds more than maxlen samples.
THEOREM TelemetryTypes == Spec => []TypeOK
<1>1. Types => TypeOK
  BY DEF Types
<1> QED
  BY <1>1, TypesHold, PTL

-----------------------------------------------------------------------------
(* The event and the buffer. *)

\* A consumer that waits is never left asleep over data: while a sample is buffered,
\* the event is set or the bus thread is about to set it.
THEOREM WakeupKept == Spec => []NoLostWakeup
<1>1. Init => NoLostWakeup
  BY DEF Init, NoLostWakeup
<1>2. ASSUME NoLostWakeup, [Next]_vars PROVE NoLostWakeup'
  <2> USE <1>2 DEF NoLostWakeup
  <2>1. CASE Put
    BY <2>1 DEF Put
  <2>2. CASE SetEvent
    BY <2>2 DEF SetEvent
  <2>3. CASE CloseListed \/ Unsubscribe
    BY <2>3 DEF CloseListed, Unsubscribe, CloseStream
  <2>4. CASE \E a \in Drainers : Drain(a)
    BY <2>4 DEF Drain
  <2>5. CASE Tick \/ FanOut
    BY <2>5 DEF Tick, FanOut, streamVars
  <2>6. CASE UNCHANGED <<buf, event, bus>>
    BY <2>6
  <2>7. CASE StopInterface \/ LoopTest \/ LoopWait \/ StartRecorder \/ StopRecorder
               \/ Join \/ Unlist \/ CloseSinks \/ Terminated \/ UNCHANGED vars
    BY <2>6, <2>7 DEF StopInterface, LoopTest, LoopWait, StartRecorder, StopRecorder, Join,
       Unlist, CloseSinks, Terminated, vars, busVars, streamVars
  <2>8. CASE \E a \in Drainers : Write(a) \/ WriteFails(a) \/ NextSample(a) \/ DrainDone(a)
    BY <2>6, <2>8 DEF Write, WriteFails, NextSample, DrainDone, busVars, streamVars
  <2> QED
    BY <2>1, <2>2, <2>3, <2>4, <2>5, <2>7, <2>8
       DEF Next, BusStep, ThreadStep, OwnerStep, DrainStep, Drainers
<1> QED
  BY <1>1, <1>2, PTL DEF Spec

-----------------------------------------------------------------------------
(* The order of the samples: what the bus thread is about to publish is newer *)
(* than everything accepted, and every queue runs from the oldest to the      *)
(* newest.                                                                     *)

Order ==
    /\ \A x \in accepted : x <= seq /\ (bus \in {"fan", "put"} => x < seq)
    /\ ToSet(buf) \subseteq accepted /\ dropped \subseteq accepted
    /\ Increasing(buf)
    /\ \A a \in Drainers : Increasing(batch[a])
    /\ DropsOldest

LEMMA EmptyIncreasing == Increasing(<<>>)
BY DEF Increasing

LEMMA PutOrder ==
  ASSUME Types, Order, Put
  PROVE  Order'
<1>1. CASE closed
  BY <1>1 DEF Put, Order, DropsOldest, recVars
<1>2. CASE ~closed
  <2> DEFINE full == Len(buf) = MaxLen
             rest == IF full THEN Tail(buf) ELSE buf
  <2>1. /\ buf' = Append(rest, seq) /\ accepted' = accepted \cup {seq} /\ seq' = seq
        /\ bus' = "set" /\ bus = "put" /\ batch' = batch
        /\ dropped' = IF full THEN dropped \cup {Head(buf)} ELSE dropped
    BY <1>2 DEF Put, recVars
  <2>2. seq \in Nat /\ accepted \subseteq Nat /\ buf \in Seq(Nat) /\ Len(buf) \in Nat
    BY LenAssumption DEF Types, TypeOK, Samples
  <2>3. \A x \in accepted : x < seq
    BY <2>1 DEF Order
  <2>4. full => /\ buf # <<>> /\ Head(buf) \in ToSet(buf)
                /\ ToSet(buf) = {Head(buf)} \cup ToSet(Tail(buf))
                /\ Tail(buf) \in Seq(Nat) /\ Increasing(Tail(buf))
                /\ \A x \in ToSet(Tail(buf)) : Head(buf) < x
    <3>1. full => buf # <<>>
      BY LenAssumption
    <3> QED
      BY <3>1, <2>2, TailSet, TailIncreasing DEF Order
  <2>5. /\ rest \in Seq(Nat) /\ Increasing(rest) /\ ToSet(rest) \subseteq ToSet(buf)
    BY <2>2, <2>4 DEF Order
  <2>6. \A d \in dropped', x \in ToSet(rest) : d < x
    <3>1. CASE full
      BY <2>1, <2>4, <3>1 DEF Order, DropsOldest
    <3>2. CASE ~full
      BY <2>1, <3>2 DEF Order, DropsOldest
    <3> QED
      BY <3>1, <3>2
  <2>7. dropped' \subseteq accepted
    BY <2>1, <2>4 DEF Order
  <2> HIDE DEF rest
  <2>8. ToSet(buf') = ToSet(rest) \cup {seq}
    <3>1. ToSet(Append(rest, seq)) = ToSet(rest) \cup {seq}
      BY <2>2, <2>5, AppendSet
    <3> QED
      BY <2>1, <3>1
  <2>9. Increasing(buf')
    BY <2>1, <2>2, <2>3, <2>5, AppendIncreasing DEF Order
  <2>10. \A d \in dropped', x \in ToSet(buf)' : d < x
    BY <2>3, <2>6, <2>7, <2>8
  <2>11. ToSet(buf)' \subseteq accepted' /\ dropped' \subseteq accepted'
    BY <2>1, <2>5, <2>7, <2>8 DEF Order
  <2>12. \A x \in accepted' : x <= seq' /\ (bus' \in {"fan", "put"} => x < seq')
    <3>1. \A x \in accepted : x <= seq
      BY <2>2, <2>3
    <3>2. seq <= seq
      BY <2>2
    <3> QED
      BY <2>1, <3>1, <3>2
  <2> QED
    BY <2>1, <2>9, <2>10, <2>11, <2>12 DEF Order, DropsOldest
<1> QED
  BY <1>1, <1>2

LEMMA OrderStep ==
  ASSUME Types, Order, [Next]_vars
  PROVE  Order'
<1>1. CASE Put
  BY <1>1, PutOrder
<1>2. ASSUME /\ \/ seq' = seq + 1
                \/ seq' = seq /\ (bus' \in {"fan", "put"} => bus \in {"fan", "put"})
             /\ UNCHANGED <<accepted, buf, dropped, batch>>
      PROVE  Order'
  BY <1>2, LenAssumption DEF Order, DropsOldest, Types, TypeOK, Samples
<1>3. CASE Tick \/ FanOut
  BY <1>2, <1>3 DEF Tick, FanOut, streamVars, recVars
<1>4. CASE CloseListed \/ Unsubscribe
  <2>1. /\ buf' = <<>> /\ UNCHANGED <<accepted, dropped, batch, seq, bus>>
    BY <1>4 DEF CloseListed, Unsubscribe, CloseStream, busVars, recVars
  <2> QED
    BY <2>1, EmptySet, EmptyIncreasing DEF Order, DropsOldest
<1>5. ASSUME NEW a \in Drainers, Drain(a) PROVE Order'
  <2>1. /\ buf' = <<>> /\ UNCHANGED <<accepted, dropped, seq, bus>>
        /\ batch' = [batch EXCEPT ![a] = buf]
    BY <1>5 DEF Drain, busVars
  <2>2. \A b \in Drainers : Increasing(batch[b])'
    BY <2>1 DEF Order, Types, TypeOK
  <2> QED
    BY <2>1, <2>2, EmptySet, EmptyIncreasing DEF Order, DropsOldest
<1>6. ASSUME UNCHANGED <<accepted, buf, dropped, seq, bus>>,
             \A b \in Drainers : Increasing(batch[b])'
      PROVE  Order'
  BY <1>6 DEF Order, DropsOldest
<1>7. ASSUME NEW a \in Drainers, NextSample(a) PROVE Order'
  <2>1. /\ UNCHANGED <<accepted, buf, dropped, seq, bus>> /\ batch[a] # <<>>
        /\ batch' = [batch EXCEPT ![a] = Tail(@)]
    BY <1>7 DEF NextSample, busVars, streamVars
  <2>2. Increasing(Tail(batch[a]))
    <3>1. batch[a] \in Seq(Nat)
      BY LenAssumption DEF Types, TypeOK, Samples
    <3> QED
      BY <2>1, <3>1, TailIncreasing DEF Order
  <2>3. \A b \in Drainers : Increasing(batch[b])'
    BY <2>1, <2>2 DEF Order, Types, TypeOK
  <2> QED
    BY <1>6, <2>1, <2>3
<1>8. ASSUME NEW a \in Drainers, WriteFails(a) PROVE Order'
  <2>1. UNCHANGED <<accepted, buf, dropped, seq, bus>>
    BY <1>8 DEF WriteFails, busVars, streamVars
  <2>2. batch' = batch \/ batch' = [batch EXCEPT ![a] = <<>>]
    BY <1>8 DEF WriteFails
  <2>3. \A b \in Drainers : Increasing(batch[b])'
    BY <2>2, EmptyIncreasing DEF Order, Types, TypeOK
  <2> QED
    BY <1>6, <2>1, <2>3
<1>9. CASE \/ StopInterface \/ LoopTest \/ LoopWait \/ StartRecorder \/ StopRecorder
           \/ Join \/ Unlist \/ CloseSinks \/ Terminated \/ UNCHANGED vars
  BY <1>2, <1>9 DEF StopInterface, LoopTest, LoopWait, StartRecorder, StopRecorder, Join,
     Unlist, CloseSinks, Terminated, vars, busVars, streamVars, recVars
<1>10. CASE \E a \in Drainers : Write(a) \/ DrainDone(a)
  BY <1>2, <1>10 DEF Write, DrainDone, busVars, streamVars
<1>11. CASE SetEvent
  BY <1>2, <1>11 DEF SetEvent, recVars
<1> QED
  BY <1>1, <1>3, <1>4, <1>5, <1>7, <1>8, <1>9, <1>10, <1>11
     DEF Next, BusStep, ThreadStep, OwnerStep, DrainStep, Drainers

LEMMA OrderHolds == Spec => []Order
<1>1. Init => Order
  BY EmptySet, EmptyIncreasing DEF Init, Order, DropsOldest, Drainers
<1>2. Types /\ Order /\ [Next]_vars => Order'
  BY OrderStep
<1> QED
  BY <1>1, <1>2, TypesHold, PTL DEF Spec

\* A consumer that stops draining loses the oldest samples, never the newest: what was
\* dropped from the stream is older than everything that stays in it.
THEOREM DropsAreOldest == Spec => []DropsOldest
<1>1. Order => DropsOldest
  BY DEF Order
<1> QED
  BY <1>1, OrderHolds, PTL

-----------------------------------------------------------------------------
(* The sinks: none is listed twice, every sink that did not fail is still      *)
(* listed, and only a drainer that is writing holds samples.  The recorder's   *)
(* thread does not run before it is started.                                   *)

Roster ==
    /\ Distinct(sinks) /\ \A a \in Drainers : Distinct(todo[a])
    /\ SinkSet \ failed \subseteq ToSet(sinks)
    /\ \A a \in Drainers : at[a] # "write" => batch[a] = <<>>
    /\ at["owner"] = "new" => at["thread"] = "new"

LEMMA EmptyDistinct == Distinct(<<>>)
BY DEF Distinct

\* A step that only moves the drainers outside _drain_once.
LEMMA RosterMoves ==
  ASSUME Roster, UNCHANGED <<sinks, todo, failed, batch>>,
         \A a \in Drainers : at'[a] # "write" => at[a] # "write" \/ batch[a] = <<>>,
         at'["owner"] = "new" => at["owner"] = "new" /\ at'["thread"] = at["thread"]
  PROVE  Roster'
BY DEF Roster

LEMMA RosterStep ==
  ASSUME Types, Roster, [Next]_vars
  PROVE  Roster'
<1>0. at \in [Drainers -> {"new", "run", "test", "wait", "drain", "write", "join",
                           "unlist", "shut", "sinks", "done", "raised"}]
      /\ "thread" \in Drainers /\ "owner" \in Drainers
  BY DEF Types, TypeOK, Drainers
<1>1. CASE UNCHANGED <<sinks, todo, failed, batch, at>>
  BY <1>1, RosterMoves
<1>2. CASE BusStep \/ StopInterface \/ CloseListed \/ Terminated \/ UNCHANGED vars
  BY <1>1, <1>2 DEF BusStep, Tick, FanOut, Put, SetEvent, StopInterface, CloseListed,
     Terminated, vars, recVars
<1>3. ASSUME UNCHANGED <<sinks, todo, failed, batch>>,
             NEW a \in Drainers, NEW p, p # "new", Goto(a, p), at[a] # "write", at[a] # "new"
      PROVE  Roster'
  <2>1. at' = [at EXCEPT ![a] = p]
    BY <1>3 DEF Goto
  <2>2. at'["owner"] = "new" => at["owner"] = "new" /\ at'["thread"] = at["thread"]
    BY <1>0, <1>3, <2>1 DEF Roster
  <2>3. \A b \in Drainers : at'[b] # "write" => at[b] # "write"
    BY <1>0, <1>3, <2>1
  <2> QED
    BY <1>3, <2>2, <2>3, RosterMoves
<1>4. CASE LoopTest \/ LoopWait
  BY <1>0, <1>3, <1>4 DEF LoopTest, LoopWait
<1>5. CASE StopRecorder \/ Join \/ Unlist \/ Unsubscribe \/ CloseSinks
  BY <1>0, <1>3, <1>5 DEF StopRecorder, Join, Unlist, Unsubscribe, CloseSinks
<1>6. CASE StartRecorder
  <2>1. at["owner"] = "new" /\ at["thread"] = "new"
    BY <1>6 DEF StartRecorder, Roster
  <2>2. /\ UNCHANGED <<sinks, todo, failed, batch>>
        /\ at' = [a \in Drainers |-> IF a = "thread" THEN "test" ELSE "run"]
    BY <1>6 DEF StartRecorder
  <2>3. \A a \in Drainers : at[a] # "write"
    BY <2>1 DEF Drainers
  <2> QED
    BY <1>0, <2>2, <2>3, RosterMoves
<1>7. ASSUME NEW a \in Drainers, Drain(a) PROVE Roster'
  <2>1. /\ at' = [at EXCEPT ![a] = "write"] /\ batch' = [batch EXCEPT ![a] = buf]
        /\ todo' = [todo EXCEPT ![a] = sinks] /\ UNCHANGED <<sinks, failed>>
        /\ at[a] = "drain"
    BY <1>7 DEF Drain, Goto
  <2>2. \A b \in Drainers : Distinct(todo[b])'
    BY <2>1 DEF Roster, Types, TypeOK
  <2>3. \A b \in Drainers : at'[b] # "write" => batch'[b] = <<>>
    BY <1>0, <2>1 DEF Roster, Types, TypeOK
  <2>4. at'["owner"] = "new" => at'["thread"] = "new"
    BY <1>0, <2>1 DEF Roster
  <2> QED
    BY <2>1, <2>2, <2>3, <2>4 DEF Roster
<1>8. ASSUME NEW a \in Drainers, Write(a) PROVE Roster'
  <2>1. /\ todo' = [todo EXCEPT ![a] = Tail(@)] /\ UNCHANGED <<sinks, failed, at, batch>>
        /\ todo[a] # <<>>
    BY <1>8 DEF Write
  <2>2. todo[a] \in Seq(SinkSet) /\ todo \in [Drainers -> Seq(SinkSet)]
    BY DEF Types, TypeOK
  <2>3. Distinct(Tail(todo[a]))
    BY <2>1, <2>2, TailDistinct DEF Roster
  <2>4. \A b \in Drainers : Distinct(todo[b])'
    BY <2>1, <2>2, <2>3 DEF Roster
  <2> QED
    BY <2>1, <2>4 DEF Roster
<1>9. ASSUME NEW a \in Drainers, WriteFails(a) PROVE Roster'
  <2> DEFINE s == Head(todo[a])
  <2>1. todo[a] # <<>> /\ at[a] = "write"
    BY <1>9 DEF WriteFails
  <2>2. /\ todo[a] \in Seq(SinkSet) /\ todo \in [Drainers -> Seq(SinkSet)]
        /\ sinks \in Seq(SinkSet) /\ batch \in [Drainers -> Seq(Samples)]
    BY DEF Types, TypeOK
  <2>3. CASE /\ \E i \in DOMAIN sinks : sinks[i] = s /\ sinks' = RemoveAt(sinks, i)
             /\ failed' = failed \cup {s}
             /\ todo' = [todo EXCEPT ![a] = Tail(@)]
             /\ UNCHANGED <<at, batch>>
    <3>1. PICK i \in DOMAIN sinks : sinks[i] = s /\ sinks' = RemoveAt(sinks, i)
      BY <2>3
    <3>2. Distinct(sinks') /\ \A x \in ToSet(sinks) : x # s => x \in ToSet(sinks')
      BY <2>2, <3>1, RemoveAtSet DEF Roster
    <3>3. Distinct(Tail(todo[a]))
      BY <2>1, <2>2, TailDistinct DEF Roster
    <3>4. \A b \in Drainers : Distinct(todo[b])'
      BY <2>2, <2>3, <3>3 DEF Roster
    <3>5. SinkSet \ failed' \subseteq ToSet(sinks')
      BY <2>3, <3>2 DEF Roster
    <3> QED
      BY <2>3, <3>2, <3>4, <3>5 DEF Roster
  <2>4. CASE /\ Goto(a, "raised")
             /\ batch' = [batch EXCEPT ![a] = <<>>]
             /\ todo' = [todo EXCEPT ![a] = <<>>]
             /\ UNCHANGED <<sinks, failed>>
    <3>1. \A b \in Drainers : Distinct(todo[b])'
      BY <2>2, <2>4, EmptyDistinct DEF Roster
    <3>2. \A b \in Drainers : at'[b] # "write" => batch'[b] = <<>>
      BY <1>0, <2>2, <2>4 DEF Roster, Goto
    <3>3. at'["owner"] = "new" => at'["thread"] = "new"
      BY <1>0, <2>1, <2>4 DEF Roster, Goto
    <3> QED
      BY <2>4, <3>1, <3>2, <3>3 DEF Roster
  <2> QED
    BY <1>9, <2>3, <2>4 DEF WriteFails
<1>10. ASSUME NEW a \in Drainers, NextSample(a) PROVE Roster'
  <2>1. /\ todo' = [todo EXCEPT ![a] = sinks] /\ batch' = [batch EXCEPT ![a] = Tail(@)]
        /\ at[a] = "write" /\ UNCHANGED <<sinks, failed, at>>
    BY <1>10 DEF NextSample
  <2>2. \A b \in Drainers : Distinct(todo[b])'
    BY <2>1 DEF Roster, Types, TypeOK
  <2>3. \A b \in Drainers : at'[b] # "write" => batch'[b] = <<>>
    BY <2>1 DEF Roster, Types, TypeOK
  <2> QED
    BY <2>1, <2>2, <2>3 DEF Roster
<1>11. ASSUME NEW a \in Drainers, DrainDone(a) PROVE Roster'
  <2>1. /\ at' = [at EXCEPT ![a] = IF a = "thread" THEN "test" ELSE "unlist"]
        /\ todo' = [todo EXCEPT ![a] = <<>>] /\ at[a] = "write" /\ batch[a] = <<>>
        /\ UNCHANGED <<sinks, failed, batch>>
    BY <1>11 DEF DrainDone, Goto
  <2>2. \A b \in Drainers : Distinct(todo[b])'
    BY <2>1, EmptyDistinct DEF Roster, Types, TypeOK
  <2>3. \A b \in Drainers : at'[b] # "write" => batch'[b] = <<>>
    BY <1>0, <2>1 DEF Roster
  <2>4. at'["owner"] = "new" => at'["thread"] = "new"
    BY <1>0, <2>1 DEF Roster
  <2> QED
    BY <2>1, <2>2, <2>3, <2>4 DEF Roster
<1> QED
  BY <1>2, <1>4, <1>5, <1>6, <1>7, <1>8, <1>9, <1>10, <1>11
     DEF Next, ThreadStep, OwnerStep, DrainStep, Drainers

LEMMA RosterHolds == Spec => []Roster
<1>1. Init => Roster
  <2> SUFFICES ASSUME Init PROVE Roster
    OBVIOUS
  <2>1. /\ sinks = Sinks /\ \A a \in Drainers : todo[a] = <<>> /\ batch[a] = <<>>
        /\ failed = {} /\ at["thread"] = "new"
    BY DEF Init, Drainers
  <2>2. Distinct(Sinks)
    BY SinksAssumption DEF Distinct
  <2> QED
    BY <2>1, <2>2, EmptyDistinct DEF Roster, SinkSet
<1>2. Types /\ Roster /\ [Next]_vars => Roster'
  BY RosterStep
<1> QED
  BY <1>1, <1>2, TypesHold, PTL DEF Spec

-----------------------------------------------------------------------------
(* Where the accepted samples are, for one sink: written to it, held by the    *)
(* recorder's thread or by the owner, buffered, dropped or cut off by a close. *)

Split(all, w, t, o, b, d, c) ==
    /\ all = w \cup t \cup o \cup b \cup d \cup c
    /\ w \cap (t \cup o \cup b \cup d \cup c) = {}
    /\ t \cap (o \cup b \cup d \cup c) = {}
    /\ o \cap (b \cup d \cup c) = {}
    /\ b \cap (d \cup c) = {}
    /\ d \cap c = {}

Share(s) == Split(accepted, ToSet(written[s]), ToSet(Held("thread", s)),
                  ToSet(Held("owner", s)), ToSet(buf), dropped, cut)

Calm  == \A a \in Drainers : at[a] # "raised"
Whole == Calm => \A s \in SinkSet \ failed : Share(s)

\* What a drainer holds for a sink: its batch, without the head once it was offered.
LEMMA HeldSet ==
  ASSUME Types, NEW a \in Drainers, NEW s
  PROVE  /\ Held(a, s) \in Seq(Samples)
         /\ batch[a] = <<>> => Held(a, s) = <<>>
         /\ batch[a] # <<>> => Held(a, s) = IF s \in ToSet(todo[a]) THEN batch[a]
                                                                   ELSE Tail(batch[a])
<1>1. batch[a] \in Seq(Samples) /\ <<>> \in Seq(Samples)
  BY DEF Types, TypeOK
<1>2. batch[a] # <<>> => Tail(batch[a]) \in Seq(Samples)
  BY <1>1, TailSet
<1> QED
  BY <1>1, <1>2 DEF Held

\* A step that moves no sample, and revives no drainer.
LEMMA WholeKept ==
  ASSUME Whole, Calm' => Calm, UNCHANGED <<accepted, written, buf, dropped, cut, failed>>,
         \A s \in SinkSet \ failed, a \in Drainers : ToSet(Held(a, s))' = ToSet(Held(a, s))
  PROVE  Whole'
BY DEF Whole, Share, Drainers

LEMMA WholeAside ==
  ASSUME Whole, Calm' => Calm,
         UNCHANGED <<accepted, written, buf, dropped, cut, failed, batch, todo>>
  PROVE  Whole'
<1>1. \A s \in SinkSet \ failed, a \in Drainers : ToSet(Held(a, s))' = ToSet(Held(a, s))
  BY DEF Held
<1> QED
  BY <1>1, WholeKept

\* A drainer that raised is never run again.
LEMMA CalmBefore ==
  ASSUME Types, Roster, [Next]_vars
  PROVE  Calm' => Calm
<1>0. at \in [Drainers -> {"new", "run", "test", "wait", "drain", "write", "join",
                           "unlist", "shut", "sinks", "done", "raised"}]
      /\ Drainers = {"thread", "owner"}
  BY DEF Types, TypeOK, Drainers
<1>1. CASE UNCHANGED at
  BY <1>1 DEF Calm
<1>2. ASSUME NEW a \in Drainers, NEW p, Goto(a, p), at[a] # "raised" PROVE Calm' => Calm
  BY <1>0, <1>2 DEF Goto, Calm
<1>3. CASE BusStep \/ StopInterface \/ CloseListed \/ Terminated \/ UNCHANGED vars
  BY <1>1, <1>3 DEF BusStep, Tick, FanOut, Put, SetEvent, StopInterface, CloseListed,
     Terminated, vars, recVars
<1>4. CASE LoopTest \/ LoopWait
  BY <1>0, <1>2, <1>4 DEF LoopTest, LoopWait
<1>5. CASE StopRecorder \/ Join \/ Unlist \/ Unsubscribe \/ CloseSinks
  BY <1>0, <1>2, <1>5 DEF StopRecorder, Join, Unlist, Unsubscribe, CloseSinks
<1>6. CASE StartRecorder
  BY <1>0, <1>6 DEF StartRecorder, Roster, Calm
<1>7. ASSUME NEW a \in Drainers, Drain(a) \/ DrainDone(a) PROVE Calm' => Calm
  BY <1>2, <1>7 DEF Drain, DrainDone
<1>8. ASSUME NEW a \in Drainers, Write(a) \/ NextSample(a) PROVE Calm' => Calm
  BY <1>1, <1>8 DEF Write, NextSample
<1>9. ASSUME NEW a \in Drainers, WriteFails(a) PROVE Calm' => Calm
  BY <1>1, <1>2, <1>9 DEF WriteFails
<1> QED
  BY <1>0, <1>3, <1>4, <1>5, <1>6, <1>7, <1>8, <1>9
     DEF Next, ThreadStep, OwnerStep, DrainStep

LEMMA WholePut ==
  ASSUME Types, Order, Whole, Calm' => Calm, Put
  PROVE  Whole'
<1>1. CASE closed
  BY <1>1, WholeAside DEF Put, recVars, sinkVars
<1>2. CASE ~closed
  <2> DEFINE full == Len(buf) = MaxLen
  <2>1. /\ accepted' = accepted \cup {seq} /\ bus = "put"
        /\ buf' = Append(IF full THEN Tail(buf) ELSE buf, seq)
        /\ dropped' = IF full THEN dropped \cup {Head(buf)} ELSE dropped
        /\ UNCHANGED <<written, batch, todo, failed, cut>>
    BY <1>2 DEF Put, recVars, sinkVars
  <2>2. buf \in Seq(Nat) /\ seq \in Nat /\ accepted \subseteq Nat /\ seq \notin accepted
    <3>1. buf \in Seq(Nat) /\ seq \in Nat /\ accepted \subseteq Nat
      BY LenAssumption DEF Types, TypeOK, Samples
    <3>2. \A x \in accepted : x < seq
      BY <2>1 DEF Order
    <3> QED
      BY <3>1, <3>2
  <2>3. full => /\ ToSet(buf) = {Head(buf)} \cup ToSet(Tail(buf)) /\ Tail(buf) \in Seq(Nat)
                /\ Head(buf) \notin ToSet(Tail(buf))
    <3>1. full => buf # <<>>
      BY LenAssumption
    <3>2. full => \A x \in ToSet(Tail(buf)) : Head(buf) < x
      BY <2>2, <3>1, TailIncreasing DEF Order
    <3>3. full => Head(buf) \in Nat /\ Tail(buf) \in Seq(Nat)
                  /\ ToSet(buf) = {Head(buf)} \cup ToSet(Tail(buf))
      BY <2>2, <3>1, TailSet
    <3> QED
      BY <3>2, <3>3
  <2>4. /\ full => ToSet(buf') = ToSet(Tail(buf)) \cup {seq}
        /\ ~full => ToSet(buf') = ToSet(buf) \cup {seq}
    <3>1. \A q \in Seq(Nat) : ToSet(Append(q, seq)) = ToSet(q) \cup {seq}
      BY <2>2, AppendSet
    <3> HIDE DEF full
    <3> QED
      BY <2>1, <2>2, <2>3, <3>1
  <2>5. ASSUME Calm, NEW s \in SinkSet \ failed PROVE Share(s)'
    <3> DEFINE w == ToSet(written[s])
               t == ToSet(Held("thread", s))
               o == ToSet(Held("owner", s))
    <3>1. Split(accepted, w, t, o, ToSet(buf), dropped, cut)
      BY <2>5 DEF Whole, Share
    <3>2. w' = w /\ t' = t /\ o' = o
      BY <2>1 DEF Held
    <3> HIDE DEF w, t, o
    <3>3. Split(accepted', w, t, o, ToSet(buf'), dropped', cut)
      <4>1. CASE full
        <5>1. dropped' = dropped \cup {Head(buf)}
          BY <2>1, <4>1
        <5> HIDE DEF full
        <5> QED
          BY <2>1, <2>2, <2>3, <2>4, <3>1, <4>1, <5>1 DEF Split
      <4>2. CASE ~full
        <5>1. dropped' = dropped
          BY <2>1, <4>2
        <5> HIDE DEF full
        <5> QED
          BY <2>1, <2>2, <2>4, <3>1, <4>2, <5>1 DEF Split
      <4> QED
        BY <4>1, <4>2
    <3> USE DEF w, t, o
    <3> QED
      BY <2>1, <3>2, <3>3 DEF Share
  <2> QED
    BY <2>1, <2>5 DEF Whole
<1> QED
  BY <1>1, <1>2

LEMMA WholeClose ==
  ASSUME Types, Whole, Calm' => Calm, CloseStream,
         UNCHANGED <<written, batch, todo, failed>>
  PROVE  Whole'
<1>1. ToSet(buf') = {} /\ cut' = cut \cup ToSet(buf) /\ UNCHANGED <<accepted, dropped>>
  BY EmptySet DEF CloseStream
<1>2. ASSUME Calm, NEW s \in SinkSet \ failed PROVE Share(s)'
  <2>1. Share(s)
    BY <1>2 DEF Whole
  <2>2. /\ ToSet(Held("thread", s))' = ToSet(Held("thread", s))
        /\ ToSet(Held("owner", s))' = ToSet(Held("owner", s))
    BY DEF Held
  <2>3. Split(accepted, ToSet(written[s]), ToSet(Held("thread", s)),
              ToSet(Held("owner", s)), {}, dropped, cut \cup ToSet(buf))
    BY <2>1 DEF Share, Split
  <2> QED
    BY <1>1, <2>2, <2>3 DEF Share
<1> QED
  BY <1>2 DEF Whole

LEMMA WholeDrain ==
  ASSUME Types, Roster, Whole, Calm' => Calm, NEW a \in Drainers, Drain(a)
  PROVE  Whole'
<1>1. /\ batch' = [batch EXCEPT ![a] = buf] /\ todo' = [todo EXCEPT ![a] = sinks]
      /\ buf' = <<>> /\ UNCHANGED <<accepted, dropped, cut, failed, written>>
      /\ at[a] = "drain"
  BY DEF Drain, sinkVars
<1>2. batch \in [Drainers -> Seq(Samples)] /\ todo \in [Drainers -> Seq(SinkSet)]
  BY DEF Types, TypeOK
<1>3. ASSUME Calm, NEW s \in SinkSet \ failed PROVE Share(s)'
  <2>1. Share(s)
    BY <1>3 DEF Whole
  <2>2. Held(a, s) = <<>> /\ s \in ToSet(sinks)
    BY <1>1 DEF Roster, Held
  <2>3. Held(a, s)' = buf
    BY <1>1, <1>2, <2>2 DEF Held
  <2>4. \A b \in Drainers \ {a} : Held(b, s)' = Held(b, s)
    BY <1>1, <1>2 DEF Held
  <2>5. ToSet(buf') = {} /\ ToSet(Held(a, s)) = {}
    BY <1>1, <2>2, EmptySet
  <2>6. CASE a = "thread"
    <3>1. Held("thread", s)' = buf /\ Held("owner", s)' = Held("owner", s)
      BY <2>3, <2>4, <2>6 DEF Drainers
    <3>2. Split(accepted, ToSet(written[s]), ToSet(buf), ToSet(Held("owner", s)), {},
                dropped, cut)
      BY <2>1, <2>5, <2>6 DEF Share, Split
    <3> QED
      BY <1>1, <2>5, <3>1, <3>2 DEF Share
  <2>7. CASE a = "owner"
    <3>1. Held("owner", s)' = buf /\ Held("thread", s)' = Held("thread", s)
      BY <2>3, <2>4, <2>7 DEF Drainers
    <3>2. Split(accepted, ToSet(written[s]), ToSet(Held("thread", s)), ToSet(buf), {},
                dropped, cut)
      BY <2>1, <2>5, <2>7 DEF Share, Split
    <3> QED
      BY <1>1, <2>5, <3>1, <3>2 DEF Share
  <2> QED
    BY <2>6, <2>7 DEF Drainers
<1> QED
  BY <1>1, <1>3 DEF Whole

LEMMA WholeWrite ==
  ASSUME Types, Order, Roster, Whole, Calm' => Calm, NEW a \in Drainers, Write(a)
  PROVE  Whole'
<1> DEFINE h == Head(todo[a])
           x == Head(batch[a])
<1>1. /\ written' = [written EXCEPT ![h] = Append(@, x)]
      /\ todo' = [todo EXCEPT ![a] = Tail(@)] /\ batch[a] # <<>> /\ todo[a] # <<>>
      /\ UNCHANGED <<accepted, buf, dropped, cut, failed, batch>>
  BY DEF Write, streamVars
<1>2. /\ batch \in [Drainers -> Seq(Samples)] /\ todo \in [Drainers -> Seq(SinkSet)]
      /\ written \in [SinkSet -> Seq(Samples)] /\ batch[a] \in Seq(Nat)
  BY LenAssumption DEF Types, TypeOK, Samples
<1>3. /\ h \in SinkSet /\ ToSet(todo[a]) = {h} \cup ToSet(Tail(todo[a]))
      /\ h \notin ToSet(Tail(todo[a]))
  BY <1>1, <1>2, TailSet, TailDistinct DEF Roster
<1>4. /\ x \in Samples /\ ToSet(batch[a]) = {x} \cup ToSet(Tail(batch[a]))
      /\ x \notin ToSet(Tail(batch[a]))
  <2>1. x \in Samples /\ ToSet(batch[a]) = {x} \cup ToSet(Tail(batch[a])) /\ x \in Nat
    BY <1>1, <1>2, TailSet
  <2>2. \A y \in ToSet(Tail(batch[a])) : x < y
    BY <1>1, <1>2, TailIncreasing DEF Order
  <2> QED
    BY <2>1, <2>2
<1> HIDE DEF h, x
<1>5. ASSUME Calm, NEW s \in SinkSet \ failed PROVE Share(s)'
  <2>1. Share(s)
    BY <1>5 DEF Whole
  <2>2. \A b \in Drainers \ {a} : Held(b, s)' = Held(b, s)
    BY <1>1, <1>2 DEF Held
  <2>3. CASE s # h
    <3>1. written'[s] = written[s]
      BY <1>1, <1>2, <2>3
    <3>2. s \in ToSet(todo[a]) <=> s \in ToSet(todo'[a])
      BY <1>1, <1>2, <1>3, <2>3
    <3>3. Held(a, s)' = Held(a, s)
      BY <1>1, <3>2 DEF Held
    <3> QED
      BY <1>1, <2>1, <2>2, <3>1, <3>3 DEF Share, Drainers
  <2>4. CASE s = h
    <3>1. ToSet(written'[s]) = ToSet(written[s]) \cup {x}
      <4>1. written'[s] = Append(written[s], x) /\ written[s] \in Seq(Samples)
        BY <1>1, <1>2, <1>3, <2>4
      <4> QED
        BY <1>4, <4>1, AppendSet
    <3>2. Held(a, s) = batch[a]
      BY <1>1, <1>3, <2>4 DEF Held
    <3>3. Held(a, s)' = Tail(batch[a])
      <4>1. todo'[a] = Tail(todo[a])
        BY <1>1, <1>2
      <4> QED
        BY <1>1, <1>3, <2>4, <4>1 DEF Held
    <3> DEFINE w == ToSet(written[s])
               rest == ToSet(Tail(batch[a]))
    <3>4. ToSet(written'[s]) = w \cup {x} /\ ToSet(batch[a]) = {x} \cup rest /\ x \notin rest
      BY <1>4, <3>1
    <3> HIDE DEF w, rest
    <3>5. CASE a = "thread"
      <4>1. Split(accepted, w \cup {x}, rest, ToSet(Held("owner", s)), ToSet(buf), dropped, cut)
        BY <2>1, <3>2, <3>4, <3>5 DEF Share, Split, w
      <4>2. ToSet(Held("thread", s)') = rest /\ Held("owner", s)' = Held("owner", s)
        BY <2>2, <3>3, <3>5 DEF Drainers, rest
      <4> QED
        BY <1>1, <3>4, <4>1, <4>2 DEF Share
    <3>6. CASE a = "owner"
      <4>1. Split(accepted, w \cup {x}, ToSet(Held("thread", s)), rest, ToSet(buf), dropped, cut)
        BY <2>1, <3>2, <3>4, <3>6 DEF Share, Split, w
      <4>2. ToSet(Held("owner", s)') = rest /\ Held("thread", s)' = Held("thread", s)
        BY <2>2, <3>3, <3>6 DEF Drainers, rest
      <4> QED
        BY <1>1, <3>4, <4>1, <4>2 DEF Share
    <3> QED
      BY <3>5, <3>6 DEF Drainers
  <2> QED
    BY <2>3, <2>4
<1> QED
  BY <1>1, <1>5 DEF Whole

LEMMA WholeFails ==
  ASSUME Types, Whole, Calm' => Calm, NEW a \in Drainers, WriteFails(a)
  PROVE  Whole'
<1> DEFINE h == Head(todo[a])
<1>1. /\ batch[a] # <<>> /\ todo[a] # <<>>
      /\ UNCHANGED <<accepted, written, buf, dropped, cut>>
  BY DEF WriteFails, streamVars, sinkVars
<1>2. todo[a] \in Seq(SinkSet) /\ todo \in [Drainers -> Seq(SinkSet)]
      /\ at \in [Drainers -> {"new", "run", "test", "wait", "drain", "write", "join",
                              "unlist", "shut", "sinks", "done", "raised"}]
  BY DEF Types, TypeOK
<1>3. CASE /\ failed' = failed \cup {h}
           /\ todo' = [todo EXCEPT ![a] = Tail(@)] /\ UNCHANGED batch
  <2>1. ASSUME NEW s \in SinkSet \ failed', NEW b \in Drainers PROVE Held(b, s)' = Held(b, s)
    <3>1. s \in ToSet(todo[b]) <=> s \in ToSet(todo'[b])
      <4>1. CASE b = a
        BY <1>1, <1>2, <1>3, <2>1, <4>1, TailSet
      <4>2. CASE b # a
        BY <1>2, <1>3, <4>2
      <4> QED
        BY <4>1, <4>2
    <3> QED
      BY <1>3, <3>1 DEF Held
  <2> QED
    BY <1>1, <1>3, <2>1 DEF Whole, Share, Drainers
<1>4. CASE Goto(a, "raised")
  BY <1>2, <1>4 DEF Goto, Whole, Calm
<1> QED
  BY <1>3, <1>4 DEF WriteFails

LEMMA WholeNext ==
  ASSUME Types, Roster, Whole, Calm' => Calm, NEW a \in Drainers, NextSample(a)
  PROVE  Whole'
<1>1. /\ batch' = [batch EXCEPT ![a] = Tail(@)] /\ todo' = [todo EXCEPT ![a] = sinks]
      /\ batch[a] # <<>> /\ todo[a] = <<>>
      /\ UNCHANGED <<accepted, written, buf, dropped, cut, failed>>
  BY DEF NextSample, streamVars, sinkVars
<1>2. batch \in [Drainers -> Seq(Samples)] /\ todo \in [Drainers -> Seq(SinkSet)]
  BY DEF Types, TypeOK
<1>3. ASSUME NEW s \in SinkSet \ failed, NEW b \in Drainers PROVE Held(b, s)' = Held(b, s)
  <2>1. CASE b = a
    <3>1. Held(a, s) = Tail(batch[a])
      BY <1>1, EmptySet DEF Held
    <3>2. s \in ToSet(sinks) /\ batch'[a] = Tail(batch[a]) /\ todo'[a] = sinks
      BY <1>1, <1>2 DEF Roster
    <3> QED
      BY <2>1, <3>1, <3>2 DEF Held
  <2>2. CASE b # a
    BY <1>1, <1>2, <2>2 DEF Held
  <2> QED
    BY <2>1, <2>2
<1> QED
  BY <1>1, <1>3, WholeKept

LEMMA WholeDone ==
  ASSUME Types, Whole, Calm' => Calm, NEW a \in Drainers, DrainDone(a)
  PROVE  Whole'
<1>1. /\ todo' = [todo EXCEPT ![a] = <<>>] /\ batch[a] = <<>>
      /\ UNCHANGED <<accepted, written, buf, dropped, cut, failed, batch>>
  BY DEF DrainDone, streamVars, sinkVars
<1>2. todo \in [Drainers -> Seq(SinkSet)]
  BY DEF Types, TypeOK
<1>3. ASSUME NEW s, NEW b \in Drainers PROVE Held(b, s)' = Held(b, s)
  BY <1>1, <1>2 DEF Held
<1> QED
  BY <1>1, <1>3, WholeKept

LEMMA WholeStep ==
  ASSUME Types, Order, Roster, Whole, [Next]_vars
  PROVE  Whole'
<1>0. Calm' => Calm
  BY CalmBefore
<1>1. CASE Put
  BY <1>0, <1>1, WholePut
<1>2. CASE CloseListed \/ Unsubscribe
  BY <1>0, <1>2, WholeClose DEF CloseListed, Unsubscribe, recVars, sinkVars
<1>3. CASE Tick \/ FanOut \/ SetEvent
  BY <1>0, <1>3, WholeAside DEF Tick, FanOut, SetEvent, streamVars, recVars, sinkVars
<1>4. CASE StopInterface \/ LoopTest \/ LoopWait \/ StartRecorder \/ StopRecorder \/ Join
  BY <1>0, <1>4, WholeAside DEF StopInterface, LoopTest, LoopWait, StartRecorder,
     StopRecorder, Join, streamVars, recVars, sinkVars
<1>5. CASE Unlist \/ CloseSinks \/ Terminated \/ UNCHANGED vars
  BY <1>0, <1>5, WholeAside DEF Unlist, CloseSinks, Terminated, vars, streamVars, recVars,
     sinkVars
<1>6. ASSUME NEW a \in Drainers, DrainStep(a) PROVE Whole'
  BY <1>0, <1>6, WholeDrain, WholeWrite, WholeFails, WholeNext, WholeDone DEF DrainStep
<1> QED
  BY <1>1, <1>2, <1>3, <1>4, <1>5, <1>6 DEF Next, BusStep, ThreadStep, OwnerStep, Drainers

LEMMA AccountedWhole ==
  ASSUME Types, Whole
  PROVE  Accounted
<1>1. SUFFICES ASSUME Calm, NEW s \in SinkSet \ failed
      PROVE  LET parts == <<ToSet(written[s]), ToSet(Pending(s)), dropped, cut>>
             IN  /\ accepted = UNION {parts[i] : i \in 1..4}
                 /\ \A i, j \in 1..4 : i # j => parts[i] \cap parts[j] = {}
  BY DEF Accounted, Calm
<1> DEFINE w == ToSet(written[s])
           p == ToSet(Pending(s))
<1>2. p = ToSet(Held("thread", s)) \cup ToSet(Held("owner", s)) \cup ToSet(buf)
  <2>1. /\ Held("thread", s) \in Seq(Samples) /\ Held("owner", s) \in Seq(Samples)
        /\ buf \in Seq(Samples)
    BY HeldSet DEF Drainers, Types, TypeOK
  <2>2. /\ Held("thread", s) \o Held("owner", s) \in Seq(Samples)
        /\ ToSet(Held("thread", s) \o Held("owner", s))
             = ToSet(Held("thread", s)) \cup ToSet(Held("owner", s))
    BY <2>1, ConcatSet
  <2> DEFINE g == Held("thread", s) \o Held("owner", s)
  <2>3. g \in Seq(Samples) /\ p = ToSet(g \o buf)
    BY <1>1, <2>2 DEF Pending
  <2>4. ToSet(g) = ToSet(Held("thread", s)) \cup ToSet(Held("owner", s))
    BY <2>2
  <2> HIDE DEF g, p
  <2>5. ToSet(g \o buf) = ToSet(g) \cup ToSet(buf)
    BY <2>1, <2>3, ConcatSet
  <2> QED
    BY <2>3, <2>4, <2>5
<1>3. Share(s)
  BY <1>1 DEF Whole
<1> HIDE DEF w, p
<1>4. /\ accepted = w \cup p \cup dropped \cup cut
      /\ w \cap p = {} /\ w \cap dropped = {} /\ w \cap cut = {}
      /\ p \cap dropped = {} /\ p \cap cut = {} /\ dropped \cap cut = {}
  BY <1>2, <1>3 DEF Share, Split, w
<1>5. ASSUME NEW parts, parts = <<w, p, dropped, cut>>
      PROVE  /\ accepted = UNION {parts[i] : i \in 1..4}
             /\ \A i, j \in 1..4 : i # j => parts[i] \cap parts[j] = {}
  <2>1. 1 .. 4 = {1, 2, 3, 4}
    OBVIOUS
  <2>2. parts[1] = w /\ parts[2] = p /\ parts[3] = dropped /\ parts[4] = cut
    BY <1>5
  <2>3. UNION {parts[i] : i \in 1..4} = w \cup p \cup dropped \cup cut
    BY <2>1, <2>2
  <2> QED
    BY <1>4, <2>1, <2>2, <2>3
<1> QED
  BY <1>5 DEF w, p

\* "Samples accepted since subscription, drops included": for a sink that did not fail,
\* every sample the stream accepted is written, held by a drainer, buffered, counted as
\* dropped or cut off by a close, and it is only one of these.
THEOREM AllAccounted == Spec => []Accounted
<1>1. Init => Whole
  <2> SUFFICES ASSUME Init, NEW s \in SinkSet PROVE Share(s)
    BY DEF Whole
  <2>1. /\ Held("thread", s) = <<>> /\ Held("owner", s) = <<>> /\ written[s] = <<>>
        /\ buf = <<>> /\ accepted = {} /\ dropped = {} /\ cut = {}
    BY DEF Init, Held, Drainers
  <2> QED
    BY <2>1, EmptySet DEF Share, Split
<1>2. Types /\ Order /\ Roster /\ Whole /\ [Next]_vars => Whole'
  BY WholeStep
<1>3. Types /\ Whole => Accounted
  BY AccountedWhole
<1> QED
  BY <1>1, <1>2, <1>3, TypesHold, OrderHolds, RosterHolds, PTL DEF Spec
=============================================================================
