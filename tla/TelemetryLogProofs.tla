-------------------------- MODULE TelemetryLogProofs -------------------------
(* The recorder implements the lossy log, for every sink, every length of the    *)
(* stream, any number of ticks and any faults.                                   *)
EXTENDS RecorderLog, TelemetryProofs

-----------------------------------------------------------------------------
(* Taking one element, or a run of them, out of the middle of a sequence. *)

LEMMA Assembled ==
  ASSUME NEW S, NEW p \in Seq(S), NEW q \in Seq(S), NEW r \in Seq(S)
  PROVE  /\ (p \o q) \o r \in Seq(S) /\ Len((p \o q) \o r) = Len(p) + Len(q) + Len(r)
         /\ \A i \in 1 .. Len(p) : ((p \o q) \o r)[i] = p[i]
         /\ \A i \in 1 .. Len(q) : ((p \o q) \o r)[Len(p) + i] = q[i]
         /\ \A i \in 1 .. Len(r) : ((p \o q) \o r)[Len(p) + Len(q) + i] = r[i]
<1> DEFINE y == p \o q
           z == y \o r
           k == Len(p)
           m == Len(q)
           n == Len(r)
<1>1. /\ y \in Seq(S) /\ Len(y) = k + m
      /\ \A i \in 1 .. k + m : y[i] = IF i <= k THEN p[i] ELSE q[i - k]
  BY ConcatProperties
<1> HIDE DEF y
<1>2. /\ z \in Seq(S) /\ Len(z) = k + m + n
      /\ \A i \in 1 .. k + m + n : z[i] = IF i <= k + m THEN y[i] ELSE r[i - (k + m)]
  <2> HIDE DEF z
  <2>1. /\ z \in Seq(S) /\ Len(z) = Len(y) + Len(r)
        /\ \A i \in 1 .. Len(y) + Len(r) : z[i] = IF i <= Len(y) THEN y[i] ELSE r[i - Len(y)]
    <3>1. y \in Seq(S) /\ r \in Seq(S)
      BY <1>1
    <3> QED
      BY ONLY <3>1, ConcatProperties DEF z
  <2> QED
    BY <1>1, <2>1
<1>3. k \in Nat /\ m \in Nat /\ n \in Nat
  OBVIOUS
<1> HIDE DEF z, k, m, n
<1>4. ASSUME NEW i \in 1 .. k PROVE z[i] = p[i]
  BY ONLY <1>1, <1>2, <1>3, i \in 1 .. k
<1>5. ASSUME NEW i \in 1 .. m PROVE z[k + i] = q[i]
  <2>1. PICK j \in Int : j = k + i
    BY <1>3
  <2>2. j \in 1 .. k + m + n /\ j \in 1 .. k + m /\ j <= k + m /\ ~(j <= k) /\ j - k = i
    BY <1>3, <2>1
  <2> QED
    BY <1>1, <1>2, <2>1, <2>2
<1>6. ASSUME NEW i \in 1 .. n PROVE z[k + m + i] = r[i]
  <2>1. PICK j \in Int : j = k + m + i
    BY <1>3
  <2>2. j \in 1 .. k + m + n /\ ~(j <= k + m) /\ j - (k + m) = i
    BY <1>3, <2>1
  <2> QED
    BY <1>2, <2>1, <2>2
<1> QED
  BY <1>2, <1>4, <1>5, <1>6 DEF y, z, k, m, n

\* w is z without the element behind p, which is x.
OneOut(p, x, z, w) ==
    Len(p) + 1 \in DOMAIN z /\ z[Len(p) + 1] = x /\ RemoveAt(z, Len(p) + 1) = w

LEMMA TakeOut ==
  ASSUME NEW S, NEW p \in Seq(S), NEW q \in Seq(S), NEW r \in Seq(S), Len(q) > 0,
         NEW z, z = (p \o q) \o r, NEW t, t = Tail(q), NEW w, w = (p \o t) \o r
  PROVE  OneOut(p, Head(q), z, w)
<1> DEFINE k == Len(p)
           m == Len(q)
           n == Len(r)
           x == RemoveAt(z, k + 1)
<1>1. /\ t \in Seq(S) /\ Len(t) = m - 1 /\ Head(q) = q[1]
      /\ \A i \in 1 .. m - 1 : t[i] = q[i + 1]
  BY HeadTailProperties
<1>2. k \in Nat /\ m \in Nat /\ n \in Nat /\ m >= 1
  OBVIOUS
<1>3. /\ z \in Seq(S) /\ Len(z) = k + m + n
      /\ \A i \in 1 .. k : z[i] = p[i]
      /\ \A i \in 1 .. m : z[k + i] = q[i]
      /\ \A i \in 1 .. n : z[k + m + i] = r[i]
  <2>1. p \in Seq(S) /\ q \in Seq(S) /\ r \in Seq(S) /\ z = (p \o q) \o r
    OBVIOUS
  <2> QED
    BY ONLY <2>1, Assembled
<1>4. /\ w \in Seq(S) /\ Len(w) = k + (m - 1) + n
      /\ \A i \in 1 .. k : w[i] = p[i]
      /\ \A i \in 1 .. m - 1 : w[k + i] = t[i]
      /\ \A i \in 1 .. n : w[k + (m - 1) + i] = r[i]
  <2>1. /\ w \in Seq(S) /\ Len(w) = Len(p) + Len(t) + Len(r)
        /\ \A i \in 1 .. Len(p) : w[i] = p[i]
        /\ \A i \in 1 .. Len(t) : w[Len(p) + i] = t[i]
        /\ \A i \in 1 .. Len(r) : w[Len(p) + Len(t) + i] = r[i]
    <3>1. t \in Seq(S) /\ p \in Seq(S) /\ r \in Seq(S) /\ w = (p \o t) \o r
      BY <1>1
    <3> QED
      BY ONLY <3>1, Assembled
  <2> QED
    BY <1>1, <2>1
<1>5. DOMAIN z = 1 .. k + m + n
  BY <1>3
<1> HIDE DEF k, m, n
<1>6. k + 1 \in DOMAIN z /\ z[k + 1] = Head(q)
  <2>1. k + 1 \in 1 .. k + m + n /\ 1 \in 1 .. m
    BY <1>2
  <2> QED
    BY ONLY <1>1, <1>3, <1>5, <2>1
<1>7. /\ x \in Seq(S) /\ DOMAIN x = 1 .. Len(z) - 1
      /\ \A i \in 1 .. Len(z) - 1 : x[i] = IF i < k + 1 THEN z[i] ELSE z[i + 1]
  BY <1>3, <1>6, RemoveAtType
<1> HIDE DEF x
<1>8. Len(x) = Len(w) /\ Len(x) = k + m + n - 1
  <2>1. Len(x) = Len(z) - 1
    BY <1>2, <1>3, <1>7
  <2> QED
    BY <1>2, <1>3, <1>4, <2>1
<1>9. ASSUME NEW i \in 1 .. Len(x) PROVE x[i] = w[i]
  <2>1. i \in Int /\ 1 <= i /\ i <= k + m + n - 1 /\ i \in 1 .. Len(z) - 1
    BY <1>2, <1>3, <1>8, <1>9
  <2>2. x[i] = IF i < k + 1 THEN z[i] ELSE z[i + 1]
    BY <1>7, <2>1
  <2>3. CASE i <= k
    <3>1. i \in 1 .. k /\ i < k + 1
      BY <1>2, <2>1, <2>3
    <3> QED
      BY ONLY <1>3, <1>4, <2>2, <3>1
  <2>4. CASE ~(i <= k) /\ i <= k + (m - 1)
    <3>1. PICK j \in 1 .. m - 1 : i = k + j
      <4>1. i - k \in 1 .. m - 1 /\ i = k + (i - k)
        BY <1>2, <2>1, <2>4
      <4> QED
        BY <4>1
    <3>2. ~(i < k + 1) /\ i + 1 = k + (j + 1) /\ j + 1 \in 1 .. m
      BY <1>2, <2>1, <3>1
    <3>3. x[i] = z[k + (j + 1)] /\ z[k + (j + 1)] = q[j + 1]
      BY ONLY <1>3, <2>2, <3>2
    <3>4. w[i] = t[j] /\ t[j] = q[j + 1]
      BY ONLY <1>1, <1>4, <3>1
    <3> QED
      BY <3>3, <3>4
  <2>5. CASE ~(i <= k + (m - 1))
    <3>1. PICK j \in 1 .. n : i = k + (m - 1) + j
      <4>1. i - (k + (m - 1)) \in 1 .. n /\ i = k + (m - 1) + (i - (k + (m - 1)))
        BY <1>2, <2>1, <2>5
      <4> QED
        BY <4>1
    <3>2. ~(i < k + 1) /\ i + 1 = k + m + j
      BY <1>2, <2>1, <3>1
    <3>3. x[i] = z[k + m + j] /\ z[k + m + j] = r[j]
      BY ONLY <1>3, <2>2, <3>1, <3>2
    <3>4. w[i] = r[j]
      BY ONLY <1>4, <3>1
    <3> QED
      BY <3>3, <3>4
  <2> QED
    BY <1>2, <2>3, <2>4, <2>5
<1>10. x = w
  BY <1>4, <1>7, <1>8, <1>9, SeqEqual
<1> QED
  BY <1>6, <1>10 DEF OneOut, k, x

\* A run of a sequence, from one place to another.
LEMMA Slice ==
  ASSUME NEW S, NEW z \in Seq(S), NEW m \in Int, NEW e \in Int, m >= 1, e <= Len(z), m <= e + 1,
         NEW u, u = SubSeq(z, m, e)
  PROVE  /\ u \in Seq(S) /\ Len(u) = e - m + 1
         /\ \A k \in 1 .. e - m + 1 : u[k] = z[m + k - 1]
<1>1. \A k \in m .. e : z[k] \in S
  OBVIOUS
<1>2. /\ SubSeq(z, m, e) \in Seq(S)
      /\ Len(SubSeq(z, m, e)) = IF m <= e THEN e - m + 1 ELSE 0
      /\ \A k \in 1 .. e - m + 1 : SubSeq(z, m, e)[k] = z[m + k - 1]
  <2>1. m \in Int /\ e \in Int
    OBVIOUS
  <2> QED
    BY ONLY <1>1, <2>1, SubSeqProperties
<1>3. IF m <= e THEN e - m + 1 = e - m + 1 ELSE e - m + 1 = 0
  OBVIOUS
<1> QED
  BY <1>2

LEMMA CutOut ==
  ASSUME NEW S, NEW p \in Seq(S), NEW q \in Seq(S), NEW r \in Seq(S),
         NEW z, z = (p \o q) \o r
  PROVE  /\ Len(z) = Len(p) + Len(q) + Len(r)
         /\ SubSeq(z, 1, Len(p)) = p /\ SubSeq(z, Len(p) + Len(q) + 1, Len(z)) = r
<1> DEFINE k == Len(p)
           m == Len(q)
           n == Len(r)
           u == SubSeq(z, 1, k)
           v == SubSeq(z, k + m + 1, Len(z))
<1>1. k \in Nat /\ m \in Nat /\ n \in Nat
  OBVIOUS
<1>2. /\ z \in Seq(S) /\ Len(z) = k + m + n
      /\ \A i \in 1 .. k : z[i] = p[i]
      /\ \A i \in 1 .. n : z[k + m + i] = r[i]
  <2>1. /\ z \in Seq(S) /\ Len(z) = Len(p) + Len(q) + Len(r)
        /\ \A i \in 1 .. Len(p) : z[i] = p[i]
        /\ \A i \in 1 .. Len(q) : z[Len(p) + i] = q[i]
        /\ \A i \in 1 .. Len(r) : z[Len(p) + Len(q) + i] = r[i]
    <3>1. p \in Seq(S) /\ q \in Seq(S) /\ r \in Seq(S) /\ z = (p \o q) \o r
      OBVIOUS
    <3> QED
      BY ONLY <3>1, Assembled
  <2> QED
    BY <2>1
<1>3. p \in Seq(S) /\ k = Len(p) /\ r \in Seq(S) /\ n = Len(r)
  OBVIOUS
<1>4. u = SubSeq(z, 1, k) /\ v = SubSeq(z, k + m + 1, Len(z))
  OBVIOUS
<1> HIDE DEF k, m, n, u, v
<1>5. /\ u \in Seq(S) /\ Len(u) = k
      /\ \A i \in 1 .. k : u[i] = z[i]
  <2>1. z \in Seq(S) /\ 1 \in Int /\ k \in Int /\ 1 >= 1 /\ k <= Len(z) /\ 1 <= k + 1
    BY <1>1, <1>2
  <2>2. /\ u \in Seq(S) /\ Len(u) = k - 1 + 1
        /\ \A i \in 1 .. k - 1 + 1 : u[i] = z[1 + i - 1]
    BY ONLY <1>4, <2>1, Slice
  <2> QED
    BY ONLY <1>1, <2>2
<1>6. /\ v \in Seq(S) /\ Len(v) = n
      /\ \A i \in 1 .. n : v[i] = z[k + m + i]
  <2>1. PICK f \in Int : f = k + m + 1
    BY <1>1
  <2>2. PICK g \in Int : g = Len(z)
    BY <1>1, <1>2
  <2>3. /\ z \in Seq(S) /\ f >= 1 /\ g <= Len(z) /\ f <= g + 1 /\ v = SubSeq(z, f, g)
    BY <1>1, <1>2, <1>4, <2>1, <2>2
  <2>4. /\ v \in Seq(S) /\ Len(v) = g - f + 1
        /\ \A i \in 1 .. g - f + 1 : v[i] = z[f + i - 1]
    BY ONLY <2>3, f \in Int, g \in Int, Slice
  <2>5. g - f + 1 = n /\ \A i \in 1 .. n : f + i - 1 = k + m + i
    BY <1>1, <1>2, <2>1, <2>2
  <2> QED
    BY ONLY <2>4, <2>5
<1>7. u = p
  <2>1. \A i \in 1 .. Len(u) : u[i] = p[i]
    BY <1>2, <1>5
  <2> QED
    BY <1>3, <1>5, <2>1, SeqEqual
<1>8. v = r
  <2>1. \A i \in 1 .. Len(v) : v[i] = r[i]
    BY <1>2, <1>6
  <2> QED
    BY <1>3, <1>6, <2>1, SeqEqual
<1> QED
  BY <1>2, <1>7, <1>8 DEF k, m, n, u, v

-----------------------------------------------------------------------------
(* Who drains when: past the join the recorder's thread is gone, unless the    *)
(* join expired, and then it only finishes the batch it has.                   *)

Past == {"drain", "write", "unlist", "shut", "sinks", "done", "raised"}

Turns ==
    /\ running => at["owner"] = "run"
    /\ late => at["owner"] \in Past
    /\ at["owner"] \in {"new", "run", "join"} \cup Past
    /\ at["owner"] \in Past =>
         at["thread"] \in {"done", "raised"} \cup (IF late THEN {"write", "test"} ELSE {})

LEMMA TurnsStep ==
  ASSUME Types, Turns, [Next]_vars
  PROVE  Turns'
<1>0. at \in [Drainers -> {"new", "run", "test", "wait", "drain", "write", "join",
                           "unlist", "shut", "sinks", "done", "raised"}]
      /\ "thread" \in Drainers /\ "owner" \in Drainers
  BY DEF Types, TypeOK, Drainers
<1>1. CASE UNCHANGED <<running, late, at>>
  BY <1>1 DEF Turns
<1>2. CASE BusStep \/ StopInterface \/ CloseListed \/ Terminated \/ UNCHANGED vars
  BY <1>1, <1>2 DEF BusStep, Tick, FanOut, Put, SetEvent, StopInterface, CloseListed,
     Terminated, vars, recVars
<1>3. CASE LoopTest \/ LoopWait
  BY <1>0, <1>3 DEF LoopTest, LoopWait, Goto, Turns, Past
<1>4. CASE StartRecorder
  BY <1>0, <1>4 DEF StartRecorder, Turns, Past, Drainers
<1>5. CASE StopRecorder
  BY <1>0, <1>5 DEF StopRecorder, Goto, Turns, Past
<1>6. CASE Join
  BY <1>0, <1>6 DEF Join, Goto, Turns, Past
<1>7. CASE Unlist \/ Unsubscribe \/ CloseSinks
  BY <1>0, <1>7 DEF Unlist, Unsubscribe, CloseSinks, Goto, Turns, Past
<1>8. ASSUME NEW a \in Drainers, Write(a) \/ NextSample(a) PROVE Turns'
  BY <1>1, <1>8 DEF Write, NextSample
<1>9. ASSUME NEW a \in Drainers, Drain(a) \/ WriteFails(a) \/ DrainDone(a) PROVE Turns'
  <2>1. UNCHANGED <<running, late>>
    BY <1>9 DEF Drain, WriteFails, DrainDone
  <2>2. CASE a = "thread"
    <3>1. at'["owner"] = at["owner"]
      BY <1>0, <1>9, <2>2 DEF Drain, WriteFails, DrainDone, Goto
    <3>2. /\ at["thread"] \in {"drain", "write"}
          /\ at["thread"] = "drain" => at'["thread"] = "write"
          /\ at["thread"] = "write" => at'["thread"] \in {"write", "test", "raised"}
      BY <1>0, <1>9, <2>2 DEF Drain, WriteFails, DrainDone, Goto
    <3> QED
      BY <2>1, <3>1, <3>2 DEF Turns
  <2>3. CASE a = "owner"
    <3>1. at'["thread"] = at["thread"]
      BY <1>0, <1>9, <2>3 DEF Drain, WriteFails, DrainDone, Goto
    <3>2. at["owner"] \in {"drain", "write"} /\ at'["owner"] \in Past
      BY <1>0, <1>9, <2>3 DEF Drain, WriteFails, DrainDone, Goto, Past
    <3> QED
      BY <2>1, <3>1, <3>2 DEF Turns, Past
  <2> QED
    BY <2>2, <2>3 DEF Drainers
<1> QED
  BY <1>2, <1>3, <1>4, <1>5, <1>6, <1>7, <1>8, <1>9
     DEF Next, ThreadStep, OwnerStep, DrainStep, Drainers

-----------------------------------------------------------------------------
(* What is offered to whom: a sink that failed is offered nothing more, unless *)
(* two drainers are at work; what a drainer holds was accepted.                *)

Offers ==
    /\ failed \cap ToSet(sinks) = {}
    /\ \A a \in Drainers : at[a] # "write" => todo[a] = <<>>
    /\ late \/ \A a \in Drainers : ToSet(todo[a]) \cap failed = {}
    /\ \A a \in Drainers : ToSet(batch[a]) \subseteq accepted
    /\ accepted # {} => \E m \in accepted : \A x \in accepted : x <= m

LEMMA RemoveAtGone ==
  ASSUME NEW S, NEW q \in Seq(S), NEW i \in DOMAIN q, Distinct(q)
  PROVE  ToSet(RemoveAt(q, i)) \subseteq ToSet(q) \ {q[i]}
<1> DEFINE r == RemoveAt(q, i)
<1>1. /\ Len(q) \in Nat /\ DOMAIN q = 1 .. Len(q) /\ i \in 1 .. Len(q)
      /\ r \in Seq(S) /\ DOMAIN r = 1 .. Len(q) - 1
      /\ \A k \in 1 .. Len(q) - 1 : r[k] = IF k < i THEN q[k] ELSE q[k + 1]
  <2>1. Len(q) \in Nat /\ DOMAIN q = 1 .. Len(q) /\ i \in 1 .. Len(q)
    OBVIOUS
  <2>2. /\ r \in Seq(S) /\ DOMAIN r = 1 .. Len(q) - 1
        /\ \A k \in 1 .. Len(q) - 1 : r[k] = IF k < i THEN q[k] ELSE q[k + 1]
    BY RemoveAtType
  <2> QED
    BY <2>1, <2>2
<1> HIDE DEF r
<1>2. ASSUME NEW k \in DOMAIN r PROVE r[k] \in ToSet(q) \ {q[i]}
  <2>1. PICK j \in DOMAIN q : j # i /\ r[k] = q[j]
    <3>1. CASE k < i
      BY <1>1, <1>2, <3>1
    <3>2. CASE ~(k < i)
      <4>1. k + 1 \in DOMAIN q /\ k + 1 # i /\ r[k] = q[k + 1]
        BY <1>1, <1>2, <3>2
      <4> QED
        BY <4>1
    <3> QED
      BY <3>1, <3>2
  <2> QED
    BY <2>1 DEF Distinct, ToSet
<1> QED
  BY <1>2 DEF ToSet, r

\* A step that moves no sample and no sink.
LEMMA OffersMoves ==
  ASSUME Offers, UNCHANGED <<sinks, todo, failed, batch, accepted>>, late => late',
         \A a \in Drainers : at'[a] # "write" => at[a] # "write" \/ todo[a] = <<>>
  PROVE  Offers'
BY DEF Offers

LEMMA OffersStep ==
  ASSUME Types, Order, Roster, Turns, Offers, [Next]_vars
  PROVE  Offers'
<1>0. /\ at \in [Drainers -> {"new", "run", "test", "wait", "drain", "write", "join",
                              "unlist", "shut", "sinks", "done", "raised"}]
      /\ batch \in [Drainers -> Seq(Samples)] /\ todo \in [Drainers -> Seq(SinkSet)]
      /\ sinks \in Seq(SinkSet) /\ Drainers = {"thread", "owner"}
  BY DEF Types, TypeOK, Drainers
<1>1. CASE UNCHANGED <<sinks, todo, failed, batch, at, accepted, late>>
  BY <1>1, OffersMoves
<1>2. CASE Tick \/ FanOut \/ SetEvent \/ StopInterface \/ CloseListed \/ Terminated
           \/ UNCHANGED vars
  BY <1>1, <1>2 DEF Tick, FanOut, SetEvent, StopInterface, CloseListed, CloseStream,
     Terminated, vars, recVars, streamVars
<1>3. CASE Put
  <2>1. CASE closed
    BY <1>1, <1>3, <2>1 DEF Put, recVars
  <2>2. CASE ~closed
    <3>1. accepted' = accepted \cup {seq} /\ UNCHANGED <<sinks, todo, failed, batch, at, late>>
      BY <1>3, <2>2 DEF Put, recVars
    <3>2. \A x \in accepted' : x <= seq
      BY <1>3, <3>1 DEF Order, Put, Types, TypeOK, Samples
    <3> QED
      BY <3>1, <3>2 DEF Offers
  <2> QED
    BY <2>1, <2>2
<1>4. CASE LoopTest \/ LoopWait \/ StartRecorder \/ StopRecorder \/ Join \/ Unlist
           \/ Unsubscribe \/ CloseSinks
  <2>1. UNCHANGED <<sinks, todo, failed, batch, accepted>> /\ (late => late')
    BY <1>4 DEF LoopTest, LoopWait, StartRecorder, StopRecorder, Join, Unlist, Unsubscribe,
       CloseStream, CloseSinks, streamVars
  <2>2. \A a \in Drainers : at'[a] # "write" => at[a] # "write" \/ todo[a] = <<>>
    <3>1. CASE StartRecorder
      BY <1>0, <3>1 DEF StartRecorder, Offers, Roster
    <3>2. CASE LoopTest \/ LoopWait
      BY <1>0, <3>2 DEF LoopTest, LoopWait, Goto
    <3>3. CASE StopRecorder \/ Join \/ Unlist \/ Unsubscribe \/ CloseSinks
      BY <1>0, <3>3 DEF StopRecorder, Join, Unlist, Unsubscribe, CloseSinks, Goto
    <3> QED
      BY <1>4, <3>1, <3>2, <3>3
  <2> QED
    BY <2>1, <2>2, OffersMoves
<1>5. ASSUME NEW a \in Drainers, Drain(a) PROVE Offers'
  <2>1. /\ at' = [at EXCEPT ![a] = "write"] /\ batch' = [batch EXCEPT ![a] = buf]
        /\ todo' = [todo EXCEPT ![a] = sinks] /\ UNCHANGED <<sinks, failed, late, accepted>>
    BY <1>5 DEF Drain, Goto
  <2>2. \A b \in Drainers : at'[b] # "write" => todo'[b] = <<>>
    BY <1>0, <2>1 DEF Offers
  <2>3. late' \/ \A b \in Drainers : ToSet(todo'[b]) \cap failed' = {}
    BY <1>0, <2>1 DEF Offers
  <2>4. \A b \in Drainers : ToSet(batch'[b]) \subseteq accepted'
    BY <1>0, <2>1 DEF Offers, Order
  <2> QED
    BY <2>1, <2>2, <2>3, <2>4 DEF Offers
<1>6. ASSUME NEW a \in Drainers, Write(a) PROVE Offers'
  <2>1. /\ todo' = [todo EXCEPT ![a] = Tail(@)] /\ todo[a] # <<>> /\ at[a] = "write"
        /\ UNCHANGED <<sinks, failed, late, accepted, at, batch>>
    BY <1>6 DEF Write, streamVars
  <2>2. ToSet(Tail(todo[a])) \subseteq ToSet(todo[a])
    BY <1>0, <2>1, TailSet
  <2>3. late' \/ \A b \in Drainers : ToSet(todo'[b]) \cap failed' = {}
    BY <1>0, <2>1, <2>2 DEF Offers
  <2>4. \A b \in Drainers : at'[b] # "write" => todo'[b] = <<>>
    BY <1>0, <2>1 DEF Offers
  <2> QED
    BY <2>1, <2>3, <2>4 DEF Offers
<1>7. ASSUME NEW a \in Drainers, WriteFails(a) PROVE Offers'
  <2> DEFINE s == Head(todo[a])
  <2>1. /\ todo[a] # <<>> /\ at[a] = "write" /\ UNCHANGED <<late, accepted>>
    BY <1>7 DEF WriteFails, streamVars
  <2>2. CASE /\ \E i \in DOMAIN sinks : sinks[i] = s /\ sinks' = RemoveAt(sinks, i)
             /\ failed' = failed \cup {s}
             /\ todo' = [todo EXCEPT ![a] = Tail(@)]
             /\ UNCHANGED <<at, batch>>
    <3>1. ToSet(sinks') \subseteq ToSet(sinks) \ {s}
      BY <1>0, <2>2, RemoveAtGone DEF Roster
    <3>2. ToSet(Tail(todo[a])) \subseteq ToSet(todo[a]) \ {s}
      BY <1>0, <2>1, TailSet, TailDistinct DEF Roster
    <3>3. \A b \in Drainers : at'[b] # "write" => todo'[b] = <<>>
      BY <1>0, <2>1, <2>2 DEF Offers
    <3>4. ASSUME ~late, NEW b \in Drainers PROVE ToSet(todo'[b]) \cap failed' = {}
      <4>1. CASE b = a
        BY <1>0, <2>2, <3>2, <3>4, <4>1 DEF Offers
      <4>2. CASE b # a
        <5>1. at[b] # "write"
          BY <1>0, <2>1, <3>4, <4>2 DEF Turns, Past
        <5>2. todo'[b] = <<>>
          BY <1>0, <2>2, <4>2, <5>1 DEF Offers
        <5> QED
          BY <5>2, EmptySet
      <4> QED
        BY <4>1, <4>2
    <3>5. failed' \cap ToSet(sinks') = {}
      BY <2>2, <3>1 DEF Offers
    <3> HIDE DEF s
    <3> QED
      BY <2>1, <2>2, <3>3, <3>4, <3>5 DEF Offers
  <2>3. CASE /\ Goto(a, "raised")
             /\ batch' = [batch EXCEPT ![a] = <<>>]
             /\ todo' = [todo EXCEPT ![a] = <<>>]
             /\ UNCHANGED <<sinks, failed>>
    <3>1. \A b \in Drainers : at'[b] # "write" => todo'[b] = <<>>
      BY <1>0, <2>3 DEF Offers, Goto
    <3>2. late' \/ \A b \in Drainers : ToSet(todo'[b]) \cap failed' = {}
      BY <1>0, <2>1, <2>3, EmptySet DEF Offers
    <3>3. \A b \in Drainers : ToSet(batch'[b]) \subseteq accepted'
      BY <1>0, <2>1, <2>3, EmptySet DEF Offers
    <3> QED
      BY <2>1, <2>3, <3>1, <3>2, <3>3 DEF Offers
  <2> QED
    BY <1>7, <2>2, <2>3 DEF WriteFails
<1>8. ASSUME NEW a \in Drainers, NextSample(a) PROVE Offers'
  <2>1. /\ todo' = [todo EXCEPT ![a] = sinks] /\ batch' = [batch EXCEPT ![a] = Tail(@)]
        /\ batch[a] # <<>> /\ at[a] = "write" /\ UNCHANGED <<sinks, failed, late, accepted, at>>
    BY <1>8 DEF NextSample, streamVars
  <2>2. ToSet(Tail(batch[a])) \subseteq ToSet(batch[a])
    BY <1>0, <2>1, TailSet
  <2>3. \A b \in Drainers : at'[b] # "write" => todo'[b] = <<>>
    BY <1>0, <2>1 DEF Offers
  <2>4. late' \/ \A b \in Drainers : ToSet(todo'[b]) \cap failed' = {}
    BY <1>0, <2>1 DEF Offers
  <2>5. \A b \in Drainers : ToSet(batch'[b]) \subseteq accepted'
    BY <1>0, <2>1, <2>2 DEF Offers
  <2> QED
    BY <2>1, <2>3, <2>4, <2>5 DEF Offers
<1>9. ASSUME NEW a \in Drainers, DrainDone(a) PROVE Offers'
  <2>1. /\ todo' = [todo EXCEPT ![a] = <<>>] /\ UNCHANGED <<sinks, failed, batch, late, accepted>>
        /\ \A b \in Drainers : b # a => at'[b] = at[b]
    BY <1>0, <1>9 DEF DrainDone, Goto, streamVars
  <2>2. \A b \in Drainers : at'[b] # "write" => todo'[b] = <<>>
    BY <1>0, <2>1 DEF Offers
  <2>3. late' \/ \A b \in Drainers : ToSet(todo'[b]) \cap failed' = {}
    BY <1>0, <2>1, EmptySet DEF Offers
  <2> QED
    BY <2>1, <2>2, <2>3 DEF Offers
<1> QED
  BY <1>2, <1>3, <1>4, <1>5, <1>6, <1>7, <1>8, <1>9
     DEF Next, BusStep, ThreadStep, OwnerStep, DrainStep, Drainers

-----------------------------------------------------------------------------
(* What each action is to the lossy log. *)

LogStep == [Log!Next]_(Log!vars)

\* What waits for a sink that works: what the two drainers hold for it, and the buffer.
LEMMA PendingParts ==
  ASSUME Types, Sink \notin failed
  PROVE  /\ Pending(Sink) = (Held("thread", Sink) \o Held("owner", Sink)) \o buf
         /\ Held("thread", Sink) \in Seq(Samples) /\ Held("owner", Sink) \in Seq(Samples)
         /\ buf \in Seq(Samples)
<1>1. Held("thread", Sink) \in Seq(Samples) /\ Held("owner", Sink) \in Seq(Samples)
  BY HeldSet DEF Drainers
<1>2. buf \in Seq(Samples)
  BY DEF Types, TypeOK
<1> QED
  BY <1>1, <1>2 DEF Pending

LEMMA LogStill ==
  ASSUME UNCHANGED <<accepted, written, failed, late>>,
         Sink \notin failed => Pending(Sink)' = Pending(Sink)
  PROVE  LogStep
<1>1. Newest' = Newest
  BY DEF Newest
<1>2. Pending(Sink)' = Pending(Sink)
  <2>1. CASE Sink \in failed
    BY <2>1 DEF Pending
  <2> QED
    BY <2>1
<1> QED
  BY <1>1, <1>2 DEF LogStep, Log!vars

LEMMA LogAside ==
  ASSUME UNCHANGED <<accepted, written, failed, late, buf, batch, todo>>
  PROVE  LogStep
<1>1. Pending(Sink)' = Pending(Sink)
  BY DEF Pending, Held
<1> QED
  BY <1>1, LogStill

LEMMA TakeLast ==
  ASSUME NEW S, NEW p \in Seq(S), NEW q \in Seq(S), q # <<>>
  PROVE  Len(p) + 1 \in DOMAIN (p \o q) /\ RemoveAt(p \o q, Len(p) + 1) = p \o Tail(q)
<1>1. PICK e \in Seq(S) : e = <<>>
  BY EmptySeq
<1>2. p \o q \in Seq(S) /\ Tail(q) \in Seq(S)
  BY ConcatProperties, HeadTailProperties
<1>3. p \o Tail(q) \in Seq(S)
  BY <1>2, ConcatProperties
<1>4. PICK z, w : z = p \o q /\ w = p \o Tail(q)
  OBVIOUS
<1>5. z = (p \o q) \o e /\ w = (p \o Tail(q)) \o e
  BY <1>1, <1>2, <1>3, <1>4, ConcatEmptySeq
<1>6. OneOut(p, Head(q), z, w)
  <2>1. PICK t : t = Tail(q)
    OBVIOUS
  <2>2. p \in Seq(S) /\ q \in Seq(S) /\ e \in Seq(S) /\ Len(q) > 0
    BY EmptySeq
  <2>3. z = (p \o q) \o e /\ w = (p \o t) \o e
    BY <1>5, <2>1
  <2> QED
    BY ONLY <2>1, <2>2, <2>3, TakeOut
<1> QED
  BY <1>4, <1>6 DEF OneOut

LEMMA AppendLast ==
  ASSUME NEW S, NEW p \in Seq(S), NEW q \in Seq(S), NEW x \in S
  PROVE  p \o Append(q, x) = Append(p \o q, x)
<1>0. <<x>> \in Seq(S)
  OBVIOUS
<1>1. PICK e \in Seq(S) : e = <<x>>
  BY <1>0
<1>2. Append(q, x) = q \o e
  BY <1>1, AppendIsConcat
<1>3. p \o q \in Seq(S)
  BY ConcatProperties
<1>4. Append(p \o q, x) = (p \o q) \o e
  BY <1>1, <1>3, AppendIsConcat
<1>5. (p \o q) \o e = p \o (q \o e)
  BY ConcatAssociative
<1> QED
  BY <1>2, <1>4, <1>5

\* The sample that is published is the newest.
LEMMA PutNewest ==
  ASSUME Types, Order, Offers, Put, ~closed
  PROVE  Newest' = seq /\ Newest' > Newest
<1>1. accepted' = accepted \cup {seq} /\ seq \in Samples /\ \A x \in accepted : x < seq
  BY DEF Put, Order, Types
<1>2. accepted \subseteq Nat /\ seq \in Nat /\ 0 < seq
  BY <1>1, LenAssumption DEF Types, TypeOK, Samples
<1>3. Max(accepted') = seq
  <2>1. \A x \in accepted' : seq >= x
    BY <1>1, <1>2
  <2>2. ASSUME NEW m \in accepted', \A x \in accepted' : m >= x PROVE m = seq
    BY <1>1, <1>2, <2>1, <2>2
  <2> QED
    BY <1>1, <2>1, <2>2 DEF Max
<1>4. Newest' = seq
  BY <1>1, <1>3 DEF Newest
<1>5. CASE accepted = {}
  BY <1>2, <1>4, <1>5 DEF Newest
<1>6. CASE accepted # {}
  <2>1. PICK m \in accepted : \A x \in accepted : x <= m
    BY <1>6 DEF Offers
  <2>2. \A x \in accepted : m >= x
    BY <1>2, <2>1
  <2>3. Max(accepted) \in accepted
    BY <2>2 DEF Max
  <2> QED
    BY <1>1, <1>2, <1>4, <1>6, <2>3 DEF Newest
<1> QED
  BY <1>5, <1>6

LEMMA LogPut ==
  ASSUME Types, Order, Offers, Put
  PROVE  LogStep
<1>1. UNCHANGED <<written, failed, late, batch, todo>>
  BY DEF Put, recVars, sinkVars
<1>2. CASE closed
  BY <1>1, <1>2, LogAside DEF Put
<1>3. CASE ~closed
  <2>1. Newest' = seq /\ Newest' > Newest /\ seq \in Samples
    BY <1>3, PutNewest DEF Put, Types
  <2>2. CASE Sink \in failed
    <3>1. Pending(Sink)' = Pending(Sink)
      BY <1>1, <2>2 DEF Pending
    <3> QED
      BY <1>1, <2>1, <2>2, <3>1 DEF LogStep, Log!Next, Log!Accept
  <2>3. CASE Sink \notin failed
    <3>1. PICK p \in Seq(Samples), b \in Seq(Samples) :
             /\ p = Held("thread", Sink) \o Held("owner", Sink) /\ b = buf
             /\ Pending(Sink) = p \o b
      BY <2>3, PendingParts, ConcatProperties
    <3>2. Pending(Sink)' = p \o buf'
      BY <1>1, <2>3, <3>1 DEF Pending, Held
    <3>3. CASE Len(b) # MaxLen
      <4>1. buf' = Append(b, seq)
        BY <1>3, <3>1, <3>3 DEF Put
      <4>2. Pending(Sink)' = Append(Pending(Sink), Newest')
        BY <2>1, <3>1, <3>2, <4>1, AppendLast
      <4> QED
        BY <1>1, <2>1, <4>2 DEF LogStep, Log!Next, Log!Accept
    <3>4. CASE Len(b) = MaxLen
      <4>1. buf' = Append(Tail(b), seq) /\ b # <<>> /\ Tail(b) \in Seq(Samples)
        <5>1. b # <<>>
          BY <3>4, LenAssumption
        <5> QED
          BY <1>3, <3>1, <3>4, <5>1, HeadTailProperties DEF Put
      <4>2. Pending(Sink)' = Append(p \o Tail(b), seq)
        BY <2>1, <3>2, <4>1, AppendLast
      <4>3. /\ Len(p) + 1 \in DOMAIN Pending(Sink)
            /\ RemoveAt(Pending(Sink), Len(p) + 1) = p \o Tail(b)
        BY <3>1, <4>1, TakeLast
      <4>4. \E i \in DOMAIN Pending(Sink) :
               Pending(Sink)' = Append(RemoveAt(Pending(Sink), i), Newest')
        BY <2>1, <4>2, <4>3
      <4> QED
        BY <1>1, <2>1, <4>4 DEF LogStep, Log!Next, Log!Accept, RemoveAt, Log!RemoveAt
    <3> QED
      BY <3>3, <3>4
  <2> QED
    BY <2>2, <2>3
<1> QED
  BY <1>2, <1>3

\* A run of what waits is lost: p is kept before it, r behind it.
LEMMA LogCut ==
  ASSUME NEW p \in Seq(Samples), NEW q \in Seq(Samples), NEW r \in Seq(Samples),
         UNCHANGED <<accepted, written, failed, late>>, q # <<>>,
         Pending(Sink) = (p \o q) \o r, Pending(Sink)' = p \o r,
         late \/ r = <<>>
  PROVE  LogStep
<1>1. PICK z, y : z = Pending(Sink) /\ y = Pending(Sink)'
  OBVIOUS
<1>2. /\ Len(z) = Len(p) + Len(q) + Len(r)
      /\ SubSeq(z, 1, Len(p)) = p /\ SubSeq(z, Len(p) + Len(q) + 1, Len(z)) = r
      /\ y = p \o r
  <2>1. z = (p \o q) \o r /\ y = p \o r
    BY <1>1
  <2>2. p \in Seq(Samples) /\ q \in Seq(Samples) /\ r \in Seq(Samples)
    OBVIOUS
  <2>3. /\ Len(z) = Len(p) + Len(q) + Len(r)
        /\ SubSeq(z, 1, Len(p)) = p /\ SubSeq(z, Len(p) + Len(q) + 1, Len(z)) = r
    BY ONLY <2>1, <2>2, CutOut
  <2> QED
    BY <2>1, <2>3
<1>3. PICK i, j : i = Len(p) /\ j = Len(p) + Len(q)
  OBVIOUS
<1>4. /\ i \in 0 .. Len(z) /\ j \in 0 .. Len(z) /\ i < j
      /\ ~late => j = Len(z)
  <2>1. Len(p) \in Nat /\ Len(q) \in Nat \ {0} /\ Len(r) \in Nat /\ (~late => Len(r) = 0)
    BY EmptySeq
  <2>2. PICK k \in Nat, m \in Nat, n \in Nat : k = Len(p) /\ m = Len(q) /\ n = Len(r)
    BY <2>1
  <2>3. m # 0 /\ i = k /\ j = k + m /\ Len(z) = k + m + n /\ (~late => n = 0)
    BY <1>2, <1>3, <2>1, <2>2
  <2>4. k \in 0 .. k + m + n /\ k + m \in 0 .. k + m + n /\ k < k + m
    BY <2>3
  <2>5. ~late => k + m = k + m + n
    BY <2>3
  <2> QED
    BY ONLY <2>3, <2>4, <2>5
<1>5. Newest' = Newest
  BY DEF Newest
<1>6. Log!Cut
  BY <1>1, <1>2, <1>3, <1>4, <1>5 DEF Log!Cut
<1> QED
  BY <1>6 DEF LogStep, Log!Next

\* One sample of what waits is written: p stays before it, r behind it.
LEMMA LogDeliver ==
  ASSUME NEW p \in Seq(Samples), NEW q \in Seq(Samples), NEW r \in Seq(Samples),
         UNCHANGED <<accepted, failed, late>>, q # <<>>,
         Pending(Sink) = (p \o q) \o r, Pending(Sink)' = (p \o Tail(q)) \o r,
         written'[Sink] = Append(written[Sink], Head(q)),
         late \/ p = <<>>
  PROVE  LogStep
<1>1. PICK z, w : z = Pending(Sink) /\ w = Pending(Sink)'
  OBVIOUS
<1>2. PICK i : i = Len(p) + 1
  OBVIOUS
<1>3. i \in DOMAIN z /\ z[i] = Head(q) /\ RemoveAt(z, i) = w
  <2>1. PICK t : t = Tail(q)
    OBVIOUS
  <2>2. z = (p \o q) \o r /\ w = (p \o t) \o r
    BY <1>1, <2>1
  <2>3. /\ p \in Seq(Samples) /\ q \in Seq(Samples) /\ r \in Seq(Samples)
        /\ Len(q) > 0
    BY EmptySeq
  <2>4. OneOut(p, Head(q), z, w)
    BY ONLY <2>1, <2>2, <2>3, TakeOut
  <2> QED
    BY <1>2, <2>4 DEF OneOut
<1>4. ~late => i = 1
  BY <1>2
<1>5. Newest' = Newest
  BY DEF Newest
<1>6. Log!Deliver
  BY <1>1, <1>3, <1>4, <1>5 DEF Log!Deliver, Log!RemoveAt, RemoveAt
<1> QED
  BY <1>6 DEF LogStep, Log!Next

LEMMA LogClose ==
  ASSUME Types, CloseStream, UNCHANGED <<written, failed, late, batch, todo>>
  PROVE  LogStep
<1>1. buf' = <<>> /\ UNCHANGED accepted
  BY DEF CloseStream
<1>2. CASE Sink \in failed \/ buf = <<>>
  <2>1. Sink \notin failed => Pending(Sink)' = Pending(Sink)
    BY <1>1, <1>2 DEF Pending, Held
  <2> QED
    BY <1>1, <2>1, LogStill
<1>3. CASE Sink \notin failed /\ buf # <<>>
  <2>1. PICK p \in Seq(Samples), b \in Seq(Samples), e \in Seq(Samples) :
           /\ p = Held("thread", Sink) \o Held("owner", Sink) /\ b = buf /\ e = <<>>
           /\ Pending(Sink) = p \o b
    BY <1>3, PendingParts, ConcatProperties, EmptySeq
  <2>2. Pending(Sink)' = p \o e
    BY <1>1, <1>3, <2>1 DEF Pending, Held
  <2>3. Pending(Sink) = (p \o b) \o e
    BY <2>1, ConcatProperties, ConcatEmptySeq
  <2> QED
    BY <1>1, <1>3, <2>1, <2>2, <2>3, LogCut
<1> QED
  BY <1>2, <1>3

\* A drainer takes the buffer; the other one holds nothing, or comes first.
LEMMA LogDrain ==
  ASSUME Types, Roster, Turns, NEW a \in Drainers, Drain(a)
  PROVE  LogStep
<1>1. /\ batch' = [batch EXCEPT ![a] = buf] /\ todo' = [todo EXCEPT ![a] = sinks]
      /\ buf' = <<>> /\ UNCHANGED <<accepted, failed, written, late>>
      /\ at[a] = "drain"
  BY DEF Drain, sinkVars
<1>2. batch \in [Drainers -> Seq(Samples)] /\ todo \in [Drainers -> Seq(SinkSet)]
  BY DEF Types, TypeOK
<1>3. ASSUME Sink \notin failed PROVE Pending(Sink)' = Pending(Sink)
  <2>1. Held(a, Sink) = <<>> /\ Sink \in ToSet(sinks)
    BY <1>1, <1>3, SinkAssumption DEF Roster, Held
  <2>2. Held(a, Sink)' = buf
    BY <1>1, <1>2, <2>1 DEF Held
  <2>3. \A b \in Drainers \ {a} : Held(b, Sink)' = Held(b, Sink)
    BY <1>1, <1>2 DEF Held
  <2>4. PICK t \in Seq(Samples), o \in Seq(Samples), b \in Seq(Samples), e \in Seq(Samples) :
           /\ t = Held("thread", Sink) /\ o = Held("owner", Sink) /\ b = buf /\ e = <<>>
           /\ Pending(Sink) = (t \o o) \o b
    BY <1>3, PendingParts, EmptySeq
  <2>5. CASE a = "thread"
    <3>1. at["owner"] # "write"
      BY <1>1, <2>5 DEF Turns, Past
    <3>2. t = e /\ o = e
      BY <2>1, <2>4, <2>5, <3>1 DEF Roster, Held, Drainers
    <3>3. Pending(Sink)' = (b \o o) \o e
      BY <1>1, <1>3, <2>2, <2>3, <2>4, <2>5 DEF Pending, Drainers
    <3>4. (e \o e) \o b = b /\ (b \o e) \o e = b
      <4>1. e \o e = e /\ e \o b = b /\ b \o e = b
        BY <2>4, ConcatEmptySeq
      <4> QED
        BY <4>1
    <3> QED
      BY <2>4, <3>2, <3>3, <3>4
  <2>6. CASE a = "owner"
    <3>1. o = e
      BY <2>1, <2>4, <2>6
    <3>2. Pending(Sink)' = (t \o b) \o e
      BY <1>1, <1>3, <2>2, <2>3, <2>4, <2>6 DEF Pending, Drainers
    <3>3. (t \o b) \o e = (t \o e) \o b
      <4>1. t \o b \in Seq(Samples)
        BY ConcatProperties
      <4>2. (t \o b) \o e = t \o b /\ t \o e = t
        BY <2>4, <4>1, ConcatEmptySeq
      <4> QED
        BY <4>2
    <3> QED
      BY <2>4, <3>1, <3>2, <3>3
  <2> QED
    BY <2>5, <2>6 DEF Drainers
<1> QED
  BY <1>1, <1>3, LogStill

\* Three batches of samples, joined from either side.
LEMMA Regroup ==
  \A s, t, u \in Seq(Samples) : (s \o t) \o u = s \o (t \o u)
BY ConcatAssociative

\* The two steps above, for what the first of the drainers holds.
LEMMA LogDeliverFirst ==
  ASSUME NEW q \in Seq(Samples), NEW o \in Seq(Samples), NEW b \in Seq(Samples),
         UNCHANGED <<accepted, failed, late>>, q # <<>>,
         Pending(Sink) = (q \o o) \o b, Pending(Sink)' = (Tail(q) \o o) \o b,
         written'[Sink] = Append(written[Sink], Head(q))
  PROVE  LogStep
<1>1. \A s \in Seq(Samples) : (s \o o) \o b = s \o (o \o b)
  BY Regroup
<1>2. PICK r \in Seq(Samples) : r = o \o b
  BY ConcatProperties
<1>3. \A s \in Seq(Samples) : (s \o o) \o b = s \o r
  BY <1>1, <1>2
<1>4. PICK t \in Seq(Samples) : t = Tail(q)
  BY HeadTailProperties
<1>5. Pending(Sink) = q \o r /\ Pending(Sink)' = t \o r
  BY <1>3, <1>4
<1>6. PICK e \in Seq(Samples) : e = <<>>
  BY EmptySeq
<1>7. e \o q = q /\ e \o t = t
  BY <1>6, ConcatEmptySeq
<1> QED
  BY <1>4, <1>5, <1>6, <1>7, LogDeliver

LEMMA LogCutFirst ==
  ASSUME NEW q \in Seq(Samples), NEW o \in Seq(Samples), NEW b \in Seq(Samples),
         UNCHANGED <<accepted, written, failed, late>>, q # <<>>, late,
         Pending(Sink) = (q \o o) \o b, Pending(Sink)' = o \o b
  PROVE  LogStep
<1>1. \A s \in Seq(Samples) : (s \o o) \o b = s \o (o \o b)
  BY Regroup
<1>2. PICK r \in Seq(Samples) : r = o \o b
  BY ConcatProperties
<1>3. Pending(Sink) = q \o r
  BY <1>1, <1>2
<1>4. PICK e \in Seq(Samples) : e = <<>>
  BY EmptySeq
<1>5. e \o q = q /\ e \o r = r
  BY <1>4, ConcatEmptySeq
<1> QED
  BY <1>2, <1>3, <1>4, <1>5, LogCut

\* A write to the sink that still works delivers; one to a sink that failed is a stray.
LEMMA LogWrite ==
  ASSUME Types, Order, Roster, Turns, Offers, NEW a \in Drainers, Write(a)
  PROVE  LogStep
<1> DEFINE h == Head(todo[a])
           x == Head(batch[a])
<1>1. /\ written' = [written EXCEPT ![h] = Append(@, x)]
      /\ todo' = [todo EXCEPT ![a] = Tail(@)] /\ batch[a] # <<>> /\ todo[a] # <<>>
      /\ at[a] = "write" /\ UNCHANGED <<accepted, buf, failed, batch, late>>
  BY DEF Write, streamVars
<1>2. /\ batch \in [Drainers -> Seq(Samples)] /\ todo \in [Drainers -> Seq(SinkSet)]
      /\ written \in [SinkSet -> Seq(Samples)]
  BY DEF Types, TypeOK
<1>3. /\ h \in SinkSet /\ ToSet(todo[a]) = {h} \cup ToSet(Tail(todo[a]))
      /\ h \notin ToSet(Tail(todo[a])) /\ todo'[a] = Tail(todo[a])
  BY <1>1, <1>2, TailSet, TailDistinct DEF Roster
<1>4. x \in accepted
  <2>1. x \in ToSet(batch[a])
    BY <1>1, <1>2, TailSet
  <2> QED
    BY <2>1 DEF Offers
<1> HIDE DEF h, x
<1>5. \A b \in Drainers \ {a} : Held(b, Sink)' = Held(b, Sink)
  BY <1>1, <1>2 DEF Held
<1>6. CASE Sink # h
  <2>1. written'[Sink] = written[Sink]
    BY <1>1, <1>2, <1>6, SinkAssumption
  <2>2. Held(a, Sink)' = Held(a, Sink)
    BY <1>1, <1>3, <1>6 DEF Held
  <2>3. Newest' = Newest /\ Pending(Sink)' = Pending(Sink)
    BY <1>1, <1>5, <2>2 DEF Newest, Pending, Drainers
  <2> QED
    BY <1>1, <2>1, <2>3 DEF LogStep, Log!vars
<1>7. CASE Sink = h /\ Sink \notin failed
  <2>1. written'[Sink] = Append(written[Sink], x)
    BY <1>1, <1>2, <1>7, SinkAssumption
  <2>2. Held(a, Sink) = batch[a] /\ Held(a, Sink)' = Tail(batch[a])
    BY <1>1, <1>3, <1>7 DEF Held
  <2>3. PICK q \in Seq(Samples) : q = batch[a]
    BY <1>2
  <2>4. q # <<>> /\ x = Head(q) /\ Tail(q) \in Seq(Samples)
    BY <1>1, <2>3, HeadTailProperties DEF x
  <2>5. PICK t \in Seq(Samples), o \in Seq(Samples), b \in Seq(Samples), e \in Seq(Samples) :
           /\ t = Held("thread", Sink) /\ o = Held("owner", Sink) /\ b = buf /\ e = <<>>
           /\ Pending(Sink) = (t \o o) \o b
    BY <1>7, PendingParts, EmptySeq
  <2>6. CASE a = "owner"
    <3>1. o = q /\ Held("thread", Sink)' = t /\ Held("owner", Sink)' = Tail(q)
      BY <1>5, <2>2, <2>3, <2>5, <2>6 DEF Drainers
    <3>2. Pending(Sink)' = (t \o Tail(q)) \o b
      BY <1>1, <1>7, <2>5, <3>1 DEF Pending
    <3>3. late \/ t = <<>>
      <4>1. CASE ~late
        <5>1. at["thread"] # "write"
          BY <1>1, <2>6, <4>1 DEF Turns, Past
        <5> QED
          BY <2>5, <5>1 DEF Roster, Held, Drainers
      <4> QED
        BY <4>1
    <3> QED
      BY <1>1, <2>1, <2>4, <2>5, <3>1, <3>2, <3>3, LogDeliver
  <2>7. CASE a = "thread"
    <3>1. t = q /\ Held("owner", Sink)' = o /\ Held("thread", Sink)' = Tail(q)
      BY <1>5, <2>2, <2>3, <2>5, <2>7 DEF Drainers
    <3>2. Pending(Sink)' = (Tail(q) \o o) \o b
      BY <1>1, <1>7, <2>5, <3>1 DEF Pending
    <3> QED
      BY <1>1, <2>1, <2>4, <2>5, <3>1, <3>2, LogDeliverFirst
  <2> QED
    BY <2>6, <2>7 DEF Drainers
<1>8. CASE Sink = h /\ Sink \in failed
  <2>1. written'[Sink] = Append(written[Sink], x)
    BY <1>1, <1>2, <1>8, SinkAssumption
  <2>2. late
    BY <1>3, <1>8 DEF Offers
  <2>3. Newest' = Newest /\ Pending(Sink)' = Pending(Sink)
    BY <1>1, <1>8 DEF Newest, Pending
  <2>4. x \in 1 .. Newest
    <3>1. accepted \subseteq Nat /\ x \in Nat /\ x >= 1
      BY <1>4, LenAssumption DEF Types, TypeOK, Samples
    <3>2. PICK m \in accepted : \A y \in accepted : y <= m
      BY <1>4 DEF Offers
    <3>3. \A y \in accepted : m >= y
      BY <3>1, <3>2
    <3>4. Max(accepted) \in accepted /\ \A y \in accepted : Max(accepted) >= y
      BY <3>3 DEF Max
    <3> QED
      BY <1>4, <3>1, <3>4 DEF Newest
  <2> QED
    BY <1>1, <1>8, <2>1, <2>2, <2>3, <2>4 DEF LogStep, Log!Next, Log!Stray
<1> QED
  BY <1>6, <1>7, <1>8

\* A write that raises: the sink fails, or the drainer dies of a sink that is gone.
LEMMA LogFails ==
  ASSUME Types, Roster, Turns, Offers, NEW a \in Drainers, WriteFails(a)
  PROVE  LogStep
<1> DEFINE h == Head(todo[a])
<1>1. /\ batch[a] # <<>> /\ todo[a] # <<>> /\ at[a] = "write"
      /\ UNCHANGED <<accepted, written, buf, late>>
  BY DEF WriteFails, streamVars, sinkVars
<1>2. /\ batch \in [Drainers -> Seq(Samples)] /\ todo \in [Drainers -> Seq(SinkSet)]
  BY DEF Types, TypeOK
<1>3. /\ h \in SinkSet /\ ToSet(todo[a]) = {h} \cup ToSet(Tail(todo[a]))
      /\ h \notin ToSet(Tail(todo[a]))
  BY <1>1, <1>2, TailSet, TailDistinct DEF Roster
<1>4. Newest' = Newest
  BY <1>1 DEF Newest
<1>5. CASE /\ \E i \in DOMAIN sinks : sinks[i] = h /\ sinks' = RemoveAt(sinks, i)
           /\ failed' = failed \cup {h}
           /\ todo' = [todo EXCEPT ![a] = Tail(@)]
           /\ UNCHANGED <<at, batch>>
  <2>1. h \notin failed
    <3>1. h \in ToSet(sinks)
      BY <1>5 DEF ToSet
    <3> QED
      BY <3>1 DEF Offers
  <2>2. CASE Sink = h
    <3>1. Pending(Sink)' = <<>> /\ Sink \in failed' /\ Sink \notin failed
      BY <1>5, <2>1, <2>2 DEF Pending
    <3> QED
      BY <1>1, <1>4, <3>1 DEF LogStep, Log!Next, Log!Fail
  <2>3. CASE Sink # h
    <3>1. Held(a, Sink)' = Held(a, Sink)
      <4>1. todo'[a] = Tail(todo[a]) /\ batch' = batch
        BY <1>2, <1>5
      <4> HIDE DEF h
      <4> QED
        BY <1>3, <2>3, <4>1 DEF Held
    <3>2. \A b \in Drainers \ {a} : Held(b, Sink)' = Held(b, Sink)
      BY <1>2, <1>5 DEF Held
    <3>3. (Sink \in failed') = (Sink \in failed)
      BY <1>5, <2>3
    <3>4. Pending(Sink)' = Pending(Sink)
      BY <1>1, <3>1, <3>2, <3>3 DEF Pending, Drainers
    <3> QED
      BY <1>1, <1>4, <3>3, <3>4 DEF LogStep, Log!vars
  <2> QED
    BY <2>2, <2>3
<1>6. CASE /\ h \notin ToSet(sinks)
           /\ batch' = [batch EXCEPT ![a] = <<>>]
           /\ todo' = [todo EXCEPT ![a] = <<>>]
           /\ UNCHANGED <<sinks, failed>>
  <2>1. late
    <3>1. h \in failed
      BY <1>3, <1>6 DEF Roster
    <3> QED
      BY <1>3, <3>1 DEF Offers
  <2>2. CASE Sink \in failed
    BY <1>1, <1>6, <2>2, LogStill
  <2>3. CASE Sink \notin failed
    <3>1. PICK t \in Seq(Samples), o \in Seq(Samples), b \in Seq(Samples), e \in Seq(Samples) :
             /\ t = Held("thread", Sink) /\ o = Held("owner", Sink) /\ b = buf /\ e = <<>>
             /\ Pending(Sink) = (t \o o) \o b
      BY <2>3, PendingParts, EmptySeq
    <3>2. Held(a, Sink)' = e /\ \A c \in Drainers \ {a} : Held(c, Sink)' = Held(c, Sink)
      BY <1>2, <1>6, <3>1 DEF Held
    <3>3. e \o t = t /\ e \o o = o /\ t \o e = t
      BY <3>1, ConcatEmptySeq
    <3>4. CASE a = "owner"
      <4>1. Pending(Sink)' = t \o b
        <5>1. Pending(Sink)' = (t \o e) \o b
          BY <1>1, <1>6, <2>3, <3>1, <3>2, <3>4 DEF Pending, Drainers
        <5> QED
          BY <3>3, <5>1
      <4>2. CASE o = <<>>
        <5>1. Pending(Sink)' = Pending(Sink)
          BY <3>1, <3>3, <4>1, <4>2
        <5> QED
          BY <1>1, <1>6, <5>1, LogStill
      <4>3. CASE o # <<>>
        BY <1>1, <1>6, <2>1, <3>1, <4>1, <4>3, LogCut
      <4> QED
        BY <4>2, <4>3
    <3>5. CASE a = "thread"
      <4>1. Pending(Sink)' = o \o b
        <5>1. Pending(Sink)' = (e \o o) \o b
          BY <1>1, <1>6, <2>3, <3>1, <3>2, <3>5 DEF Pending, Drainers
        <5> QED
          BY <3>3, <5>1
      <4>2. CASE t = <<>>
        <5>1. Pending(Sink)' = Pending(Sink)
          BY <3>1, <3>3, <4>1, <4>2
        <5> QED
          BY <1>1, <1>6, <5>1, LogStill
      <4>3. CASE t # <<>>
        BY <1>1, <1>6, <2>1, <3>1, <4>1, <4>3, LogCutFirst
      <4> QED
        BY <4>2, <4>3
    <3> QED
      BY <3>4, <3>5 DEF Drainers
  <2> QED
    BY <2>2, <2>3
<1> QED
  BY <1>5, <1>6 DEF WriteFails

\* A drainer goes on to its next sample; the sink looked at is among those it offers it to.
LEMMA LogNextSample ==
  ASSUME Types, Roster, NEW a \in Drainers, NextSample(a)
  PROVE  LogStep
<1>1. /\ batch' = [batch EXCEPT ![a] = Tail(@)] /\ todo' = [todo EXCEPT ![a] = sinks]
      /\ batch[a] # <<>> /\ todo[a] = <<>>
      /\ UNCHANGED <<accepted, written, buf, failed, late>>
  BY DEF NextSample, streamVars, sinkVars
<1>2. batch \in [Drainers -> Seq(Samples)] /\ todo \in [Drainers -> Seq(SinkSet)]
  BY DEF Types, TypeOK
<1>3. ASSUME Sink \notin failed, NEW b \in Drainers PROVE Held(b, Sink)' = Held(b, Sink)
  <2>1. CASE b = a
    <3>1. Held(a, Sink) = Tail(batch[a])
      BY <1>1, EmptySet DEF Held
    <3>2. Sink \in ToSet(sinks) /\ batch'[a] = Tail(batch[a]) /\ todo'[a] = sinks
      BY <1>1, <1>2, <1>3, SinkAssumption DEF Roster
    <3> QED
      BY <2>1, <3>1, <3>2 DEF Held
  <2>2. CASE b # a
    BY <1>1, <1>2, <2>2 DEF Held
  <2> QED
    BY <2>1, <2>2
<1>4. Sink \notin failed => Pending(Sink)' = Pending(Sink)
  BY <1>1, <1>3 DEF Pending, Drainers
<1> QED
  BY <1>1, <1>4, LogStill

LEMMA LogDone ==
  ASSUME Types, NEW a \in Drainers, DrainDone(a)
  PROVE  LogStep
<1>1. /\ todo' = [todo EXCEPT ![a] = <<>>] /\ batch[a] = <<>>
      /\ UNCHANGED <<accepted, written, buf, failed, batch, late>>
  BY DEF DrainDone, streamVars, sinkVars
<1>2. todo \in [Drainers -> Seq(SinkSet)]
  BY DEF Types, TypeOK
<1>3. ASSUME NEW b \in Drainers PROVE Held(b, Sink)' = Held(b, Sink)
  BY <1>1, <1>2 DEF Held
<1>4. Pending(Sink)' = Pending(Sink)
  BY <1>1, <1>3 DEF Pending, Drainers
<1> QED
  BY <1>1, <1>4, LogStill

\* A join that expires is where the order is given up.
LEMMA LogJoin ==
  ASSUME Turns, Join
  PROVE  LogStep
<1>1. UNCHANGED <<accepted, written, failed, buf, batch, todo>> /\ at["owner"] = "join"
  BY DEF Join, streamVars, sinkVars
<1>2. CASE late' = late
  BY <1>1, <1>2, LogAside
<1>3. CASE late' = TRUE
  <2>1. ~late
    BY <1>1 DEF Turns, Past
  <2>2. Newest' = Newest /\ Pending(Sink)' = Pending(Sink)
    BY <1>1 DEF Newest, Pending, Held
  <2> QED
    BY <1>1, <1>3, <2>1, <2>2 DEF LogStep, Log!Next, Log!GiveUpOrder
<1> QED
  BY <1>2, <1>3 DEF Join

LEMMA LogNext ==
  ASSUME Types, Order, Roster, Turns, Offers, [Next]_vars
  PROVE  LogStep
<1>1. CASE Tick \/ FanOut \/ SetEvent \/ StopInterface \/ Terminated \/ UNCHANGED vars
           \/ LoopTest \/ LoopWait \/ StartRecorder \/ StopRecorder \/ Unlist \/ CloseSinks
  <2>1. UNCHANGED <<accepted, written, failed, late, buf, batch, todo>>
    BY <1>1 DEF Tick, FanOut, SetEvent, StopInterface, Terminated, LoopTest, LoopWait,
       StartRecorder, StopRecorder, Unlist, CloseSinks, vars, recVars, streamVars, sinkVars
  <2> QED
    BY <2>1, LogAside
<1>2. CASE Put
  BY <1>2, LogPut
<1>3. CASE CloseListed \/ Unsubscribe
  <2>1. CloseStream /\ UNCHANGED <<written, failed, late, batch, todo>>
    BY <1>3 DEF CloseListed, Unsubscribe, recVars, sinkVars
  <2> QED
    BY <2>1, LogClose
<1>4. CASE Join
  BY <1>4, LogJoin
<1>5. ASSUME NEW a \in Drainers, DrainStep(a) PROVE LogStep
  BY <1>5, LogDrain, LogWrite, LogFails, LogNextSample, LogDone DEF DrainStep
<1> QED
  BY <1>1, <1>2, <1>3, <1>4, <1>5 DEF Next, BusStep, ThreadStep, OwnerStep, Drainers

\* For every sink, the recorder implements the lossy log: what the sink holds is in
\* order and without duplicates until a join expires, and samples are lost only when the
\* stream overflows or closes, when the sink fails, or with the drainer that held them.
THEOREM RecorderImplementsLog == Spec => ImplementsLog
<1>1. Init => Turns /\ Offers
  BY EmptySet DEF Init, Turns, Past, Offers, Drainers
<1>2. Init => Log!Init
  <2> SUFFICES ASSUME Init PROVE Log!Init
    OBVIOUS
  <2>1. Newest = 0 /\ written[Sink] = <<>> /\ Sink \notin failed /\ ~late
    BY SinkAssumption DEF Init, Newest
  <2>2. /\ Held("thread", Sink) = <<>> /\ Held("owner", Sink) = <<>> /\ buf = <<>>
    BY DEF Init, Held, Drainers
  <2>3. Pending(Sink) = <<>>
    BY <2>1, <2>2 DEF Pending
  <2> QED
    BY <2>1, <2>3 DEF Log!Init
<1>3. Types /\ Turns /\ [Next]_vars => Turns'
  BY TurnsStep
<1>4. Types /\ Order /\ Roster /\ Turns /\ Offers /\ [Next]_vars => Offers'
  BY OffersStep
<1>5. Types /\ Order /\ Roster /\ Turns /\ Offers /\ [Next]_vars => [Log!Next]_(Log!vars)
  BY LogNext DEF LogStep
<1> QED
  BY <1>1, <1>2, <1>3, <1>4, <1>5, TypesHold, OrderHolds, RosterHolds, PTL
     DEF Spec, ImplementsLog, Log!Spec

=============================================================================
