--------------------------- MODULE ApplyPlanProofs ---------------------------
(* Theorems of ApplyPlan, for every value of its constants whose plans     *)
(* give every servo an ID of its own (Fresh).                              *)
EXTENDS ApplyPlan, WellFoundedInduction, NaturalsInduction, TLAPS

-----------------------------------------------------------------------------
(* The chain of IDs.                                                       *)

\* A map whose values it does not map further.
Flat(map) ==
    /\ DOMAIN map \subseteq Ids
    /\ \A c \in DOMAIN map : map[c] \in Ids \ DOMAIN map

Renamed(map, c) == IF c \in DOMAIN map THEN map[c] ELSE c

\* What one pass of the chain makes of f.
Pass(f, map) ==
    [seen \in SUBSET Ids |->
       [c \in Ids |-> IF c \in DOMAIN map \ seen THEN f[seen \cup {c}][map[c]] ELSE c]]

LEMMA Passed ==
    ASSUME NEW f, NEW map, NEW seen \in SUBSET Ids, NEW c \in Ids
    PROVE  Pass(f, map)[seen][c] =
             IF c \in DOMAIN map \ seen THEN f[seen \cup {c}][map[c]] ELSE c
BY DEF Pass

\* The chain of such a map has one link at most.
LEMMA Resolved ==
    ASSUME NEW map, Flat(map), NEW sid \in Ids
    PROVE  Resolve(map, sid) = Renamed(map, sid)
<1> DEFINE f == CHOOSE f : f = Pass(f, map)
           w == [seen \in SUBSET Ids |->
                   [c \in Ids |-> IF c \in DOMAIN map \ seen THEN map[c] ELSE c]]
<1>1. w = Pass(w, map)
  <2>1. ASSUME NEW seen \in SUBSET Ids, NEW c \in Ids
        PROVE  (IF c \in DOMAIN map \ seen THEN map[c] ELSE c) =
               (IF c \in DOMAIN map \ seen THEN w[seen \cup {c}][map[c]] ELSE c)
    <3>1. c \in DOMAIN map => /\ map[c] \in Ids /\ map[c] \notin DOMAIN map
                              /\ seen \cup {c} \in SUBSET Ids
      BY DEF Flat
    <3>2. c \in DOMAIN map => w[seen \cup {c}][map[c]] = map[c]
      BY <3>1
    <3> QED BY <3>2
  <2>2. ASSUME NEW seen \in SUBSET Ids
        PROVE  [c \in Ids |-> IF c \in DOMAIN map \ seen THEN map[c] ELSE c] =
               [c \in Ids |-> IF c \in DOMAIN map \ seen
                              THEN w[seen \cup {c}][map[c]] ELSE c]
    <3> HIDE DEF w
    <3> QED BY <2>1
  <2>3. [seen \in SUBSET Ids |->
           [c \in Ids |-> IF c \in DOMAIN map \ seen THEN map[c] ELSE c]] = Pass(w, map)
    <3> HIDE DEF w
    <3> QED BY <2>2 DEF Pass
  <2> QED BY <2>3
<1>2. f = Pass(f, map)
  <2> HIDE DEF w
  <2> QED BY <1>1
<1>3. Resolve(map, sid) = f[{}][sid]
  BY DEF Resolve, Pass
<1> HIDE DEF f, w
<1>4. \A seen \in SUBSET Ids, c \in Ids :
        f[seen][c] = IF c \in DOMAIN map \ seen THEN f[seen \cup {c}][map[c]] ELSE c
  <2> SUFFICES ASSUME NEW seen \in SUBSET Ids, NEW c \in Ids
               PROVE  f[seen][c] =
                        IF c \in DOMAIN map \ seen THEN f[seen \cup {c}][map[c]] ELSE c
    OBVIOUS
  <2>1. PICK g : g = f
    OBVIOUS
  <2>2. Pass(g, map)[seen][c] =
          IF c \in DOMAIN map \ seen THEN g[seen \cup {c}][map[c]] ELSE c
    BY Passed
  <2>3. g[seen][c] = Pass(g, map)[seen][c]
    BY <1>2, <2>1
  <2> QED BY <2>1, <2>2, <2>3
<1>5. CASE sid \in DOMAIN map
  <2>1. map[sid] \in Ids /\ map[sid] \notin DOMAIN map /\ {sid} \in SUBSET Ids
        /\ {} \in SUBSET Ids /\ {} \cup {sid} = {sid}
    BY <1>5 DEF Flat
  <2>2. f[{}][sid] = f[{sid}][map[sid]]
    BY <1>4, <1>5, <2>1
  <2>3. f[{sid}][map[sid]] = map[sid]
    BY <1>4, <2>1
  <2> QED BY <1>3, <1>5, <2>2, <2>3 DEF Renamed
<1>6. CASE sid \notin DOMAIN map
  <2>1. f[{}][sid] = sid
    BY <1>4, <1>6
  <2> QED BY <1>3, <1>6, <2>1 DEF Renamed
<1> QED BY <1>5, <1>6

LEMMA Least ==
    ASSUME NEW S \in SUBSET Nat, S # {}
    PROVE  Min(S) \in S
<1> DEFINE R == OpToRel(<, Nat)
<1>1. IsWellFoundedOn(R, Nat)
  BY NatLessThanWellFounded
<1>2. ASSUME NEW x \in Nat, NEW y \in Nat PROVE y < x => <<y, x>> \in R
  <2>1. ASSUME NEW ss, ss = <<y, x>> PROVE ss \in Nat \X Nat /\ ss[1] = y /\ ss[2] = x
    BY <2>1
  <2> QED BY <2>1 DEF OpToRel
<1> HIDE DEF R
<1>3. \E x \in S : \A y \in S : ~ (<<y, x>> \in R)
  BY <1>1, WFMin
<1>4. \E x \in S : \A y \in S : x <= y
  <2>1. PICK x \in S : \A y \in S : ~ (<<y, x>> \in R)
    BY <1>3
  <2>2. \A y \in S : x \in Nat /\ y \in Nat /\ ~ (y < x)
    BY <1>2, <2>1
  <2> QED BY <2>1, <2>2
<1> QED BY <1>4 DEF Min

-----------------------------------------------------------------------------
(* What is so in every state.                                              *)

FreshOnly == \A p \in Plans : Fresh(p)

Assigning == phase \in {"assign", "write_id"}
Assigned  == phase \in {"unlock", "set", "lock", "done"}

\* Where the loops are.
PlaceInv ==
    /\ Assigning \/ phase = "unlock" => reg = 1
    /\ Assigning => left = {} /\ targets = {}
    /\ phase = "write_id" => at <= Len(plan.assign)
    /\ phase = "unlock" => at = 1 /\ left \subseteq targets
    /\ phase = "set" /\ reg = 2 =>
         at <= Len(plan.settings) /\ Entry.valid /\ Entry.kind = "limits"
    /\ phase = "lock" => left \subseteq LockTargets
    /\ Assigned => targets = FinalIds(plan, remap)

\* A servo has the ID it had or the one the plan gives it, and remap knows of every one
\* that was given and acknowledged.
IdInv ==
    /\ \A s \in Servos :
         id[s] = s \/ \E i \in DOMAIN plan.assign : plan.assign[i] = <<s, id[s]>>
    /\ \A c \in DOMAIN remap :
         /\ c \in Servos /\ remap[c] = id[c]
         /\ \E i \in DOMAIN plan.assign :
              plan.assign[i] = <<c, remap[c]>> /\ (Assigning => i < at)
    /\ \A s \in Servos \ hurt : id[s] # s => s \in DOMAIN remap

\* The register r of entry j has been come to.
Past(j, r) ==
    \/ phase \in {"lock", "done"}
    \/ phase = "set" /\ j < at
    \/ phase = "set" /\ j = at /\ r < reg

Written(s, n) ==
    \E j \in DOMAIN plan.settings :
      /\ plan.settings[j].valid /\ plan.settings[j].id = s
      /\ \E r \in DOMAIN Regs(plan.settings[j]) :
           Regs(plan.settings[j])[r] = n /\ Past(j, r)

\* A register has the value it had or one that is meant for its servo; what was come to is
\* there if every write was acknowledged, and what was acknowledged is there.
ValueInv ==
    /\ \A s \in Servos, n \in Names : value[s][n] \in {s, Factory}
    /\ phase # "raised" =>
         \A s \in Servos \ hurt, n \in Names :
           value[s][n] = IF Written(s, n) THEN s ELSE Factory
    /\ \A x \in acked :
         /\ x[1] \in Servos
         /\ IF x[2] = "id" THEN x[1] \in DOMAIN remap ELSE value[x[1]][x[2]] = x[1]

\* A servo that acknowledged every write is unlocked when its EEPROM is written, and the
\* lock loop will come to every one that is.
LockInv ==
    /\ Kept
    /\ Unlock /\ phase = "write_id" =>
         \A s \in Servos \ hurt : id[s] = plan.assign[at][1] => ~locked[s]
    /\ Unlock /\ phase = "unlock" =>
         \A s \in Servos \ hurt : id[s] \in targets \ left => ~locked[s]
    /\ Unlock /\ phase = "set" =>
         \A s \in Servos \ hurt : id[s] \in targets => ~locked[s]
    /\ \A s \in Servos \ hurt : ~locked[s] =>
         /\ phase = "assign" => s \in DOMAIN remap
         /\ phase = "write_id" => s \in DOMAIN remap \/ s = plan.assign[at][1]
         /\ phase \in {"unlock", "set"} => id[s] \in LockTargets
         /\ phase = "lock" /\ Lock => id[s] \in left
         /\ phase = "done" => ~Lock

PlanInv == TypeOK /\ PlaceInv /\ IdInv /\ ValueInv /\ LockInv

-----------------------------------------------------------------------------
(* Names and writes.                                                       *)

\* What a fresh plan is made of.
LEMMA Shapes ==
    ASSUME FreshOnly, TypeOK
    PROVE  /\ Len(plan.assign) \in Nat /\ DOMAIN plan.assign = 1 .. Len(plan.assign)
           /\ Len(plan.settings) \in Nat /\ DOMAIN plan.settings = 1 .. Len(plan.settings)
           /\ \A i \in DOMAIN plan.assign :
                /\ plan.assign[i] = <<plan.assign[i][1], plan.assign[i][2]>>
                /\ plan.assign[i][1] \in Ids
                /\ plan.assign[i][2] \in Ids /\ plan.assign[i][2] \notin Servos
                /\ \A j \in DOMAIN plan.assign :
                     /\ plan.assign[i][2] # plan.assign[j][1]
                     /\ i # j => /\ plan.assign[i][1] # plan.assign[j][1]
                                 /\ plan.assign[i][2] # plan.assign[j][2]
                /\ \A j \in DOMAIN plan.settings : plan.assign[i][2] # plan.settings[j].id
           /\ \A j \in DOMAIN plan.settings :
                /\ plan.settings[j].id \in Ids /\ plan.settings[j].valid \in BOOLEAN
                /\ plan.settings[j].kind \in Kinds
<1>1. Fresh(plan)
  BY DEF FreshOnly, TypeOK
<1>2. /\ plan.assign \in Seq(Ids \X (Ids \ Servos))
      /\ plan.settings \in Seq([kind : Kinds, id : Ids, valid : BOOLEAN])
  BY <1>1 DEF Fresh
<1>3. /\ Len(plan.assign) \in Nat /\ DOMAIN plan.assign = 1 .. Len(plan.assign)
      /\ Len(plan.settings) \in Nat /\ DOMAIN plan.settings = 1 .. Len(plan.settings)
  BY <1>2
<1>4. ASSUME NEW i \in DOMAIN plan.assign
      PROVE  plan.assign[i] \in Ids \X (Ids \ Servos)
  BY <1>2, <1>3
<1>5. ASSUME NEW j \in DOMAIN plan.settings
      PROVE  plan.settings[j] \in [kind : Kinds, id : Ids, valid : BOOLEAN]
  <2> DEFINE S == [kind : Kinds, id : Ids, valid : BOOLEAN]
  <2>1. plan.settings \in Seq(S) /\ j \in 1 .. Len(plan.settings)
    BY <1>2, <1>3
  <2> HIDE DEF S
  <2>2. plan.settings[j] \in S
    BY <2>1
  <2> QED BY <2>2 DEF S
<1>6. \A i \in DOMAIN plan.assign, j \in DOMAIN plan.settings :
        plan.assign[i][2] # plan.settings[j].id
  BY <1>1 DEF Fresh, Entries
<1>7. \A i, j \in DOMAIN plan.assign :
        /\ plan.assign[i][2] # plan.assign[j][1]
        /\ i # j => /\ plan.assign[i][1] # plan.assign[j][1]
                    /\ plan.assign[i][2] # plan.assign[j][2]
  BY <1>1 DEF Fresh
<1> QED BY <1>3, <1>4, <1>5, <1>6, <1>7

\* The IDs the plan gives.
New(i) == \E n \in DOMAIN plan.assign : plan.assign[n][2] = i

\* What remap maps was an ID before, and what it maps it to was not.
LEMMA Remapped ==
    ASSUME FreshOnly, TypeOK, IdInv
    PROVE  /\ Flat(remap)
           /\ \A c \in DOMAIN remap : c \in Servos /\ remap[c] = id[c] /\ New(remap[c])
           /\ \A i \in Ids : New(i) => i \notin DOMAIN remap /\ i \notin Servos
<1>1. \A c \in DOMAIN remap :
        /\ c \in Servos /\ remap[c] = id[c]
        /\ \E i \in DOMAIN plan.assign : plan.assign[i] = <<c, remap[c]>>
  BY DEF IdInv
<1>2. \A c \in DOMAIN remap :
        /\ c \in Ids /\ remap[c] \in Ids /\ New(remap[c])
        /\ \E i \in DOMAIN plan.assign : plan.assign[i][1] = c
  <2> SUFFICES ASSUME NEW c \in DOMAIN remap
               PROVE  /\ c \in Ids /\ remap[c] \in Ids /\ New(remap[c])
                      /\ \E i \in DOMAIN plan.assign : plan.assign[i][1] = c
    OBVIOUS
  <2>1. PICK i \in DOMAIN plan.assign : plan.assign[i] = <<c, remap[c]>>
    BY <1>1
  <2>2. plan.assign[i][1] = c /\ plan.assign[i][2] = remap[c]
    BY <2>1
  <2>3. c \in Ids /\ remap[c] \in Ids
    BY DEF TypeOK
  <2> QED BY <2>2, <2>3 DEF New
<1>3. \A i \in Ids : New(i) => i \notin DOMAIN remap /\ i \notin Servos
  BY <1>2, Shapes DEF New
<1> QED BY <1>1, <1>2, <1>3 DEF Flat

\* No two servos have one ID.
LEMMA Injective ==
    ASSUME FreshOnly, TypeOK, IdInv, NEW s \in Servos, NEW t \in Servos, id[s] = id[t]
    PROVE  s = t
<1>1. \A x \in Servos : id[x] = x \/ \E i \in DOMAIN plan.assign : plan.assign[i] = <<x, id[x]>>
  BY DEF IdInv
<1>2. \A x \in Servos : id[x] # x => id[x] \notin Servos
  BY <1>1, Shapes
<1>3. CASE id[s] = s \/ id[t] = t
  BY <1>2, <1>3
<1>4. CASE id[s] # s /\ id[t] # t
  <2>1. PICK i \in DOMAIN plan.assign : plan.assign[i] = <<s, id[s]>>
    BY <1>1, <1>4
  <2>2. PICK j \in DOMAIN plan.assign : plan.assign[j] = <<t, id[t]>>
    BY <1>1, <1>4
  <2>3. i = j
    BY <2>1, <2>2, Shapes
  <2> QED BY <2>1, <2>2, <2>3
<1> QED BY <1>3, <1>4

\* Nobody but the servo that had an ID before the plan answers to what became of it, and
\* it does unless a write to it was missed.
LEMMA Known ==
    ASSUME FreshOnly, TypeOK, IdInv, NEW c \in Ids, ~New(c)
    PROVE  /\ Resolve(remap, c) = Renamed(remap, c) /\ Renamed(remap, c) \in Ids
           /\ \A s \in Servos : id[s] = Renamed(remap, c) => s = c
           /\ c \in Servos \ hurt => id[c] = Renamed(remap, c)
<1>1. Resolve(remap, c) = Renamed(remap, c)
  BY Remapped, Resolved
<1>2. CASE c \in DOMAIN remap
  <2>1. Renamed(remap, c) = id[c] /\ c \in Servos
    BY <1>2, Remapped DEF Renamed
  <2>2. \A s \in Servos : id[s] = id[c] => s = c
    BY <2>1, Injective
  <2> QED BY <1>1, <2>1, <2>2 DEF TypeOK
<1>3. CASE c \notin DOMAIN remap
  <2>1. Renamed(remap, c) = c
    BY <1>3 DEF Renamed
  <2>2. \A s \in Servos : id[s] = c => s = c
    <3> SUFFICES ASSUME NEW s \in Servos, id[s] = c, s # c PROVE FALSE
      OBVIOUS
    <3>1. PICK i \in DOMAIN plan.assign : plan.assign[i] = <<s, id[s]>>
      BY DEF IdInv
    <3> QED BY <3>1 DEF New
  <2>3. c \in Servos \ hurt => id[c] = c
    BY <1>3 DEF IdInv
  <2> QED BY <1>1, <2>1, <2>2, <2>3
<1> QED BY <1>2, <1>3

\* What the lock loop writes to goes by that ID already, and so do the targets.
LEMMA KnownTargets ==
    ASSUME FreshOnly, TypeOK, IdInv, NEW i, i \in FinalIds(plan, remap) \/ i \in {remap[x] : x \in DOMAIN remap}
    PROVE  i \in Ids /\ Resolve(remap, i) = i
<1>1. i \in Ids /\ i \notin DOMAIN remap
  <2>1. CASE i \in {remap[x] : x \in DOMAIN remap}
    BY <2>1, Remapped DEF Flat
  <2>2. CASE i \in FinalIds(plan, remap)
    <3>1. PICK j \in DOMAIN plan.settings : i = Resolve(remap, plan.settings[j].id)
      BY <2>2 DEF FinalIds, Entries
    <3>2. plan.settings[j].id \in Ids /\ ~New(plan.settings[j].id)
      BY <3>1, Shapes DEF New
    <3>3. i = Renamed(remap, plan.settings[j].id)
      BY <3>1, <3>2, Known
    <3> QED BY <3>2, <3>3, Remapped DEF Renamed, Flat
  <2> QED BY <2>1, <2>2
<1>2. Resolve(remap, i) = Renamed(remap, i)
  BY <1>1, Remapped, Resolved
<1> QED BY <1>1, <1>2 DEF Renamed

\* A write reaches no servo but those it is for, and all of them if it is acknowledged; if
\* it is not, they are marked.
LEMMA Reaches ==
    ASSUME NEW i, NEW heard \in SUBSET Servos, NEW ok \in BOOLEAN,
           Answers(i, heard, ok), Mark(i, ok), hurt \subseteq Servos
    PROVE  /\ hurt \subseteq hurt' /\ hurt' \subseteq Servos
           /\ \A s \in heard : s \in Servos /\ id[s] = i
           /\ ok => \E s \in Servos : s \in heard
           /\ \A s \in Servos : id[s] = i => \/ s \in hurt'
                                             \/ ok /\ s \in heard
           /\ ok => hurt' = hurt
BY DEF Answers, Mark, Receivers

LEMMA Switched ==
    ASSUME TypeOK, NEW i, NEW on \in BOOLEAN, WriteLock(i, on)
    PROVE  /\ hurt \subseteq hurt' /\ hurt' \subseteq Servos
           /\ locked' \in [Servos -> BOOLEAN]
           /\ \A s \in Servos : locked'[s] = locked[s] \/ (id[s] = i /\ locked'[s] = on)
           /\ \A s \in Servos \ hurt' : id[s] = i => locked'[s] = on
<1>1. PICK heard \in SUBSET Servos, ok \in BOOLEAN :
        /\ Answers(i, heard, ok) /\ Mark(i, ok)
        /\ locked' = [s \in Servos |-> IF s \in heard THEN on ELSE locked[s]]
  BY DEF WriteLock
<1>2. hurt \subseteq Servos /\ locked \in [Servos -> BOOLEAN]
  BY DEF TypeOK
<1>3. /\ hurt \subseteq hurt' /\ hurt' \subseteq Servos
      /\ \A s \in heard : s \in Servos /\ id[s] = i
      /\ \A s \in Servos : id[s] = i => s \in hurt' \/ (ok /\ s \in heard)
  BY <1>1, <1>2, Reaches
<1> QED BY <1>1, <1>2, <1>3

\* The registers of an entry.
LEMMA Registers ==
    ASSUME NEW e, e.kind \in Kinds
    PROVE  /\ DOMAIN Regs(e) = 1 .. Len(Regs(e)) /\ Len(Regs(e)) \in {1, 2}
           /\ Len(Regs(e)) = 2 <=> e.kind = "limits"
           /\ \A r \in 1 .. Len(Regs(e)) : Regs(e)[r] \in Names
<1>1. CASE e.kind = "limits"
  <2>1. Regs(e) = <<"min", "max">>
    BY <1>1 DEF Regs
  <2>2. "min" \in Names /\ "max" \in Names
    BY DEF Names, Eeprom
  <2> QED BY <1>1, <2>1, <2>2
<1>2. CASE e.kind # "limits"
  <2>1. Regs(e) = <<e.kind>> /\ e.kind \in Names
    BY <1>2 DEF Regs, Kinds
  <2> QED BY <1>2, <2>1
<1> QED BY <1>1, <1>2

-----------------------------------------------------------------------------
(* The steps.                                                              *)

\* The entry the ID loop has come to was not remapped yet.
LEMMA Active ==
    ASSUME FreshOnly, TypeOK, IdInv, Assigning, at <= Len(plan.assign)
    PROVE  /\ at \in DOMAIN plan.assign /\ ActiveId = plan.assign[at][1]
           /\ plan.assign[at] = <<plan.assign[at][1], plan.assign[at][2]>>
           /\ plan.assign[at][1] \in Ids /\ plan.assign[at][1] \notin DOMAIN remap
           /\ plan.assign[at][2] \in Ids
           /\ \A s \in Servos : id[s] = plan.assign[at][1] => s = plan.assign[at][1]
<1>1. at \in DOMAIN plan.assign
  BY Shapes DEF TypeOK
<1>2. /\ plan.assign[at] = <<plan.assign[at][1], plan.assign[at][2]>>
      /\ plan.assign[at][1] \in Ids /\ plan.assign[at][2] \in Ids
      /\ ~New(plan.assign[at][1])
  BY <1>1, Shapes DEF New
<1>3. plan.assign[at][1] \notin DOMAIN remap
  <2> SUFFICES ASSUME NEW c \in DOMAIN remap, c = plan.assign[at][1] PROVE FALSE
    OBVIOUS
  <2>1. PICK i \in DOMAIN plan.assign : plan.assign[i] = <<c, remap[c]>> /\ i < at
    BY DEF IdInv
  <2>2. plan.assign[i][1] = plan.assign[at][1] /\ i # at
    BY <1>1, <2>1, Shapes
  <2> QED BY <1>1, <2>2, Shapes
<1>4. Renamed(remap, plan.assign[at][1]) = plan.assign[at][1]
  BY <1>3 DEF Renamed
<1> QED BY <1>1, <1>2, <1>3, <1>4, Known DEF ActiveId

\* Nothing was come to before the loops over the settings.
LEMMA NotYet ==
    ASSUME Assigning \/ phase = "unlock"
    PROVE  \A s, n : ~Written(s, n)
BY DEF Assigning, Written, Past

LEMMA AssignUnlockStep ==
    ASSUME FreshOnly, PlanInv, AssignUnlock
    PROVE  PlanInv'
<1>1. /\ TypeOK /\ PlaceInv /\ IdInv /\ ValueInv /\ LockInv
      /\ phase = "assign" /\ at <= Len(plan.assign) /\ phase' = "write_id"
      /\ UNCHANGED <<plan, at, reg, left, remap, targets, acked, id, value, kept>>
  BY DEF PlanInv, AssignUnlock
<1>2. /\ ActiveId = plan.assign[at][1]
      /\ \A s \in Servos : id[s] = plan.assign[at][1] => s = plan.assign[at][1]
  BY <1>1, Active DEF Assigning
<1>3. /\ hurt \subseteq hurt' /\ hurt' \subseteq Servos /\ locked' \in [Servos -> BOOLEAN]
      /\ \A s \in Servos : locked'[s] = locked[s] \/ (id[s] = ActiveId /\ locked'[s] = FALSE)
      /\ Unlock => \A s \in Servos \ hurt' : id[s] = ActiveId => locked'[s] = FALSE
  <2>1. CASE Unlock
    <3>1. WriteLock(ActiveId, FALSE) /\ FALSE \in BOOLEAN
      BY <2>1 DEF AssignUnlock
    <3> QED BY <1>1, <3>1, Switched
  <2>2. CASE ~Unlock
    BY <1>1, <2>2 DEF AssignUnlock, TypeOK
  <2> QED BY <2>1, <2>2
<1>4. TypeOK' /\ PlaceInv'
  BY <1>1, <1>3 DEF TypeOK, PlaceInv, Entry, Assigning, Assigned
<1>5. IdInv'
  BY <1>1, <1>3 DEF IdInv, Assigning
<1>6. ValueInv'
  <2>1. \A s, n : ~Written(s, n) /\ ~Written(s, n)'
    BY <1>1 DEF Written, Past
  <2> QED BY <1>1, <1>3, <2>1 DEF ValueInv
<1>7. LockInv'
  BY <1>1, <1>2, <1>3 DEF LockInv, Kept
<1> QED BY <1>4, <1>5, <1>6, <1>7 DEF PlanInv

LEMMA AssignIdStep ==
    ASSUME FreshOnly, PlanInv, AssignId
    PROVE  PlanInv'
<1>1. /\ TypeOK /\ PlaceInv /\ IdInv /\ ValueInv /\ LockInv
      /\ phase = "write_id" /\ at <= Len(plan.assign) /\ phase' = "assign" /\ at' = at + 1
      /\ UNCHANGED <<plan, reg, left, targets, locked, value>>
  BY DEF PlanInv, PlaceInv, AssignId
<1> DEFINE a == plan.assign[at][1]
           b == plan.assign[at][2]
<1>2. /\ at \in DOMAIN plan.assign /\ ActiveId = a /\ plan.assign[at] = <<a, b>>
      /\ a \in Ids /\ a \notin DOMAIN remap /\ b \in Ids
      /\ \A s \in Servos : id[s] = a => s = a
  BY <1>1, Active DEF Assigning
<1>3. PICK heard \in SUBSET Servos, ok \in BOOLEAN :
        /\ Answers(a, heard, ok) /\ Mark(a, ok)
        /\ id' = [s \in Servos |-> IF s \in heard THEN b ELSE id[s]]
        /\ kept' = (kept \ (heard \X {"id"})) \cup ({s \in heard : ~locked[s]} \X {"id"})
        /\ remap' = IF ok THEN [i \in DOMAIN remap \cup {a} |-> IF i = a THEN b ELSE remap[i]]
                          ELSE remap
        /\ acked' = IF ok THEN acked \cup {<<a, "id">>} ELSE acked
  BY <1>2 DEF AssignId
<1> HIDE DEF a, b
<1>4. hurt \subseteq Servos /\ id \in [Servos -> Ids] /\ at \in Nat
  BY <1>1 DEF TypeOK
<1>5. /\ hurt \subseteq hurt' /\ hurt' \subseteq Servos
      /\ \A s \in heard : s \in Servos /\ id[s] = a /\ s = a
      /\ ok => a \in Servos /\ a \in heard
      /\ \A s \in Servos : id[s] = a => s \in hurt' \/ (ok /\ s \in heard)
  <2>1. Answers(a, heard, ok) /\ Mark(a, ok)
    BY <1>3
  <2>2. /\ hurt \subseteq hurt' /\ hurt' \subseteq Servos
        /\ \A s \in heard : s \in Servos /\ id[s] = a
        /\ ok => \E s \in Servos : s \in heard
        /\ \A s \in Servos : id[s] = a => s \in hurt' \/ (ok /\ s \in heard)
    BY ONLY <1>4, <2>1, Reaches
  <2> QED BY <1>2, <2>2
<1>6. /\ \A s \in Servos : id'[s] = IF s \in heard THEN b ELSE id[s]
      /\ ok => DOMAIN remap' = DOMAIN remap \cup {a} /\ remap'[a] = b
      /\ ~ok => remap' = remap
      /\ \A c \in DOMAIN remap : c \in DOMAIN remap' /\ remap'[c] = remap[c]
  BY <1>2, <1>3
<1>7. \A c \in DOMAIN remap' : c \in DOMAIN remap \/ (ok /\ c = a)
  BY <1>6
<1>8. TypeOK'
  <2>1. id' \in [Servos -> Ids]
    BY <1>2, <1>3, <1>4
  <2>2. DOMAIN remap' \subseteq Ids /\ \A i \in DOMAIN remap' : remap'[i] \in Ids
    BY <1>1, <1>2, <1>6, <1>7 DEF TypeOK
  <2>3. kept' \subseteq Servos \X Eeprom
    BY <1>1, <1>3 DEF TypeOK, Eeprom
  <2>4. acked' \subseteq Ids \X (Names \cup {"id"})
    BY <1>1, <1>2, <1>3 DEF TypeOK
  <2> QED BY <1>1, <1>4, <1>5, <2>1, <2>2, <2>3, <2>4 DEF TypeOK
<1>9. PlaceInv'
  BY <1>1 DEF PlaceInv, Assigning, Assigned
<1>10. IdInv'
  <2>1. ASSUME NEW s \in Servos
        PROVE  id'[s] = s \/ \E i \in DOMAIN plan.assign : plan.assign[i] = <<s, id'[s]>>
    <3>1. CASE s \in heard
      <4>1. s = a /\ id'[s] = b
        BY <1>5, <1>6, <3>1
      <4> QED BY <1>2, <4>1
    <3>2. CASE s \notin heard
      <4>1. id'[s] = id[s]
        BY <1>6, <3>2
      <4> QED BY <1>1, <4>1 DEF IdInv
    <3> QED BY <3>1, <3>2
  <2>2. ASSUME NEW c \in DOMAIN remap'
        PROVE  /\ c \in Servos /\ remap'[c] = id'[c]
               /\ \E i \in DOMAIN plan.assign : plan.assign[i] = <<c, remap'[c]>> /\ i < at'
    <3>1. CASE ok /\ c = a
      BY <1>1, <1>2, <1>4, <1>5, <1>6, <3>1
    <3>2. CASE c \in DOMAIN remap
      <4>1. c \in Servos /\ remap[c] = id[c] /\ c # a
        BY <1>1, <1>2, <3>2 DEF IdInv
      <4>2. PICK i \in DOMAIN plan.assign : plan.assign[i] = <<c, remap[c]>> /\ i < at
        BY <1>1, <3>2 DEF IdInv, Assigning
      <4>3. i < at'
        BY <1>1, <1>4, <4>2, Shapes
      <4> QED BY <1>5, <1>6, <3>2, <4>1, <4>2, <4>3
    <3> QED BY <1>7, <3>1, <3>2
  <2>3. ASSUME NEW s \in Servos \ hurt', id'[s] # s PROVE s \in DOMAIN remap'
    BY <1>1, <1>5, <1>6, <2>3 DEF IdInv
  <2> QED BY <1>1, <2>1, <2>2, <2>3 DEF IdInv
<1>11. ValueInv'
  <2>1. \A s, n : ~Written(s, n) /\ ~Written(s, n)'
    BY <1>1 DEF Written, Past
  <2>2. \A x \in acked' : x \in acked \/ (ok /\ x = <<a, "id">>)
    BY <1>3
  <2>3. \A x \in acked' :
          /\ x[1] \in Servos
          /\ IF x[2] = "id" THEN x[1] \in DOMAIN remap' ELSE value[x[1]][x[2]] = x[1]
    BY <1>1, <1>5, <1>6, <2>2 DEF ValueInv
  <2> QED BY <1>1, <1>5, <2>1, <2>3 DEF ValueInv
<1>12. a \in Servos \ hurt' => id[a] = a /\ ok
  BY <1>1, <1>2, <1>5 DEF IdInv
<1>13. Kept'
  <2> SUFFICES ASSUME Unlock, NEW x \in acked', x[2] \in Eeprom, x[1] \notin hurt'
               PROVE  x \in kept'
    BY DEF Kept
  <2>1. CASE x = <<a, "id">>
    <3>1. a \in Servos
      BY <1>1, <1>3, <1>5, <2>1 DEF ValueInv
    <3>2. a \in heard /\ ~locked[a]
      BY <1>1, <1>5, <1>12, <2>1, <3>1 DEF LockInv, a
    <3> QED BY <1>3, <2>1, <3>2
  <2>2. CASE x # <<a, "id">>
    <3>1. x \in acked /\ x \in kept
      BY <1>1, <1>3, <1>5, <2>2 DEF LockInv, Kept
    <3>2. x \notin heard \X {"id"}
      BY <1>5, <2>2
    <3> QED BY <1>3, <3>1, <3>2
  <2> QED BY <2>1, <2>2
<1>14. \A s \in Servos \ hurt' : ~locked[s] => s \in DOMAIN remap'
  <2>1. \A s \in Servos \ hurt : ~locked[s] => s \in DOMAIN remap \/ s = a
    BY <1>1 DEF LockInv, a
  <2> QED BY <1>5, <1>6, <1>12, <2>1
<1>15. LockInv'
  BY <1>1, <1>13, <1>14 DEF LockInv
<1> QED BY <1>8, <1>9, <1>10, <1>11, <1>15 DEF PlanInv

LEMMA AssignDoneStep ==
    ASSUME FreshOnly, PlanInv, AssignDone
    PROVE  PlanInv'
<1>1. /\ TypeOK /\ PlaceInv /\ IdInv /\ ValueInv /\ LockInv
      /\ phase = "assign" /\ phase' = "unlock" /\ at' = 1
      /\ targets' = FinalIds(plan, remap) /\ left' = IF Unlock THEN targets' ELSE {}
      /\ UNCHANGED <<plan, reg, remap, acked, id, locked, value, kept, hurt>>
  BY DEF PlanInv, AssignDone, servoVars
<1>2. targets' \subseteq Ids
  BY <1>1, KnownTargets
<1>3. TypeOK'
  BY <1>1, <1>2 DEF TypeOK
<1>4. PlaceInv' /\ IdInv'
  <2>1. IdInv'
    BY <1>1 DEF IdInv, Assigning
  <2>2. FinalIds(plan, remap)' = FinalIds(plan, remap)
    BY <1>1
  <2>3. PlaceInv'
    BY <1>1, <2>2 DEF PlaceInv, Assigning, Assigned
  <2> QED BY <2>1, <2>3
<1>5. ValueInv'
  <2>1. \A s, n : ~Written(s, n) /\ ~Written(s, n)'
    BY <1>1 DEF Written, Past
  <2> QED BY <1>1, <2>1 DEF ValueInv
<1>6. LockInv'
  <2>1. \A s \in Servos \ hurt : ~locked[s] => id[s] \in LockTargets'
    BY <1>1 DEF LockInv, LockTargets, IdInv
  <2> QED BY <1>1, <2>1 DEF LockInv, Kept
<1> QED BY <1>3, <1>4, <1>5, <1>6 DEF PlanInv

\* The loops over IDs come to one that is left.
LEMMA Lefts ==
    ASSUME FreshOnly, TypeOK, IdInv, PlaceInv, phase \in {"unlock", "lock"}, left # {}
    PROVE  Min(left) \in left /\ Resolve(remap, Min(left)) = Min(left)
<1>1. left \in SUBSET Nat
  BY IdAssumption DEF TypeOK
<1>2. Min(left) \in left
  BY <1>1, Least
<1>3. Min(left) \in FinalIds(plan, remap) \/ Min(left) \in {remap[x] : x \in DOMAIN remap}
  BY <1>2 DEF PlaceInv, Assigned, LockTargets
<1> QED BY <1>2, <1>3, KnownTargets

LEMMA UnlockNextStep ==
    ASSUME FreshOnly, PlanInv, UnlockNext
    PROVE  PlanInv'
<1>1. /\ TypeOK /\ PlaceInv /\ IdInv /\ ValueInv /\ LockInv
      /\ phase = "unlock" /\ left' = left \ {Min(left)} /\ left # {}
      /\ UNCHANGED <<plan, phase, at, reg, remap, targets, acked, id, value, kept>>
  BY DEF PlanInv, UnlockNext
<1>2. Min(left) \in left /\ Resolve(remap, Min(left)) = Min(left)
  BY <1>1, Lefts
<1>3. PICK m : m = Min(left) /\ m \in left /\ WriteLock(m, FALSE) /\ left' = left \ {m}
  BY <1>1, <1>2 DEF UnlockNext
<1>4. /\ hurt \subseteq hurt' /\ hurt' \subseteq Servos /\ locked' \in [Servos -> BOOLEAN]
      /\ \A s \in Servos : locked'[s] = locked[s] \/ (id[s] = m /\ locked'[s] = FALSE)
      /\ \A s \in Servos \ hurt' : id[s] = m => locked'[s] = FALSE
  <2>1. FALSE \in BOOLEAN
    OBVIOUS
  <2> QED BY <1>1, <1>3, <2>1, Switched
<1>5. TypeOK'
  BY <1>1, <1>3, <1>4 DEF TypeOK
<1>6. PlaceInv' /\ IdInv'
  <2>1. IdInv'
    BY <1>1, <1>4 DEF IdInv, Assigning
  <2>2. FinalIds(plan, remap)' = FinalIds(plan, remap)
    BY <1>1
  <2>3. PlaceInv'
    BY <1>1, <1>3, <2>2 DEF PlaceInv, Assigning, Assigned
  <2> QED BY <2>1, <2>3
<1>7. ValueInv'
  <2>1. \A s, n : ~Written(s, n) /\ ~Written(s, n)'
    BY <1>1 DEF Written, Past
  <2> QED BY <1>1, <1>4, <2>1 DEF ValueInv
<1>8. LockInv'
  <2>1. Unlock => \A s \in Servos \ hurt' : id[s] \in targets \ left' => ~locked'[s]
    BY <1>1, <1>3, <1>4 DEF LockInv
  <2>2. \A s \in Servos \ hurt' : ~locked'[s] => id[s] \in LockTargets'
    <3>1. m \in LockTargets
      BY <1>1, <1>3 DEF PlaceInv, LockTargets
    <3>2. LockTargets' = LockTargets
      BY <1>1 DEF LockTargets
    <3> QED BY <1>1, <1>4, <3>1, <3>2 DEF LockInv
  <2> QED BY <1>1, <1>4, <2>1, <2>2 DEF LockInv, Kept
<1> QED BY <1>5, <1>6, <1>7, <1>8 DEF PlanInv

LEMMA UnlockDoneStep ==
    ASSUME FreshOnly, PlanInv, UnlockDone
    PROVE  PlanInv'
<1>1. /\ TypeOK /\ PlaceInv /\ IdInv /\ ValueInv /\ LockInv
      /\ phase = "unlock" /\ phase' = "set" /\ left = {} /\ at = 1 /\ reg = 1
      /\ UNCHANGED <<plan, at, reg, left, remap, targets, acked, id, locked, value, kept, hurt>>
  BY DEF PlanInv, UnlockDone, servoVars, PlaceInv
<1>2. TypeOK'
  <2>1. ASSUME at <= Len(plan.settings) PROVE reg <= Len(Regs(Entry))
    <3>1. Entry.kind \in Kinds
      BY <1>1, <2>1, Shapes DEF Entry
    <3> QED BY <1>1, <3>1, Registers
  <2> QED BY <1>1, <2>1 DEF TypeOK, Entry
<1>3. PlaceInv' /\ IdInv'
  <2>1. IdInv'
    BY <1>1 DEF IdInv, Assigning
  <2>2. FinalIds(plan, remap)' = FinalIds(plan, remap)
    BY <1>1
  <2>3. PlaceInv'
    BY <1>1, <2>2 DEF PlaceInv, Assigning, Assigned
  <2> QED BY <2>1, <2>3
<1>4. ValueInv'
  <2>1. \A s, n : ~Written(s, n)
    BY <1>1 DEF Written, Past
  <2>2. ASSUME NEW s, NEW n PROVE ~Written(s, n)'
    <3>1. \A j \in DOMAIN plan.settings : plan.settings[j].kind \in Kinds /\ j \in Nat /\ j >= 1
      BY <1>1, Shapes
    <3>2. \A j \in DOMAIN plan.settings : \A r \in DOMAIN Regs(plan.settings[j]) : r \in Nat /\ r >= 1
      BY <3>1, Registers
    <3> QED BY <1>1, <3>1, <3>2 DEF Written, Past
  <2> QED BY <1>1, <2>1, <2>2 DEF ValueInv
<1>5. LockInv'
  <2>1. LockTargets' = LockTargets
    BY <1>1 DEF LockTargets
  <2> QED BY <1>1, <2>1 DEF LockInv, Kept
<1> QED BY <1>2, <1>3, <1>4, <1>5 DEF PlanInv

LEMMA SkipLimitsStep ==
    ASSUME FreshOnly, PlanInv, SkipLimits
    PROVE  PlanInv'
<1>1. /\ TypeOK /\ PlaceInv /\ IdInv /\ ValueInv /\ LockInv
      /\ phase = "set" /\ at <= Len(plan.settings) /\ ~Entry.valid /\ at' = at + 1
      /\ at \in Nat \ {0} /\ reg = 1
      /\ UNCHANGED <<plan, phase, reg, left, remap, targets, acked, id, locked, value, kept, hurt>>
  BY DEF PlanInv, SkipLimits, servoVars, PlaceInv, TypeOK
<1>2. TypeOK'
  <2>1. ASSUME at' <= Len(plan.settings) PROVE reg <= Len(Regs(plan.settings[at']))
    <3>1. plan.settings[at'].kind \in Kinds
      BY <1>1, <2>1, Shapes
    <3> QED BY <1>1, <3>1, Registers
  <2> QED BY <1>1, <2>1 DEF TypeOK, Entry
<1>3. PlaceInv' /\ IdInv'
  <2>1. IdInv'
    BY <1>1 DEF IdInv, Assigning
  <2>2. FinalIds(plan, remap)' = FinalIds(plan, remap)
    BY <1>1
  <2>3. PlaceInv'
    BY <1>1, <2>2 DEF PlaceInv, Assigning, Assigned
  <2> QED BY <2>1, <2>3
<1>4. ValueInv'
  <2>1. ASSUME NEW s, NEW n PROVE Written(s, n)' = Written(s, n)
    <3>1. \A j \in DOMAIN plan.settings : plan.settings[j].kind \in Kinds /\ j \in Nat /\ j >= 1
      BY <1>1, Shapes
    <3>2. \A j \in DOMAIN plan.settings : \A r \in DOMAIN Regs(plan.settings[j]) : r \in Nat /\ r >= 1
      BY <3>1, Registers
    <3>3. \A j \in DOMAIN plan.settings : plan.settings[j].valid => j # at
      BY <1>1 DEF Entry
    <3>4. ASSUME NEW j \in Nat, NEW r \in Nat, r >= 1, j # at
          PROVE  Past(j, r)' <=> Past(j, r)
      <4>1. at \in Nat /\ at' = at + 1 /\ phase' = phase /\ reg' = 1 /\ reg = 1
        BY <1>1
      <4> QED BY ONLY <3>4, <4>1 DEF Past
    <3>5. \A j \in DOMAIN plan.settings : plan.settings[j].valid =>
            \A r \in DOMAIN Regs(plan.settings[j]) : Past(j, r)' <=> Past(j, r)
      BY <3>1, <3>2, <3>3, <3>4
    <3>6. plan' = plan
      BY <1>1
    <3> QED BY ONLY <3>5, <3>6 DEF Written, Regs
  <2> QED BY <1>1, <2>1 DEF ValueInv
<1>5. LockInv'
  <2>1. LockTargets' = LockTargets
    BY <1>1 DEF LockTargets
  <2> QED BY <1>1, <2>1 DEF LockInv, Kept
<1> QED BY <1>2, <1>3, <1>4, <1>5 DEF PlanInv

LEMMA WriteSettingStep ==
    ASSUME FreshOnly, PlanInv, WriteSetting
    PROVE  PlanInv'
<1>1. /\ TypeOK /\ PlaceInv /\ IdInv /\ ValueInv /\ LockInv
      /\ phase = "set" /\ phase' = "set" /\ at <= Len(plan.settings) /\ Entry.valid
      /\ at \in Nat \ {0} /\ reg \in {1, 2} /\ reg <= Len(Regs(Entry))
      /\ UNCHANGED <<plan, phase, left, remap, targets, id, locked>>
  BY DEF PlanInv, WriteSetting, TypeOK
<1>2. PICK a, k, c, n, l : /\ a = at /\ k = reg /\ c = Entry.id
                           /\ n = Regs(Entry)[reg] /\ l = Len(Regs(Entry))
  OBVIOUS
<1>3. /\ a \in Nat \ {0} /\ a \in DOMAIN plan.settings
      /\ plan.settings[a] = Entry /\ plan.settings[a].id = c /\ plan.settings[a].valid
      /\ c \in Ids /\ ~New(c)
      /\ k \in {1, 2} /\ l \in {1, 2} /\ k <= l /\ (l = 2 <=> Entry.kind = "limits")
      /\ DOMAIN Regs(plan.settings[a]) = 1 .. l /\ k \in DOMAIN Regs(plan.settings[a])
      /\ n = Regs(plan.settings[a])[k] /\ n \in Names
  <2>1. /\ a \in Nat \ {0} /\ a \in DOMAIN plan.settings
        /\ plan.settings[a] = Entry /\ plan.settings[a].id = c /\ plan.settings[a].valid
        /\ c \in Ids /\ ~New(c) /\ Entry.kind \in Kinds
    BY <1>1, <1>2, Shapes DEF Entry, New
  <2>2. /\ DOMAIN Regs(Entry) = 1 .. l /\ l \in {1, 2} /\ (l = 2 <=> Entry.kind = "limits")
        /\ \A r \in 1 .. l : Regs(Entry)[r] \in Names
    BY <1>2, <2>1, Registers
  <2>3. k \in {1, 2} /\ k <= l /\ n = Regs(Entry)[k]
    BY <1>1, <1>2
  <2>4. k \in 1 .. l
    BY <2>2, <2>3
  <2> QED BY <2>1, <2>2, <2>3, <2>4
<1>4. PICK i : i = Renamed(remap, c) /\ i = Resolve(remap, c) /\ i \in Ids
               /\ (\A s \in Servos : id[s] = i => s = c)
               /\ (c \in Servos \ hurt => id[c] = i)
  BY <1>1, <1>3, Known
<1>5. PICK heard \in SUBSET Servos, ok \in BOOLEAN :
        /\ Answers(i, heard, ok) /\ Mark(i, ok)
        /\ value' = [s \in Servos |->
                       IF s \in heard THEN [value[s] EXCEPT ![n] = c] ELSE value[s]]
        /\ kept' = IF n \in Eeprom
                   THEN (kept \ (heard \X {n})) \cup ({s \in heard : ~locked[s]} \X {n})
                   ELSE kept
        /\ acked' = IF ok THEN acked \cup {<<c, n>>} ELSE acked
        /\ IF ok /\ k < l THEN reg' = k + 1 /\ at' = a ELSE reg' = 1 /\ at' = a + 1
  BY <1>2, <1>4 DEF WriteSetting
<1>6. /\ hurt \subseteq Servos /\ value \in [Servos -> [Names -> Ids \cup {Factory}]]
      /\ kept \subseteq Servos \X Eeprom /\ acked \subseteq Ids \X (Names \cup {"id"})
  BY <1>1 DEF TypeOK
<1>7. /\ hurt \subseteq hurt' /\ hurt' \subseteq Servos
      /\ \A s \in heard : s \in Servos /\ id[s] = i /\ s = c
      /\ ok => c \in Servos /\ c \in heard
      /\ \A s \in Servos : id[s] = i => s \in hurt' \/ (ok /\ s \in heard)
      /\ c \in Servos \ hurt' => ok
  <2>1. /\ hurt \subseteq hurt' /\ hurt' \subseteq Servos
        /\ \A s \in heard : s \in Servos /\ id[s] = i
        /\ ok => \E s \in Servos : s \in heard
        /\ \A s \in Servos : id[s] = i => s \in hurt' \/ (ok /\ s \in heard)
    <3>1. Answers(i, heard, ok) /\ Mark(i, ok) /\ hurt \subseteq Servos
      BY <1>5, <1>6
    <3> QED BY ONLY <3>1, Reaches
  <2> QED BY <1>4, <2>1
<1>8. /\ value' \in [Servos -> [Names -> Ids \cup {Factory}]]
      /\ \A s \in Servos, m \in Names :
           value'[s][m] = IF s \in heard /\ m = n THEN c ELSE value[s][m]
  <2>1. ASSUME NEW s \in Servos
        PROVE  /\ value[s] \in [Names -> Ids \cup {Factory}]
               /\ value'[s] = IF s \in heard THEN [value[s] EXCEPT ![n] = c] ELSE value[s]
               /\ value'[s] \in [Names -> Ids \cup {Factory}]
    BY <1>3, <1>5, <1>6
  <2> QED BY <1>3, <1>5, <2>1
<1>9. TypeOK'
  <2>1. reg' \in {1, 2} /\ at' \in Nat \ {0}
        /\ (at' <= Len(plan.settings) => reg' <= Len(Regs(plan.settings[at'])))
    <3>1. CASE ok /\ k < l
      <4>1. reg' = 2 /\ at' = a /\ l = 2
        BY <1>3, <1>5, <3>1
      <4>2. Len(Regs(plan.settings[at'])) = l
        BY <1>2, <1>3, <4>1
      <4>3. reg' <= Len(Regs(plan.settings[at']))
        BY <4>1, <4>2
      <4>4. at' \in Nat \ {0}
        BY <1>3, <4>1
      <4> QED BY <4>1, <4>3, <4>4
    <3>2. CASE ~ (ok /\ k < l)
      <4>1. reg' = 1 /\ at' = a + 1
        BY <1>5, <3>2
      <4>2. ASSUME at' <= Len(plan.settings) PROVE 1 <= Len(Regs(plan.settings[at']))
        <5>1. /\ Len(plan.settings) \in Nat /\ DOMAIN plan.settings = 1 .. Len(plan.settings)
              /\ \A j \in DOMAIN plan.settings : plan.settings[j].kind \in Kinds
          BY <1>1, Shapes
        <5>2. at' \in DOMAIN plan.settings
          BY <1>3, <4>1, <4>2, <5>1
        <5>3. PICK j \in DOMAIN plan.settings : j = at'
          BY <5>2
        <5>4. Len(Regs(plan.settings[j])) \in {1, 2}
          BY <5>1, Registers
        <5>5. PICK m \in {1, 2} : m = Len(Regs(plan.settings[j]))
          BY ONLY <5>4
        <5>6. m = Len(Regs(plan.settings[at']))
          BY ONLY <5>3, <5>5
        <5> QED BY ONLY <5>5, <5>6
      <4> QED BY <1>3, <4>1, <4>2
    <3> QED BY <3>1, <3>2
  <2>2. kept' \subseteq Servos \X Eeprom
    BY <1>5, <1>6
  <2>3. acked' \subseteq Ids \X (Names \cup {"id"})
    BY <1>3, <1>5, <1>6
  <2> QED BY <1>1, <1>7, <1>8, <2>1, <2>2, <2>3 DEF TypeOK, Entry
<1>10. PlaceInv' /\ IdInv'
  <2>1. IdInv'
    BY <1>1, <1>7 DEF IdInv, Assigning
  <2>2. FinalIds(plan, remap)' = FinalIds(plan, remap)
    BY <1>1
  <2>3. reg' = 2 => at' <= Len(plan.settings) /\ Entry' = Entry /\ Entry.kind = "limits"
    <3>1. ASSUME reg' = 2 PROVE at' = a /\ l = 2
      BY <1>3, <1>5, <3>1
    <3> QED BY <1>1, <1>2, <1>3, <3>1 DEF Entry
  <2>4. PlaceInv'
    BY <1>1, <2>2, <2>3 DEF PlaceInv, Assigning, Assigned
  <2> QED BY <2>1, <2>4
<1>11. ValueInv'
  <2>1. \A j \in DOMAIN plan.settings : plan.settings[j].kind \in Kinds /\ j \in Nat /\ j >= 1
    BY <1>1, Shapes
  <2>2. \A j \in DOMAIN plan.settings : \A r \in DOMAIN Regs(plan.settings[j]) :
          r \in 1 .. Len(Regs(plan.settings[j])) /\ Len(Regs(plan.settings[j])) \in {1, 2}
    BY <2>1, Registers
  <2>3. ASSUME NEW j \in Nat, j # a, NEW r \in Nat, r >= 1
        PROVE  Past(j, r)' <=> Past(j, r)
    <3>1. /\ a \in Nat /\ a = at /\ phase = "set" /\ phase' = "set"
          /\ (at' = a \/ (at' = a + 1 /\ reg' = 1))
      BY <1>1, <1>2, <1>3, <1>5
    <3>2. Past(j, r) <=> j < a
      BY ONLY <2>3, <3>1 DEF Past
    <3>3. Past(j, r)' <=> j < a
      BY ONLY <2>3, <3>1 DEF Past
    <3> QED BY <3>2, <3>3
  <2>4. ASSUME ok, NEW r \in 1 .. l
        PROVE  Past(a, r)' <=> Past(a, r) \/ r = k
    <3>1. /\ a \in Nat /\ a = at /\ k = reg /\ phase = "set" /\ phase' = "set"
          /\ r \in {1, 2} /\ k \in {1, 2} /\ l \in {1, 2} /\ r <= l
          /\ IF k < l THEN reg' = k + 1 /\ at' = a ELSE reg' = 1 /\ at' = a + 1
      BY <1>1, <1>2, <1>3, <1>5, <2>4
    <3>2. Past(a, r) <=> r < k
      BY ONLY <3>1 DEF Past
    <3>3. Past(a, r)' <=> (k = l \/ r < k + 1)
      BY ONLY <1>3, <3>1 DEF Past
    <3> QED BY ONLY <1>3, <3>1, <3>2, <3>3
  <2>5. ASSUME NEW s, s # c, NEW m PROVE Written(s, m)' <=> Written(s, m)
    <3>1. \A j \in DOMAIN plan.settings : plan.settings[j].id = s =>
            \A r \in DOMAIN Regs(plan.settings[j]) : Past(j, r)' <=> Past(j, r)
      BY <1>3, <2>1, <2>2, <2>3, <2>5
    <3>2. plan' = plan
      BY <1>1
    <3> QED BY ONLY <3>1, <3>2 DEF Written, Regs
  <2>6. ASSUME ok, NEW m PROVE Written(c, m)' <=> Written(c, m) \/ m = n
    <3>1. \A j \in DOMAIN plan.settings : \A r \in DOMAIN Regs(plan.settings[j]) :
            Past(j, r)' <=> Past(j, r) \/ (j = a /\ r = k)
      <4> SUFFICES ASSUME NEW j \in DOMAIN plan.settings, NEW r \in DOMAIN Regs(plan.settings[j])
                   PROVE  Past(j, r)' <=> Past(j, r) \/ (j = a /\ r = k)
        OBVIOUS
      <4>1. CASE j = a
        <5>1. r \in 1 .. l
          BY <1>3, <4>1
        <5> QED BY <2>4, <2>6, <4>1, <5>1
      <4>2. CASE j # a
        BY <2>1, <2>2, <2>3, <4>2
      <4> QED BY <4>1, <4>2
    <3>2. /\ plan' = plan /\ a \in DOMAIN plan.settings /\ k \in DOMAIN Regs(plan.settings[a])
          /\ plan.settings[a].valid /\ plan.settings[a].id = c
          /\ n = Regs(plan.settings[a])[k]
      BY <1>1, <1>3
    <3> QED BY ONLY <3>1, <3>2 DEF Written, Regs
  <2>7. \A s \in Servos, m \in Names : value'[s][m] \in {s, Factory}
    BY <1>1, <1>7, <1>8 DEF ValueInv
  <2>8. ASSUME NEW s \in Servos \ hurt', NEW m \in Names
        PROVE  value'[s][m] = IF Written(s, m)' THEN s ELSE Factory
    <3>1. value[s][m] = IF Written(s, m) THEN s ELSE Factory
      BY <1>1, <1>7 DEF ValueInv
    <3>2. CASE s # c
      <4>1. Written(s, m)' <=> Written(s, m)
        BY <2>5, <3>2
      <4> QED BY <1>7, <1>8, <3>1, <3>2, <4>1
    <3>3. CASE s = c
      <4>1. ok /\ c \in heard
        BY <1>7, <3>3
      <4>2. Written(s, m)' <=> Written(s, m) \/ m = n
        BY <2>6, <3>3, <4>1
      <4> QED BY <1>8, <3>1, <3>3, <4>1, <4>2
    <3> QED BY <3>2, <3>3
  <2>9. ASSUME NEW x \in acked'
        PROVE  /\ x[1] \in Servos
               /\ IF x[2] = "id" THEN x[1] \in DOMAIN remap' ELSE value'[x[1]][x[2]] = x[1]
    <3>1. CASE x \in acked
      <4>1. /\ x[1] \in Servos /\ x[2] \in Names \cup {"id"}
            /\ IF x[2] = "id" THEN x[1] \in DOMAIN remap ELSE value[x[1]][x[2]] = x[1]
        BY <1>1, <1>6, <3>1 DEF ValueInv
      <4> QED BY <1>1, <1>7, <1>8, <4>1
    <3>2. CASE x \notin acked
      <4>1. ok /\ x = <<c, n>>
        BY <1>5, <2>9, <3>2
      <4>2. n # "id"
        BY <1>3 DEF Names, Eeprom, Ram
      <4> QED BY <1>3, <1>7, <1>8, <4>1, <4>2
    <3> QED BY <3>1, <3>2
  <2> QED BY <1>1, <2>7, <2>8, <2>9 DEF ValueInv
<1>12. i \in targets /\ LockTargets' = LockTargets
  <2>1. i \in FinalIds(plan, remap)
    BY <1>3, <1>4 DEF FinalIds, Entries
  <2> QED BY <1>1, <2>1 DEF PlaceInv, Assigned, LockTargets
<1>13. Kept'
  <2> SUFFICES ASSUME Unlock, NEW x \in acked', x[2] \in Eeprom, x[1] \notin hurt'
               PROVE  x \in kept'
    BY DEF Kept
  <2>1. CASE x = <<c, n>>
    <3>1. c \in Servos
      BY <1>1, <1>5, <1>7, <2>1 DEF ValueInv
    <3>2. c \in heard /\ ~locked[c]
      BY <1>1, <1>4, <1>7, <1>12, <2>1, <3>1 DEF LockInv
    <3> QED BY <1>5, <2>1, <3>2
  <2>2. CASE x # <<c, n>>
    <3>1. x \in acked /\ x \in kept
      BY <1>1, <1>5, <1>7, <2>2 DEF LockInv, Kept
    <3>2. x \notin heard \X {n}
      BY <1>7, <2>2
    <3> QED BY <1>5, <3>1, <3>2
  <2> QED BY <2>1, <2>2
<1>14. LockInv'
  BY <1>1, <1>7, <1>12, <1>13 DEF LockInv
<1> QED BY <1>9, <1>10, <1>11, <1>14 DEF PlanInv

\* All the settings were come to.
LEMMA SettingsDoneStep ==
    ASSUME FreshOnly, PlanInv, SettingsDone
    PROVE  PlanInv'
<1>1. /\ TypeOK /\ PlaceInv /\ IdInv /\ ValueInv /\ LockInv
      /\ phase = "set" /\ phase' = "lock" /\ at > Len(plan.settings) /\ at \in Nat
      /\ left' = IF Lock THEN LockTargets ELSE {}
      /\ UNCHANGED <<plan, at, reg, remap, targets, acked, id, locked, value, kept, hurt>>
  BY DEF PlanInv, SettingsDone, servoVars, TypeOK
<1>2. TypeOK'
  <2>1. LockTargets \subseteq Ids
    BY <1>1 DEF LockTargets, TypeOK
  <2> QED BY <1>1, <2>1 DEF TypeOK
<1>3. PlaceInv' /\ IdInv'
  <2>1. IdInv'
    BY <1>1 DEF IdInv, Assigning
  <2>2. FinalIds(plan, remap)' = FinalIds(plan, remap) /\ LockTargets' = LockTargets
    BY <1>1 DEF LockTargets
  <2>3. PlaceInv'
    BY <1>1, <2>2 DEF PlaceInv, Assigning, Assigned
  <2> QED BY <2>1, <2>3
<1>4. ValueInv'
  <2>1. ASSUME NEW s, NEW n PROVE Written(s, n)' <=> Written(s, n)
    <3>1. \A j \in DOMAIN plan.settings : j < at
      BY <1>1, Shapes
    <3>2. \A j \in DOMAIN plan.settings : \A r \in DOMAIN Regs(plan.settings[j]) :
            Past(j, r)' /\ Past(j, r)
      BY <1>1, <3>1 DEF Past
    <3>3. plan' = plan
      BY <1>1
    <3> QED BY ONLY <3>2, <3>3 DEF Written, Regs
  <2> QED BY <1>1, <2>1 DEF ValueInv
<1>5. LockInv'
  BY <1>1 DEF LockInv, Kept
<1> QED BY <1>2, <1>3, <1>4, <1>5 DEF PlanInv

LEMMA LockNextStep ==
    ASSUME FreshOnly, PlanInv, LockNext
    PROVE  PlanInv'
<1>1. /\ TypeOK /\ PlaceInv /\ IdInv /\ ValueInv /\ LockInv
      /\ phase = "lock" /\ left' = left \ {Min(left)} /\ left # {}
      /\ UNCHANGED <<plan, phase, at, reg, remap, targets, acked, id, value, kept>>
  BY DEF PlanInv, LockNext
<1>2. Min(left) \in left /\ Resolve(remap, Min(left)) = Min(left)
  BY <1>1, Lefts
<1>3. PICK m : m = Min(left) /\ m \in left /\ WriteLock(m, TRUE) /\ left' = left \ {m}
  BY <1>1, <1>2 DEF LockNext
<1>4. /\ hurt \subseteq hurt' /\ hurt' \subseteq Servos /\ locked' \in [Servos -> BOOLEAN]
      /\ \A s \in Servos : locked'[s] = locked[s] \/ (id[s] = m /\ locked'[s] = TRUE)
      /\ \A s \in Servos \ hurt' : id[s] = m => locked'[s] = TRUE
  <2>1. TRUE \in BOOLEAN
    OBVIOUS
  <2> QED BY <1>1, <1>3, <2>1, Switched
<1>5. TypeOK'
  BY <1>1, <1>3, <1>4 DEF TypeOK
<1>6. PlaceInv' /\ IdInv'
  <2>1. IdInv'
    BY <1>1, <1>4 DEF IdInv, Assigning
  <2>2. FinalIds(plan, remap)' = FinalIds(plan, remap) /\ LockTargets' = LockTargets
    BY <1>1 DEF LockTargets
  <2>3. PlaceInv'
    BY <1>1, <1>3, <2>2 DEF PlaceInv, Assigning, Assigned
  <2> QED BY <2>1, <2>3
<1>7. ValueInv'
  <2>1. \A s, n : Written(s, n)' <=> Written(s, n)
    BY <1>1 DEF Written, Past
  <2> QED BY <1>1, <1>4, <2>1 DEF ValueInv
<1>8. LockInv'
  BY <1>1, <1>3, <1>4 DEF LockInv, Kept
<1> QED BY <1>5, <1>6, <1>7, <1>8 DEF PlanInv

LEMMA LockDoneStep ==
    ASSUME FreshOnly, PlanInv, LockDone
    PROVE  PlanInv'
<1>1. /\ TypeOK /\ PlaceInv /\ IdInv /\ ValueInv /\ LockInv
      /\ phase = "lock" /\ phase' = "done" /\ left = {}
      /\ UNCHANGED <<plan, at, reg, left, remap, targets, acked, id, locked, value, kept, hurt>>
  BY DEF PlanInv, LockDone, servoVars
<1>2. TypeOK'
  BY <1>1 DEF TypeOK
<1>3. PlaceInv' /\ IdInv'
  <2>1. IdInv'
    BY <1>1 DEF IdInv, Assigning
  <2>2. FinalIds(plan, remap)' = FinalIds(plan, remap)
    BY <1>1
  <2>3. PlaceInv'
    BY <1>1, <2>2 DEF PlaceInv, Assigning, Assigned
  <2> QED BY <2>1, <2>3
<1>4. ValueInv'
  <2>1. \A s, n : Written(s, n)' <=> Written(s, n)
    BY <1>1 DEF Written, Past
  <2> QED BY <1>1, <2>1 DEF ValueInv
<1>5. LockInv'
  BY <1>1 DEF LockInv, Kept
<1> QED BY <1>2, <1>3, <1>4, <1>5 DEF PlanInv

LEMMA RaiseStep ==
    ASSUME PlanInv, Raise
    PROVE  PlanInv'
<1>1. /\ TypeOK /\ PlaceInv /\ IdInv /\ ValueInv /\ LockInv /\ phase' = "raised"
      /\ UNCHANGED <<plan, at, reg, left, remap, targets, acked, id, locked, value, kept, hurt>>
  BY DEF PlanInv, Raise, servoVars
<1>2. TypeOK'
  BY <1>1 DEF TypeOK
<1>3. PlaceInv'
  BY <1>1 DEF PlaceInv, Assigning, Assigned
<1>4. IdInv'
  BY <1>1 DEF IdInv, Assigning
<1>5. ValueInv'
  BY <1>1 DEF ValueInv
<1>6. LockInv'
  BY <1>1 DEF LockInv, Kept
<1> QED BY <1>2, <1>3, <1>4, <1>5, <1>6 DEF PlanInv

LEMMA Idle ==
    ASSUME PlanInv, UNCHANGED vars
    PROVE  PlanInv'
<1>1. /\ TypeOK /\ PlaceInv /\ IdInv /\ ValueInv /\ LockInv
      /\ UNCHANGED <<plan, phase, at, reg, left, remap, targets, acked, id, locked, value, kept, hurt>>
  BY DEF PlanInv, vars, progVars, servoVars
<1>2. TypeOK'
  BY <1>1 DEF TypeOK, Entry
<1>3. PlaceInv'
  <2>1. FinalIds(plan, remap)' = FinalIds(plan, remap) /\ LockTargets' = LockTargets
        /\ Entry' = Entry
    BY <1>1 DEF LockTargets, Entry
  <2> QED BY <1>1, <2>1 DEF PlaceInv, Assigning, Assigned
<1>4. IdInv'
  BY <1>1 DEF IdInv, Assigning
<1>5. ValueInv'
  <2>1. \A s, n : Written(s, n)' <=> Written(s, n)
    BY <1>1 DEF Written, Past
  <2> QED BY <1>1, <2>1 DEF ValueInv
<1>6. LockInv'
  <2>1. LockTargets' = LockTargets
    BY <1>1 DEF LockTargets
  <2> QED BY <1>1, <2>1 DEF LockInv, Kept
<1> QED BY <1>2, <1>3, <1>4, <1>5, <1>6 DEF PlanInv

LEMMA PlanStart ==
    ASSUME FreshOnly, Init
    PROVE  PlanInv
<1>1. /\ plan \in Plans /\ phase = "assign" /\ at = 1 /\ reg = 1
      /\ left = {} /\ targets = {} /\ remap = <<>> /\ acked = {} /\ kept = {} /\ hurt = {}
      /\ id = [s \in Servos |-> s] /\ locked = [s \in Servos |-> TRUE]
      /\ value = [s \in Servos |-> [n \in Names |-> Factory]]
  BY DEF Init
<1>2. DOMAIN remap = {}
  BY <1>1
<1>3. TypeOK
  <2>1. id \in [Servos -> Ids] /\ locked \in [Servos -> BOOLEAN]
        /\ value \in [Servos -> [Names -> Ids \cup {Factory}]]
    BY <1>1, IdAssumption
  <2> QED BY <1>1, <1>2, <2>1 DEF TypeOK
<1>4. PlaceInv
  BY <1>1 DEF PlaceInv, Assigning, Assigned
<1>5. IdInv
  BY <1>1, <1>2 DEF IdInv
<1>6. ValueInv
  <2>1. \A s, n : ~Written(s, n)
    BY <1>1 DEF Written, Past
  <2> QED BY <1>1, <2>1 DEF ValueInv
<1>7. LockInv
  BY <1>1 DEF LockInv, Kept
<1> QED BY <1>3, <1>4, <1>5, <1>6, <1>7 DEF PlanInv

LEMMA PlanStep ==
    ASSUME FreshOnly, PlanInv, [Next]_vars
    PROVE  PlanInv'
<1>1. CASE AssignUnlock
  BY <1>1, AssignUnlockStep
<1>2. CASE AssignId
  BY <1>2, AssignIdStep
<1>3. CASE AssignDone
  BY <1>3, AssignDoneStep
<1>4. CASE UnlockNext
  BY <1>4, UnlockNextStep
<1>5. CASE UnlockDone
  BY <1>5, UnlockDoneStep
<1>6. CASE SkipLimits
  BY <1>6, SkipLimitsStep
<1>7. CASE WriteSetting
  BY <1>7, WriteSettingStep
<1>8. CASE SettingsDone
  BY <1>8, SettingsDoneStep
<1>9. CASE LockNext
  BY <1>9, LockNextStep
<1>10. CASE LockDone
  BY <1>10, LockDoneStep
<1>11. CASE Raise
  BY <1>11, RaiseStep
<1>12. CASE Terminated \/ UNCHANGED vars
  BY <1>12, Idle DEF Terminated
<1> QED BY <1>1, <1>2, <1>3, <1>4, <1>5, <1>6, <1>7, <1>8, <1>9, <1>10, <1>11, <1>12 DEF Next

-----------------------------------------------------------------------------
(* The theorems: for plans that give every servo an ID of its own.         *)

LEMMA PlanAlways ==
    ASSUME FreshOnly
    PROVE  Spec => []PlanInv
<1>1. Init => PlanInv
  BY PlanStart
<1>2. PlanInv /\ [Next]_vars => PlanInv'
  BY PlanStep
<1> QED BY <1>1, <1>2, PTL DEF Spec

\* Every write of the plan has a register to go to, and every ID that is looked up
\* is one a servo may have.
THEOREM PlanTypes ==
    ASSUME FreshOnly
    PROVE  Spec => []TypeOK
<1>1. PlanInv => TypeOK
  BY DEF PlanInv
<1> QED BY <1>1, PlanAlways, PTL

\* At the end every setting has reached the servo it was stated for and no other one,
\* whatever IDs were changed on the way, where no write was missed.
THEOREM PlanDelivered ==
    ASSUME FreshOnly
    PROVE  Spec => []Delivered
<1>1. PlanInv => Delivered
  <2> SUFFICES ASSUME PlanInv, phase = "done", NEW s \in Servos \ hurt, NEW n \in Names
               PROVE  value[s][n] = IF n \in Wanted(s) THEN s ELSE Factory
    BY DEF Delivered
  <2>1. value[s][n] = IF Written(s, n) THEN s ELSE Factory
    BY DEF PlanInv, ValueInv
  <2>2. Written(s, n) <=> n \in Wanted(s)
    <3>1. \A j, r : Past(j, r)
      BY DEF Past
    <3>2. n \in Wanted(s) <=> \E e \in Entries(plan) : /\ e.id = s /\ e.valid
                                                       /\ \E r \in DOMAIN Regs(e) : Regs(e)[r] = n
      BY DEF Wanted
    <3>3. n \in Wanted(s) <=> \E j \in DOMAIN plan.settings :
            /\ plan.settings[j].id = s /\ plan.settings[j].valid
            /\ \E r \in DOMAIN Regs(plan.settings[j]) : Regs(plan.settings[j])[r] = n
      BY <3>2 DEF Entries
    <3> QED BY <3>1, <3>3 DEF Written
  <2> QED BY <2>1, <2>2
<1> QED BY <1>1, PlanAlways, PTL

\* What apply_plan reports as written is in the servo that had the ID, faults or not.
THEOREM PlanHonest ==
    ASSUME FreshOnly
    PROVE  Spec => []Honest
<1>1. PlanInv => Honest
  <2> SUFFICES ASSUME PlanInv, NEW x \in acked
               PROVE  /\ x[1] \in Servos
                      /\ IF x[2] = "id"
                         THEN \A i \in DOMAIN plan.assign :
                                plan.assign[i][1] = x[1] => id[x[1]] = plan.assign[i][2]
                         ELSE value[x[1]][x[2]] = x[1]
    BY DEF Honest
  <2>1. /\ x[1] \in Servos
        /\ IF x[2] = "id" THEN x[1] \in DOMAIN remap ELSE value[x[1]][x[2]] = x[1]
    BY DEF PlanInv, ValueInv
  <2>2. ASSUME x[2] = "id", NEW i \in DOMAIN plan.assign, plan.assign[i][1] = x[1]
        PROVE  id[x[1]] = plan.assign[i][2]
    <3>1. PICK k \in DOMAIN plan.assign : plan.assign[k] = <<x[1], remap[x[1]]>>
                                          /\ remap[x[1]] = id[x[1]]
      BY <2>1, <2>2 DEF PlanInv, IdInv
    <3>2. k = i
      BY <2>2, <3>1, Shapes DEF PlanInv
    <3> QED BY <3>1, <3>2
  <2> QED BY <2>1, <2>2
<1> QED BY <1>1, PlanAlways, PTL

\* With the unlock flag nothing is written to a locked EEPROM of a servo that heard every
\* write, so what was acknowledged outlives a power cycle.
THEOREM PlanKept ==
    ASSUME FreshOnly
    PROVE  Spec => []Kept
<1>1. PlanInv => Kept
  BY DEF PlanInv, LockInv
<1> QED BY <1>1, PlanAlways, PTL

\* With the lock flag the lock loop comes to every servo that was unlocked on the way, by
\* the ID it has then.
THEOREM PlanRelocked ==
    ASSUME FreshOnly
    PROVE  Spec => []Relocked
<1>1. PlanInv => Relocked
  BY DEF PlanInv, LockInv, Relocked
<1> QED BY <1>1, PlanAlways, PTL
=============================================================================
