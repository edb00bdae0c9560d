----------------------------- MODULE ApplyPlan ------------------------------
(***************************************************************************)
(* apply_plan (bus/servo_config.py): new IDs, then registers, then the     *)
(* EEPROM lock, written one register at a time over a bus where each write *)
(* may fail on its own.                                                    *)
(*                                                                         *)
(* A servo is named by the ID it had before the plan.  The value a setting *)
(* gives a register is abstracted to the ID the plan states it for, so a   *)
(* servo that holds the value of another one got a setting not meant for   *)
(* it.                                                                     *)
(***************************************************************************)
EXTENDS Naturals, Sequences, FiniteSetsExt

CONSTANTS
    Servos,   \* the IDs of the servos on the bus before the plan
    Ids,      \* the IDs a servo may be given
    Plans,    \* the plans
    Unlock,   \* the unlock argument
    Lock,     \* the lock argument
    Faults    \* what may go wrong, a subset of FaultKinds

FaultKinds ==
    { "lost",  \* a write does not reach the servo
      "ack",   \* a write takes effect and its answer is lost
      "port" } \* the serial port itself fails: an exception nobody catches

Eeprom == {"id", "min", "max", "mode", "baud"}
Ram    == {"acc", "speed", "torque"}

ASSUME IdAssumption    == Servos \subseteq Ids /\ Ids \subseteq Nat \ {0}
ASSUME FlagAssumption  == Unlock \in BOOLEAN /\ Lock \in BOOLEAN
ASSUME FaultAssumption == Faults \subseteq FaultKinds

VARIABLES
    plan,    \* the OperationPlan: assign, pairs <<old, new>> in order, and
             \* settings, in the order of the loops
    phase,   \* where apply_plan is
    at,      \* the entry it has come to
    reg,     \* the register of that entry it has come to
    left,    \* the IDs the unlock or the lock loop has still to write
    remap,   \* remap
    targets, \* target_ids
    id,      \* STS_ID of every servo
    locked,  \* STS_LOCK of every servo
    value,   \* the registers of every servo
    kept,    \* the EEPROM registers written while the EEPROM was unlocked
    acked,   \* the settings the caller saw succeed
    hurt     \* history: the servos that missed or did not acknowledge a write

progVars  == <<phase, at, reg, left, remap, targets, acked>>
servoVars == <<id, locked, value, kept>>
vars == <<plan, progVars, servoVars, hurt>>

-----------------------------------------------------------------------------
(* resolve_id and collect_final_ids                                        *)

\* Mutant: the ID stated in the plan is used as it is.
ResolveNot(map, sid) == sid

\* Follow the chain until an ID that is not reassigned, or was seen already.
Resolve(map, sid) ==
    LET Follow[seen \in SUBSET Ids] ==
            [c \in Ids |-> IF c \in DOMAIN map \ seen
                          THEN Follow[seen \cup {c}][map[c]] ELSE c]
    IN Follow[{}][sid]

Entries(p) == {p.settings[i] : i \in DOMAIN p.settings}

FinalIds(p, map) == {Resolve(map, e.id) : e \in Entries(p)}

-----------------------------------------------------------------------------
(* The bus: external, as write1 and write2 report it                       *)

Receivers(i) == {s \in Servos : id[s] = i}

\* A write to ID i is heard by the servos in heard and succeeds iff ok.  Nobody
\* answers for an ID without a servo; two servos answer into each other.
Answers(i, heard, ok) ==
    \/ heard = Receivers(i) /\ heard # {} /\ ok
    \/ heard = Receivers(i) /\ ~ok
         /\ (heard = {} \/ Cardinality(heard) > 1 \/ "ack" \in Faults)
    \/ heard = {} /\ ~ok /\ "lost" \in Faults

\* A failed write leaves its mark on the servos it was meant for.
Mark(i, ok) == hurt' = IF ok THEN hurt ELSE hurt \cup Receivers(i)

WriteLock(i, on) ==
    \E heard \in SUBSET Servos, ok \in BOOLEAN :
        /\ Answers(i, heard, ok) /\ Mark(i, ok)
        /\ locked' = [s \in Servos |-> IF s \in heard THEN on ELSE locked[s]]

-----------------------------------------------------------------------------
Entry == plan.settings[at]

\* The registers of an entry, in the order they are written.
Regs(e) == IF e.kind = "limits" THEN <<"min", "max">> ELSE <<e.kind>>

Names == (Eeprom \ {"id"}) \cup Ram
Factory == 0   \* the value before the plan

\* Every write has a register to go to, every table has an entry for every servo.
TypeOK ==
    /\ plan \in Plans
    /\ phase \in {"assign", "write_id", "unlock", "set", "lock", "done", "raised"}
    /\ at \in Nat \ {0} /\ reg \in {1, 2}
    /\ phase = "set" /\ at <= Len(plan.settings) => reg <= Len(Regs(Entry))
    /\ left \subseteq Ids /\ targets \subseteq Ids
    /\ DOMAIN remap \subseteq Ids /\ \A i \in DOMAIN remap : remap[i] \in Ids
    /\ id \in [Servos -> Ids] /\ locked \in [Servos -> BOOLEAN]
    /\ value \in [Servos -> [Names -> Ids \cup {Factory}]]
    /\ kept \subseteq Servos \X Eeprom
    /\ acked \subseteq Ids \X (Names \cup {"id"})
    /\ hurt \subseteq Servos

Init ==
    /\ plan \in Plans
    /\ phase = "assign" /\ at = 1 /\ reg = 1
    /\ left = {} /\ targets = {} /\ remap = <<>> /\ acked = {}
    /\ id = [s \in Servos |-> s]
    /\ locked = [s \in Servos |-> TRUE]
    /\ value = [s \in Servos |-> [n \in Names |-> Factory]]
    /\ kept = {} /\ hurt = {}

-----------------------------------------------------------------------------
(* The ID loop                                                             *)

ActiveId == Resolve(remap, plan.assign[at][1])

\* Mutant: only the servos with settings are unlocked.
AssignUnlockNot ==
    /\ phase = "assign" /\ at <= Len(plan.assign)
    /\ UNCHANGED <<locked, hurt>>
    /\ phase' = "write_id"
    /\ UNCHANGED <<plan, at, reg, left, remap, targets, acked, id, value, kept>>

AssignUnlock ==
    /\ phase = "assign" /\ at <= Len(plan.assign)
    /\ IF Unlock THEN WriteLock(ActiveId, FALSE) ELSE UNCHANGED <<locked, hurt>>
    /\ phase' = "write_id"
    /\ UNCHANGED <<plan, at, reg, left, remap, targets, acked, id, value, kept>>

\* STS_ID is written; a failed write goes on with the next entry, not remapped.
AssignId ==
    /\ phase = "write_id"
    /\ \E heard \in SUBSET Servos, ok \in BOOLEAN :
         /\ Answers(ActiveId, heard, ok) /\ Mark(ActiveId, ok)
         /\ id' = [s \in Servos |-> IF s \in heard THEN plan.assign[at][2] ELSE id[s]]
         /\ kept' = (kept \ (heard \X {"id"}))
                      \cup ({s \in heard : ~locked[s]} \X {"id"})
         /\ remap' = IF ok
                     THEN [i \in DOMAIN remap \cup {ActiveId} |->
                             IF i = ActiveId THEN plan.assign[at][2] ELSE remap[i]]
                     ELSE remap
         /\ acked' = IF ok THEN acked \cup {<<plan.assign[at][1], "id">>} ELSE acked
    /\ phase' = "assign" /\ at' = at + 1
    /\ UNCHANGED <<plan, reg, left, targets, locked, value>>

\* Mutant: the new IDs are not among the targets of the lock loop.
LockTargetsSettings == targets

\* What the lock loop writes to.
LockTargets == {remap[i] : i \in DOMAIN remap} \cup targets

AssignDone ==
    /\ phase = "assign" /\ at > Len(plan.assign)
    /\ targets' = FinalIds(plan, remap)
    /\ left' = IF Unlock THEN targets' ELSE {}
    /\ phase' = "unlock" /\ at' = 1
    /\ UNCHANGED <<plan, reg, remap, acked, servoVars, hurt>>

-----------------------------------------------------------------------------
(* The unlock loop                                                         *)

UnlockNext ==
    /\ phase = "unlock" /\ left # {}
    /\ WriteLock(Resolve(remap, Min(left)), FALSE)
    /\ left' = left \ {Min(left)}
    /\ UNCHANGED <<plan, phase, at, reg, remap, targets, acked, id, value, kept>>

UnlockDone ==
    /\ phase = "unlock" /\ left = {}
    /\ phase' = "set"
    /\ UNCHANGED <<plan, at, reg, left, remap, targets, acked, servoVars, hurt>>

-----------------------------------------------------------------------------
(* The loops over the settings                                             *)

\* Invalid angle limits are skipped.
SkipLimits ==
    /\ phase = "set" /\ at <= Len(plan.settings) /\ ~Entry.valid
    /\ at' = at + 1
    /\ UNCHANGED <<plan, phase, reg, left, remap, targets, acked, servoVars, hurt>>

\* Mutant: the answer of a write is not looked at.
WriteSettingUnheeded ==
    /\ phase = "set" /\ at <= Len(plan.settings) /\ Entry.valid
    /\ LET n == Regs(Entry)[reg]
           i == Resolve(remap, Entry.id)
       IN \E heard \in SUBSET Servos, ok \in BOOLEAN :
            /\ Answers(i, heard, ok) /\ Mark(i, ok)
            /\ value' = [s \in Servos |->
                           IF s \in heard THEN [value[s] EXCEPT ![n] = Entry.id]
                                          ELSE value[s]]
            /\ acked' = acked \cup {<<Entry.id, n>>}
            /\ IF reg < Len(Regs(Entry)) THEN reg' = reg + 1 /\ UNCHANGED at
                                         ELSE reg' = 1 /\ at' = at + 1
    /\ UNCHANGED <<plan, phase, left, remap, targets, id, locked, kept>>

\* Mutant: a failed write leaves reg where it is.
WriteSettingKeepsReg ==
    /\ phase = "set" /\ at <= Len(plan.settings) /\ Entry.valid
    /\ LET n == Regs(Entry)[reg]
           i == Resolve(remap, Entry.id)
       IN \E heard \in SUBSET Servos, ok \in BOOLEAN :
            /\ Answers(i, heard, ok) /\ Mark(i, ok)
            /\ value' = [s \in Servos |->
                           IF s \in heard THEN [value[s] EXCEPT ![n] = Entry.id]
                                          ELSE value[s]]
            /\ acked' = IF ok THEN acked \cup {<<Entry.id, n>>} ELSE acked
            /\ IF ok /\ reg < Len(Regs(Entry))
               THEN reg' = reg + 1 /\ UNCHANGED at
               ELSE UNCHANGED reg /\ at' = at + 1
    /\ UNCHANGED <<plan, phase, left, remap, targets, id, locked, kept>>

\* A register is written; after a failure the rest of the entry is not.
WriteSetting ==
    /\ phase = "set" /\ at <= Len(plan.settings) /\ Entry.valid
    /\ LET n == Regs(Entry)[reg]
           i == Resolve(remap, Entry.id)
       IN \E heard \in SUBSET Servos, ok \in BOOLEAN :
            /\ Answers(i, heard, ok) /\ Mark(i, ok)
            /\ value' = [s \in Servos |->
                           IF s \in heard THEN [value[s] EXCEPT ![n] = Entry.id]
                                          ELSE value[s]]
            /\ kept' = IF n \in Eeprom
                       THEN (kept \ (heard \X {n}))
                              \cup ({s \in heard : ~locked[s]} \X {n})
                       ELSE kept
            /\ acked' = IF ok THEN acked \cup {<<Entry.id, n>>} ELSE acked
            /\ IF ok /\ reg < Len(Regs(Entry))
               THEN reg' = reg + 1 /\ UNCHANGED at
               ELSE reg' = 1 /\ at' = at + 1
    /\ UNCHANGED <<plan, phase, left, remap, targets, id, locked>>

SettingsDone ==
    /\ phase = "set" /\ at > Len(plan.settings)
    /\ phase' = "lock"
    /\ left' = IF Lock THEN LockTargets ELSE {}
    /\ UNCHANGED <<plan, at, reg, remap, targets, acked, servoVars, hurt>>

-----------------------------------------------------------------------------
(* The lock loop, and the end                                              *)

LockNext ==
    /\ phase = "lock" /\ left # {}
    /\ WriteLock(Resolve(remap, Min(left)), TRUE)
    /\ left' = left \ {Min(left)}
    /\ UNCHANGED <<plan, phase, at, reg, remap, targets, acked, id, value, kept>>

LockDone ==
    /\ phase = "lock" /\ left = {}
    /\ phase' = "done"
    /\ UNCHANGED <<plan, at, reg, left, remap, targets, acked, servoVars, hurt>>

\* The port is closed and the exception goes to the caller.
Raise ==
    /\ "port" \in Faults /\ phase \notin {"done", "raised"}
    /\ phase' = "raised"
    /\ UNCHANGED <<plan, at, reg, left, remap, targets, acked, servoVars, hurt>>

Terminated == phase \in {"done", "raised"} /\ UNCHANGED vars

Next ==
    \/ AssignUnlock \/ AssignId \/ AssignDone
    \/ UnlockNext \/ UnlockDone
    \/ SkipLimits \/ WriteSetting \/ SettingsDone
    \/ LockNext \/ LockDone \/ Raise \/ Terminated

Spec == Init /\ [][Next]_vars

-----------------------------------------------------------------------------
(* Properties                                                              *)

\* What a plan may state settings of.
Kinds == (Names \ {"min", "max"}) \cup {"limits"}

\* A plan that gives every servo an ID of its own, which neither another servo nor an
\* entry of the plan goes by.
Fresh(p) ==
    /\ p.assign \in Seq(Ids \X (Ids \ Servos))
    /\ p.settings \in Seq([kind : Kinds, id : Ids, valid : BOOLEAN])
    /\ \A i, j \in DOMAIN p.assign :
         /\ p.assign[i][2] # p.assign[j][1]
         /\ i # j => p.assign[i][1] # p.assign[j][1] /\ p.assign[i][2] # p.assign[j][2]
    /\ \A i \in DOMAIN p.assign : \A e \in Entries(p) : p.assign[i][2] # e.id

\* The settings of the plan for the servo s.
Wanted(s) ==
    UNION {{Regs(e)[i] : i \in DOMAIN Regs(e)} :
             e \in {x \in Entries(plan) : x.id = s /\ x.valid}}

\* "All dicts use the original (pre-reassignment) servo ID as the key": at the end a
\* servo that acknowledged every write has exactly the settings stated for the ID it
\* had before, whatever became of its ID and of the other servos.
Delivered ==
    phase = "done" => \A s \in Servos \ hurt, n \in Names :
        value[s][n] = IF n \in Wanted(s) THEN s ELSE Factory

\* What the caller saw succeed is so: the register of the servo stated has the value.
Honest ==
    \A x \in acked : x[1] \in Servos /\
        IF x[2] = "id" THEN \A i \in DOMAIN plan.assign :
                              plan.assign[i][1] = x[1] => id[x[1]] = plan.assign[i][2]
                       ELSE value[x[1]][x[2]] = x[1]

\* unlock: "Unlock EEPROM on affected servos before writing".  What a servo that
\* acknowledged every write has in its EEPROM outlives the power.
Kept ==
    Unlock => \A x \in acked :
        x[2] \in Eeprom /\ x[1] \notin hurt => x \in kept

\* lock: "Lock EEPROM on affected servos after writing".  At the end no servo that
\* acknowledged every write is unlocked.
Relocked == phase = "done" /\ Lock => \A s \in Servos \ hurt : locked[s]
=============================================================================
