------------------------------- MODULE Workbench -------------------------------
(***************************************************************************)
(* The dashboard and two of its jobs, an auto-tune run on Worker and a     *)
(* re-centring on Gui.  They meet in the bus alone, so each is looked at   *)
(* under what it may see of the others, and desk says which it is: to the  *)
(* threads a job is a while with the bus; to the run, whose bus may be     *)
(* borrowed, the bus may be gone at any moment; and from the re-centring,  *)
(* a job of Gui, nobody takes it (GuiHasBus).  A recording run is a        *)
(* process of its own, with a bus thread of its own.                       *)
(***************************************************************************)
EXTENDS Integers, Sequences, FiniteSets

CONSTANTS
  Gui, Worker, Loops, Ifaces, Nobody, MaxOps, MaxJobs,
  Axes, MaxGain, Found, Window, InitialStep, MinStep, MaxTrials, RepeatTrials,
  NeedSamples, MaxSamples, Passing, Failing,
  Encoder, Suspect, Stride, MaxMisses, MinTravel, StallWindow, Offsets,
  Plan, Starts, Lowest, Highest, MaxStep, MaxLag, Maxlen, MaxReads

VARIABLES
  desk,  \* "threads", "run", "joint" or "arm"
  stream, interface, port, stop, slot, loop, connected, busLock, ioLock, at,
  hand, todo, phase, ops, jobs, expired,
  step, part, eeprom, lock, before, best, cand, trials, size, axis, up, better,
  passes, took, stopped, bus,
  tool, stage, low, high, place, ofs, wheel, limits, anchor, prev, travelled,
  most, least, still, misses, stalls, wanted, range,
  tap, turn, k, queued, tick, sending, running, goal, arm, seq, seen, listed,
  buffer, log, fed, dropped, spot, cmd, held

D == INSTANCE Dashboard
T == INSTANCE Tuning
R == INSTANCE Recentre
E == INSTANCE Excitation

ASSUME WorkbenchAssumption ==
  /\ D!ThreadsAssumption /\ T!TuningAssumption
  /\ R!RecentreAssumption /\ E!ExcitationAssumption

dashVars == <<stream, interface, port, stop, slot, loop, connected, busLock,
              ioLock, at, hand, todo, phase, ops, jobs, expired>>
tuneVars == <<step, part, eeprom, lock, before, best, cand, trials, size, axis,
              up, better, passes, took, stopped, bus>>
jointVars == <<tool, stage, low, high, place, ofs, wheel, limits, anchor, prev,
               travelled, most, least, still, misses, stalls,
               wanted, range>>
armVars == <<tap, turn, k, queued, tick, sending, running, goal, arm, seq, seen,
             listed, buffer, log, fed, dropped, spot, cmd, held>>
vars == <<desk, dashVars, tuneVars, jointVars, armVars>>

Init ==
  \/ desk = "threads" /\ D!Init /\ T!Idle /\ R!Idle /\ E!Idle
  \/ desk = "run" /\ D!Idle /\ T!Init /\ R!Idle /\ E!Idle
  \/ desk = "joint" /\ D!Idle /\ T!Idle /\ R!Init /\ E!Idle
  \/ desk = "arm" /\ D!Idle /\ T!Idle /\ R!Idle /\ E!Init

Threads == D!Next /\ UNCHANGED <<desk, tuneVars, jointVars, armVars>>
Run == T!Next /\ UNCHANGED <<desk, dashVars, jointVars, armVars>>
Joint == R!Next /\ UNCHANGED <<desk, dashVars, tuneVars, armVars>>
Arm == E!Next /\ UNCHANGED <<desk, dashVars, tuneVars, jointVars>>

Next == \/ desk = "threads" /\ Threads
        \/ desk = "run" /\ Run
        \/ desk = "joint" /\ Joint
        \/ desk = "arm" /\ Arm

Spec ==
  Init /\ [][Next]_vars /\ D!Fairness /\ T!Fairness /\ R!Fairness /\ E!Fairness

-----------------------------------------------------------------------------
(* Properties. *)

\* The claims of the four modules, where they are stated.
GuiHasBus == D!GuiHasBus
TunedGains == T!TunedGains
Centred == R!Centred
Recorded == E!Recorded

\* What is under way on one desk or another: a handler on Gui, an auto-tune run,
\* a job on a joint, a recording.
Working == \/ todo # <<>> \/ T!Running \/ stage \notin {"idle", "done", "refused"}
           \/ turn \notin {"idle", "end"}

\* Whatever fails, a handler returns and Gui is free for the next, a run, a
\* re-centring and a recording end, and a job on Worker gets the bus or an
\* exception and ends.
JobsEnd ==
  /\ Working ~> ~Working
  /\ at[Worker] # "out" ~> at[Worker] = "out"

=============================================================================
