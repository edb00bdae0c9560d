# Verification of soarm_sdk

TLA+ models of the parts of `soarm_sdk` where threads, a serial bus that fails
and EEPROM that remembers meet; TLC runs that check them on small instances; and
proofs, checked by TLAPS, of what matters most for every instance. The code
meant is the package under `src/src/soarm_sdk/`; paths below are relative to it.

* [The system](#the-system)
* [Modules](#modules)
* [Runs](#runs)
* [Bounds](#bounds), [Faults](#faults), [Fairness](#fairness)
* [Proofs](#proofs)
* [Where the code and its documentation part](#where-the-code-and-its-documentation-part)
* [Not modelled](#not-modelled)
* [Plan](#plan)

To repeat a run: `tlc -config MCServoBus.cfg MCServoBus.tla`. To repeat the
proofs: `tlapm` on `ServoBusProofs.tla`, `TelemetryProofs.tla`,
`TelemetryLogProofs.tla`, `WireProofs.tla`, `ApplyPlanProofs.tla`,
`CalibrationBenchProofs.tla`, `WidenLimitProofs.tla` and `WorkbenchProofs.tla`.

## The system

The SDK drives an arm of serial bus servos (Feetech STS). Everything goes over
one half-duplex wire, from one process with several threads.

| Component | State | Operations | Interacts with |
|---|---|---|---|
| Wire protocol (`protocol/`) | `is_using` and time-out of the port, the parameter lists and data of the sync groups | single reads and writes, sync read, sync write | the servos; everyone above |
| Servo hardware interface (`robot/hardware.py`) | `_running`, the thread, `_srv`; `_io_lock`, `_cmd_lock`, `_lock`, `_stream_lock`; the slots `_pending_torque` and `_pending_command`; `_torque_enabled`; the cached state; `_sent_ticks`; `_streams` | `start`, `stop`, the bus thread's loop, `set_robot_joint_positions`, `set_torque`, `lend_bus`, `subscribe`, `unsubscribe`, accessors | callers through locked slots; borrowers through `_io_lock`; streams through `_publish` |
| Telemetry (`robot/telemetry.py`, `robot/telemetry_sinks.py`) | the bounded buffer, its event, its counters; the recorder's `_running`, thread, sinks and failed sinks | `_publish`, `drain`, `wait`, `close`; recorder `start`, `stop`, `_loop`; the sinks | the bus thread produces, the recorder's thread consumes, the interface closes |
| Robot facade (`robot/base.py`, `servo.py`, `lerobot.py`, `null.py`, ...) | the connected interface | connect, disconnect, delegation | the interface |
| Servo configuration (`bus/servo_config.py`, `bus/discovery.py`) | the plan, `remap`, `target_ids`; ID, lock and registers of each servo | `apply_plan`: assign IDs, unlock, write settings, lock | the servos, one register at a time |
| Limit widening (`calibration/widen_limit.py`) | `before`, `reached`, `stalled`; limit, goal and lock of one servo | `probe_and_set_limit` | borrows the bus of a running interface |
| Re-centring, sweeps (`calibration/recentre.py`, `rom_sweep.py`, `sweep_cli.py`) | the unwrapped travel, the homing offset and limits in EEPROM | sweep in wheel mode, write the offset | the servos |
| Calibration frame (`calibration/frame.py`, `limits.py`, `pipeline.py`, `reference.py`) | zero, sign, range and EEPROM record of each joint, on disk | record, accept, invalidate, intersect limits | the interface, the planner |
| PID tuning (`tuning/`) | trials, best gains, step, budget; the watchdog's sign changes | coordinate descent, step test, acceptance, writing gains | the servos through callbacks |
| Dashboard (`dashboard/`) | the poll thread, `stop_event`, `_interface`, `_stream`, `_bus_lock`; the panels' worker threads and flags | start and stop polling, `bus()`, the panels' operations | GUI callbacks, poll thread, workers, the interface |
| Excitation recording (`dynamics/record.py`, `cli.py`) | the samples drained so far, the reasons to stop | approach, stream a plan, check every tick, hold, drain, disconnect | a running interface and one of its streams |
| Command lines (`cli/`) | none that lasts | prompts, printing | `apply_plan`, discovery |
| Kinematics, conversions, helpers; the rest of dynamics | none that lasts | numerical | |

What is hard, and where:

* **Concurrency** in `hardware.py`: caller threads, the bus thread, borrowers and
  the owner meet in two slots and two locks. The torque request is *read* under a
  lock and *cleared* under the lock again several transactions later.
* **Time-outs**: `stop()` waits 2 s for the bus thread, the recorder's `stop()` 2 s
  for its thread, `lend_bus` 2 s for the lock, and all of them go on when it expires.
* **Failure**: every transaction can fail on its own. Some results are looked at
  (sync read, `write1`, `write2`), some are not (torque, broadcast), and
  `read2ByteTxRx` turns a failure into the value 0.
* **Copies**: the dashboard holds a live calibration, the base its sliders start
  from and a file, and what each says of the arm must be true of the arm.
* **Order and persistence**: the goal outlives torque and sessions, EEPROM outlives
  power, and an ID is both the name of a servo and one of its registers.

What makes each component correct:

* Interface: who was told that the arm is limp can rely on it; powering the arm
  holds it where it is; no move survives a disable; the wire carries one
  transaction at a time; every request is served or refused.
* Telemetry: order, no duplicates, no loss that is not counted; the newest data
  survive; nobody sleeps over data; stopping ends and drains.
* Plans: a setting reaches the servo it was stated for and no other; what the
  caller saw succeed is so; what was unlocked is locked.
* Limit widening: it ends, never past the stop, never less travel than before.
* Wire: what a caller is told was answered was carried out, or an older request
  was; a call returns, and does not leave the port marked in use.
* Calibration: what it says was checked, pinned to a pose or measured, was, in
  every copy; a save that fails half way leaves a complete one, and so do those
  that follow, but for a retry within the second.
* Re-centring: afterwards the joint crosses the encoder's end nowhere in its travel.
* Tuning: a run ends on gains that it tried and found no worse than any other.
* Dashboard: a handler has the bus it thinks it has, and returns.
* Recording: nothing is commanded after the hold of a run that is stopped, and the
  log of any run has every sample.

## Modules

| Module | Models | Lines that matter |
|---|---|---|
| `ServoBus` | the interface's owner, bus threads, callers and the arm | `robot/hardware.py` 305-387, 475-524, 620-832, 934-1004 |
| `ServoBusProofs` | its theorems | |
| `Telemetry` | `_publish_sample`, one stream, the recorder | `robot/hardware.py` 838-932, `robot/telemetry.py` 144-183, `robot/telemetry_sinks.py` 182-252 |
| `TelemetryProofs` | its theorems | |
| `TelemetryLog` | what that path promises a sink: a lossy log | abstract |
| `RecorderLog` | how the recorder's state is that of the lossy log of one sink | refinement mapping |
| `TelemetryLogProofs` | that the recorder implements the lossy log | |
| `ApplyPlan` | `apply_plan` and its helpers | `bus/servo_config.py` 56-88, 257-465 |
| `ApplyPlanProofs` | its theorems | |
| `WidenLimit` | `probe_and_set_limit` and the joint | `calibration/widen_limit.py` 83-191 |
| `WidenLimitProofs` | its theorems | |
| `Wire` | packets, `is_using`, ping, group read, the servo helpers | `protocol/packet_handler.py` 152-576, `port_handler.py`, `group_sync_read.py`, `sts.py`, `scscl.py` |
| `Exchange` | what the modules above take an exchange with the servos to be | abstract |
| `WireProofs` | its theorems, the refinement of `Exchange` among them | |
| `CalibrationBench` | the calibration tabs, the homing controls, the file, the acceptance policy | `dashboard/panels/calibration.py` 484-1716, `panels/setup.py` 497-713, `calibration/frame.py`, `pipeline.py`, `limits.py`, `sweep_cli.py` 321-553 |
| `CalibrationBenchProofs` | its theorems | |
| `Dashboard` | the threads of the dashboard and `bus()` | `dashboard/context.py` 60-449, the handlers of `panels/` |
| `Tuning` | an auto-tune run | `tuning/search.py` 184-245, `step_test.py`, `watchdog.py`, `gains_io.py`, `dashboard/panels/pid.py` 354-498 |
| `Recentre` | re-centring, measuring and sweeping one joint | `calibration/recentre.py` 70-391, `rom_sweep.py` 49-161, `panels/setup.py` 558-598 |
| `Excitation` | a recording run over the bus thread | `dynamics/record.py` 76-216, `robot/hardware.py` 407-524, 817-832 |
| `Workbench` | the four above, one at a desk | |
| `WorkbenchProofs` | theorems of all four | |
| `MC...` | instances for TLC | |

`ServoBus`, `Telemetry`, `ApplyPlan` and `WidenLimit` end their state machine with
`Terminated`, a stuttering step for the states in which the program has really
ended, so that deadlock is checked everywhere else; `Wire` never ends. The bench
and the workbench stop when their bounds are used up, and their runs do not check
deadlock: `JobsEnd` says what must go on. A definition whose name begins like another and whose comment
begins with "Mutant" is a plausible bug; it shows that a property can fail.

### ServoBus

One action is one block under a lock or one transaction on the wire, since those
are the points between which the threads interleave. `owner` is the program
counter of the thread that calls `start()` and `stop()`; `pc[b]` that of the bus
thread spawned by the `b`-th `start()`, so that a thread left over from a join
that expired runs on beside its successor; `op[c]` the call a caller is in.
`want[b]` and `cmd[b]` are the locals of `_apply_pending_torque` and
`_write_if_pending`. `ioLock`, `pendTorque`, `pendCmd`, `enabled`, `cache`,
`everRead`, `sent`, `srv` and `running` are the attributes of the interface.

The arm is one pose: a goal is one broadcast that all servos take or all miss,
while torque is written servo by servo, in the order of the IDs, by `StartPower`
and `BusTorque`. `cache` is what the last successful read saw. `_cmd_lock` and
`_lock` protect blocks without I/O, and appear as the atomicity of the actions.
`RateLimiter.sleep` has no state and falls between two ticks.

Three variables are history: `epoch` counts disables, so that a move can be
recognised as older than one; `since` remembers in which session a call began;
`safe` says that somebody was told the arm is limp and nobody has asked for
torque, or started the interface, since.

Assumed of the environment: one thread owns the interface, and does not call
`start()` on an interface that is up; a failed `start()` may be followed by
another or by `stop()`; a borrower leaves goal and torque alone; nobody moves the
arm by hand in the milliseconds between a read and the park that uses it; with
all servos powered the arm goes to its goal, with some of them it stays.

### Telemetry and TelemetryLog

A sample is its sequence number. The threads are the bus thread (`bus`), the
recorder's thread and the recorder's owner (`at`), and the thread that stops the
interface (`hw`). `Put` is the critical section of `_publish`, `SetEvent` what
follows it. `_drain_once` is run by both the recorder's thread and, in `stop()`,
the owner, hence it is parameterised by who runs it, with a batch and a cursor of
its own. A wait that times out is `LoopWait` with the event off.

`TelemetryLog` says what one sink may count on: samples are accepted, wait, and
are logged in order and once; one that waits may be lost when another is
accepted, those that wait at the end when the feed is closed, all when the sink
fails. After an expired join (`ordered` false) two deliverers interleave and only
"at most once" is left for sinks that work. `RecorderLog` instantiates it for a
sink `Sink`: waiting is what the two drainers hold for that sink and what is
buffered. The run takes the second sink, which is the harder choice, since the first
may fail before it; the proof takes any.

### ApplyPlan

A servo is named by the ID it had before the plan, and the value of a setting by
the ID the plan states it for, so that a servo which holds another one's value got
a setting not meant for it. A plan is the sequence of pairs of `assign_id` and the
sequence of the other entries in the order of the loops. An entry of angle limits
has two registers, and `write2` on the first failing skips the second. A write to
an ID is heard by every servo that has it; it may be missed (`lost`), take effect
without an answer (`ack`), and an ID that two servos share gets no clean answer.
`hurt` is history: the servos that missed or did not acknowledge a write. A new
baud rate is a value like others; that the servo then no longer hears the old
rate is not modelled.

### WidenLimit

The joint and the limit are integers. `sign`, `AtOrPast`, `Further` and `Nearer`
fold the two directions into one. What the joint does in the settle time is
external: it may go toward the goal by any amount, but not past its stop or past
the limit in force, or give way by `Sag`. The conversions between ticks and
radians, and the clamps on a goal, are part of that "any amount". The reading of
the current is one bit: over the ceiling or not.

### Wire and Exchange

One client at a time uses the port; the locks of the layers above see to that.
`call` is the call in progress, `input` the packets that wait to be read, `due`
the answers that are still on their way. A packet is who sent it, whether its
checksum holds, and the ghost `own`: whether it answers the request in progress.
`TxSent` does what `txPacket` does and what the servos make of it: some carry the
request out, some of those answer, some of the answers arrive whole. `Rx` is the
receiver: it drops what is no packet, gives up on one that is corrupt, skips one
from another servo, takes an answer, or runs out of time. An answer may come after
that, into the next request (`Aged`). A group read has all of its blocks or
misses some, and `data` says which it still has from before.

`Exchange` is what the upper modules take that for: a request is out to some
servos, each carries it out or not, and the caller hears of some that did, or that
still owed an answer. `ImplementsExchange` maps `due` and `input` to what is owed.

A session opens the port with a new `PortHandler`, which is not in use (`openPort`). A
request that nobody answers (`writeTxOnly`, `syncWriteTxOnly`) has no branch of its
own for a short write or a line that raises: a short write leaves what a whole one
does, and a raising line what it leaves in the other calls.

Left out: the bytes and the values read; an acknowledgement of a write that
arrives late and is read as data; late answers of one servo that are alike are
kept once; answers to a group read come in any order.

### CalibrationBench

Three records stand for the three copies: `live`, `base` and `file`. A zero is not
a number but where it came from: `src` is the code's `zero_source`, and the ghost
`pin` says whether zero and sign are those solved from a pose (`held`), that
carried into another frame (`carried`), taken from a sweep (`swept`) or changed by
hand since (`no`). `checked` is the ghost of the signs at the last check. The
handlers run one after another, since Viser calls them on one thread; the main
loop's tick, `soarm-calibrate-rom` in a process of its own, a full disk and a
restart come in between. A save is three steps: the copy, the truncation and the
write; no other handler runs in between, but the process may end. The copy may be cut
short (`SaveRefuses`), and so may the write (`SaveFails`). `kept` is the ghost of the
backups: which one holds what was last written completely, the `newest`, an `older`
one or none. A backup is named by the second, so the copy may take the place of the
newest one (`again`). A tool writes the file without a backup, and its write may be
cut short as well (`ToolFails`).
`effective_limits` and the five results of `CalibrationPipeline` are operators.

### Workbench: Dashboard, Tuning, Recentre, Excitation

These four meet in the bus alone. Their product is too large, and a run of its own
for each would say little, so `Workbench` composes them by assume and guarantee:
`desk` says which of them is looked at, and each assumes of the others no more
than they give. To the threads of `Dashboard` a job is a while with the bus. The
auto-tune run may lose its bus at any moment (`BusLost`), because `Worker` borrows
it from an interface that a handler can stop. Re-centring, a job of `Gui`, may not:
that is what `GuiHasBus` shows. A recording run is a process of its own.

*Dashboard.* `at[c]` is where thread `c` is in `bus()`, and `hand[c]` what it waits
for or has: a port of its own under `_bus_lock`, or an interface's. `todo` is what
is left of the handler on `Gui`, cut into the steps between which other threads
run: `stop_polling` is five of them. A loop that outlives the 3 s join may be
revived by the next `start_polling`, which clears the shared event. That there is one
thread for all handlers is what `dashboard/app.py` (216) says of Viser; with a pool of
threads they would interleave, `_do_rezero` among others, which sleeps between its
reading and its writing, and `NothingLostToSliders`, `GuiHasBus` and `JobsEnd` say
nothing of that. The telemetry recorder of a stream, which `stop_polling` also stops,
is left out here and modelled in `Telemetry`.

*Tuning.* The cost of a trial is a rank. What is exact is the control: which gains
are tried next, when a step is halved, when the budget ends which phase, how many
passes validate, and which register holds what when a write fails half way.

*Recentre.* A joint at an integer place between two stops, on an encoder of a
small circumference. `travelled` adds `_unwrap`ped differences; the sweep of
`rom_sweep.py` keeps extreme readings instead; `Recentre`, `MeasureRange` and
`Apply` write offset and limits from either. A direction's first reading is one of the
joint at rest, though it is taken after the write that starts the motion
(`recentre.py` 171-174): what the joint moves within that one transaction is not
counted by the code, and is taken to be less than a tick. Readings within the
tolerance of a stall are equal readings here.

*Excitation.* One joint, the thread that runs `record_excitation`, and the bus
thread, whose tick is four steps (read, publish, take, send), since a command may fall
between any two. A command is clamped against the last reading and then queued; the
hold is three steps: the place to stay at is read (`Measure`), clamped against what is
the last reading by then (`Clamp`), and queued (`Hold`); the bus thread may come between
them. A dry run has no telemetry and is polled.

## Runs

| Run | Instance | Shows |
|---|---|---|
| `servo_bus` | 2 servos, 2 callers, 2 poses, 2 sessions, 3 calls, no faults | `LimpHolds`, `EnableIsHold`, `LimpTakesNoGoal`, `SlotsDrain` |
| `servo_bus_faults` | 1 servo, 2 callers, 2 sessions, 2 calls, all faults, EEPROM check | `SlotHeld`, `BorrowExclusive`, `LockAccounted`, `NoStaleMove` |
| `servo_ack` | 1 servo, a torque write may be lost | `LimpHolds` is violated |
| `servo_restart` | 1 servo, 2 sessions, 1 call, no faults | `TorqueBelief` is violated |
| `telemetry` | 2 sinks, buffer of 2, 3 ticks, all faults | `NoLostWakeup`, `Accounted`, `DropsOldest`, `ImplementsLog`, `EverySampleLands`, `StopEnds` |
| `apply_plan` | 3 servos, 5 IDs, 20 plans with fresh IDs, all faults | `Delivered`, `Honest`, `Kept`, `Relocked` |
| `apply_plan_shift` | 2 servos, IDs shifted, no faults | `Delivered` is violated |
| `widen_limit` | 9 positions, every stop, bound, limit and start, both directions; writes and port fail | `NeverPastStop`, `NeverNarrower`, `Ends` |
| `widen_read` | the same, a read may fail | `NeverPastStop` is violated |
| `wire` | 2 servos, one late answer, all six faults | `PortFree`, `ImplementsExchange`, `EveryCallReturns` |
| `calibration_bench` | 2 joints, 3 poses, 2 travels, 2 passes a joint, 4 edits, disk and restarts | `NothingLostToSliders`, `SignsWereChecked`, `PoseVouches`, `TravelIsLastPass`, `DiscardsWhatWasShown`, `LastCopyKept` |
| `workbench` | 3 handlers and a job over 2 loops and 2 interfaces; one auto-tune run; every joint on an encoder of 6; a plan of 3 commands | `GuiHasBus`, `TunedGains`, `Centred`, `Recorded`, `JobsEnd` |

The passing runs also check the type invariants, except where a proof makes that
unnecessary (`servo_bus_faults`, `wire`), and except `workbench`, whose
invariants would fail on a value out of its range.

What the passing runs show is not obvious from the code:

* `LimpHolds` rests on the caller testing the slot *and* the flag (a caller that
  tests only the flag returns before the servos are told), and on the slot staying
  full while the request is applied. Other callers may post the opposite request
  in the meantime, and a request may be cleared without having been applied; the
  confirmation is still true then, since the flag says what was applied last.
* `LockAccounted` includes a bus thread that dies: after an expired join `stop()`
  sets `_srv` to `None` under a thread that may then wake up, pass the test at the
  head of `_apply_pending_torque`, and fail in the middle; the `with` block gives
  the lock back.
* `ImplementsLog` shows that two drainers do not duplicate samples, although
  they do reorder them, since `drain()` empties the buffer under its lock.
* `Relocked` and `Kept` show that the lock loop resolves its IDs a second time
  without harm, as long as new IDs are fresh.
* `ImplementsExchange` needs `clearPort` before a packet, and the group read to
  forget its blocks first; it does *not* give the upper modules the answer to their
  own request: the reply of a servo that comes after its time-out, into the next
  request to the same servo, is taken for the answer to that.
* `PoseVouches` needs four withdrawals (a nudge, a flip, a re-centring, a sweep),
  each in another function, and `_zero_provenance_result` beside the record of
  the pose.
* `TravelIsLastPass` couples the list of passes with the travel beside it over
  append, merge, discard from the middle and reload.
* `Recorded` needs the slot to be emptied when a command is *taken*: emptied when
  it was sent, the hold queued meanwhile would be lost and the arm go on pushing. It
  does *not* say that the arm is held: the tick under way or the next one sends the
  hold, and if `disconnect` ends the loop before, none does. Nor does the hold name the
  place to stay at when that is more than a step from the arm, or beyond a limit.
* `LastCopyKept` names the two ways in which the last complete calibration is lost, and
  the run reaches both: a Save over a file that was cut short, in the same second as
  the backup before; and a tool cut short in its write. Every other sequence of saves,
  failures and restarts keeps it.
* `GuiHasBus` says "nothing says connected" of a sweep only as long as no join
  expired: with a loop left over it does not hold.

### Bounds

* ServoBus: two sessions are needed for a restart and for a leftover thread; two
  callers for contradictory requests and for a second borrower; three calls for
  disable, enable and a move between them. Two servos show a switch that is
  half applied. Two poses tell a stale goal from a fresh one. `Zero` is one of
  them, so that the placeholder pose can be right by accident and wrong.
* Telemetry: a buffer of 2 with 3 ticks overflows, holds more than one sample and
  leaves one to arrive during a stop; two sinks let one fail before the other.
* ApplyPlan: three servos: one that gets a new ID, one with settings only, one that
  the plan leaves alone or fails to unlock; the plans have every register and
  entries with two registers, invalid limits and several entries for a servo.
* WidenLimit: the scale of 9 positions with a step of 4 and progress of 3 keeps the
  proportions of the defaults (step, progress, three stalls, margin below a step),
  with room for two full steps between start and stop.
* Wire: two servos, so that a packet of another one is in the way; one answer
  overdue (`MaxLate`) when a request goes out. 122,736 states.
* CalibrationBench: four edits make, say, tolerances, two passes and a discard, or a
  pose, a flip, a reload and a save. Two joints and three poses that constrain
  both, one and none of them; travels on both sides of the declared one; two
  passes, which is what acceptance asks for; a spread within and one beyond the
  tolerance. 1,889,018 states.
* Workbench: three handlers make stop, start and work in any order, and two loops a
  leftover and its successor; two interfaces, the one stopped and the next. Two
  gains of two values, a step that is halved once, six trials, two of which
  validate: budget and search end in either order. An encoder of six ticks with
  every stop, place and start, travels up to a whole turn, one tick between
  readings and one reading missing. A plan that turns, a start beyond the limits,
  a stream of one sample that overflows, three ticks. 201,211 states.

`MaxSessions`, `MaxCalls`, `MaxTicks`, `MaxLate`, `MaxPasses`, `MaxEdits`, `MaxOps`,
`MaxJobs`, `MaxSamples` and `MaxReads` bound counters in guards; nothing else is
bounded. Symmetry is used for the callers of `servo_bus_faults`, which checks
safety only.

### Faults

`Faults` is a constant of each module, a subset of its `FaultKinds`, so that a
property is checked with the faults it withstands and no others. Where a property
is checked without a fault, that is because the code does not promise it under
that fault, or because the code falls short and a run of its own shows it:
`LimpHolds` with lost torque writes (`servo_ack`), `NeverPastStop` with failing
reads (`widen_read`), `Delivered` with IDs that are not fresh
(`apply_plan_shift`). `EnableIsHold`, `LimpTakesNoGoal` and `SlotsDrain` are
checked without faults: a lost broadcast cannot be noticed, an expired join leaves
a thread that works with a stale view, and `PROJECT.json` lists both as hazards
that are not covered.

The kinds: in `ServoBus` a port that does not open, a read or a broadcast that fails,
a torque write without an answer, a line that raises under the bus thread (which
dies of it, silently) and a join that expires; in `Wire` answers that are lost,
corrupt, late or behind noise, a short write and a line that raises; in
`CalibrationBench` a full disk and the end of the process. In `Dashboard`, `Tuning`,
`Recentre` and `Excitation` a failure is an action or a choice of an action, not
switched by a constant: a port that does not open, a borrowing that times out, a
join that expires, a write of gains that fails after any number of registers, a
trial that aborts or measures nothing, a reading that is missed, a read that fails
in a tick, an interrupt.

`Centred` is checked for sweeps whose first read succeeds and whose two directions
end in a stall; the code calls neither an error.

### Fairness

* ServoBus: weak fairness of each bus thread (the operating system runs it; a
  transaction ends by its time-out) and of `ReturnBus` (a `with` block ends).
  Nothing is assumed of callers, who may never call, or of the owner. Weak
  fairness is enough for a thread that waits for the lock because the number of
  calls is bounded; with endless borrowing it would not be, `threading.Lock` being
  unfair.
* Telemetry: weak fairness of the bus thread, of the recorder's thread and of a
  `stop()` that has begun. Nobody has to start or stop anything. `Join` is fair, for
  the thread it waits for ends or the time-out expires.
* WidenLimit: weak fairness of the whole procedure, one thread. `Ends` also needs
  `Progress > (Stalls - 1) * Sag`: a joint that sags more than that can alternate
  between giving way and recovering for ever, with the stall counter reset each time.

* Wire: weak fairness of the receiver, of the read that `ping` goes on with, and of
  answers on their way, which arrive or count as lost. Noise comes once in a call.
* Dashboard: weak fairness of the handlers' thread and of every loop; strong
  fairness of getting the bus, since the loops sleep between two uses of it, and
  somebody who waits gets `_bus_lock` or `_io_lock` in one of the gaps.
* Tuning, Recentre, Excitation: weak fairness of the one thread that runs the job.
  `Turn` is fair by itself: a direction ends when its time is up, if not by a stall.
  Nothing is assumed of the bus thread below a recording, which ends without it.

## Proofs

TLC covers the instances above; the theorems hold for every value of the constants
that satisfies the assumptions named in the modules: positive numbers of servos and
sessions, any set of callers, any set of poses that contains `Zero`, any list of
different sinks, any length of a stream, any faults.

**ServoBusProofs.** `TypeCorrect` proves `TypeOK` from the inductive `TypeInv`,
which adds what the counters need: the calls left and the disables posted do not
exceed the bound together, an index of a servo is in range while a write is due,
and `start()` has been called once the owner is past it. There is one lemma for the
owner's, one for a bus thread's and one for a caller's steps.

`LockKept` proves `LockAccounted` under all faults, with `Unborn` (a bus thread does
nothing before it is spawned) as the strengthening; `BusSerialised` is a
consequence, since whoever is on the wire is inside a block that needs the lock.
`SlotKept` proves `SlotHeld` under all faults, from the lock: two threads never
apply a request at the same time.

`LimpCorrect` proves `LimpHolds` if no torque write is lost and no join expires,
both of which are needed: the first is the finding of `servo_ack`, and a leftover
thread can finish an old request after a restart. `LimpHolds` is far
from inductive. `LimpInv` adds: there is one loop, that of the latest session
(`OneLoop`); the slot is full while a request is applied (`SlotHeld`); the servos
before the next one have the value wanted (`Told`); for a caller that waits since
this session, the slot is full or every servo is as the flag says (`Awaited`); and
while somebody relies on a limp arm, nobody is about to power it (`NobodyPowers`).
Each conjunct has a lemma of its own.

`NoMoveOutlives` proves `NoStaleMove` under all faults: the move in the slot is as
new as the latest disable, since `set_torque` drops the move and takes the torque
slot in one critical section. `LimpGetsNoGoal` proves `LimpTakesNoGoal` under the
assumptions of `LimpCorrect`. `GoalInv` adds to `OneLoop` and `Told` that the port is
open while the loop runs (`PortOpen`, so that no thread dies half way through a
switch), that `start()` has powered all servos before it spawns the loop
(`PowerUp`), that the flag is on over a limp servo only during a switch or before
the loop runs (`Powered`), and that a thread which is about to send a move has all
servos powered (`SendPowered`). `EnablingHolds` proves `EnableIsHold` from `ReadFirst`: from
the read to the park the cache is where the arm is, and from the park to the last
servo the goal is, unless every servo is powered already and the arm may still follow
its goal. It needs that reads and park broadcasts succeed, that a join does not expire,
and that no calibration is compared with the servos between the read and the park
(`Recorded` false), when the arm may be moved; torque writes may be lost, and the line
may fail. TLC checked `LimpInv`, `GoalInv` and `ReadFirst` before they were proved.

**TelemetryProofs.** `TelemetryTypes` proves `TypeOK`, with it that a stream never
holds more than `maxlen` samples, from `Types`, which adds that a sample being
published has a number. `WakeupKept` proves `NoLostWakeup`, which is inductive.
`DropsAreOldest` proves `DropsOldest` from `Order`: what the bus thread is about to
publish is newer than everything accepted, and the buffer and both batches run from
the oldest sample to the newest; without it the new sample might be an old one again.
`AllAccounted` proves `Accounted` under all faults, an expired join included. `Roster`
says that no sink is listed twice, that every sink that did not fail is still listed
and that only a drainer which is writing holds samples, so that a drain loses nothing;
`Whole` splits the accepted samples, for each sink that did not fail, into the six
places they may be in, and every action moves a set of them from one place to
another. One lemma for each such action; the sets come from lemmas on the sets of
elements of sequences.

**TelemetryLogProofs.** `RecorderImplementsLog` proves the refinement of
`TelemetryLog` under all faults, an expired join included. It takes `Types`, `Order`
and `Roster` from above and needs two more invariants. `Turns`: past the join the
recorder's thread is gone, unless the join expired, and then it does no more than
finish the batch it has; hence, while the order is kept, at most one of the two
drains, and what it holds comes before what is buffered. `Offers`: a sink that failed
is offered nothing more, unless two drainers are at work, and what a drainer holds
was accepted, so that even what it still writes to a failed sink is a sample
(`Stray`). There is one lemma for each action, which says what it is to the log:
`Put` is `Accept`, a write is `Deliver` or `Stray`, a write that fails is `Fail` or
`Cut` (of what its drainer held of a sink the other one has removed), closing the
stream is `Cut`, an expired join is `GiveUpOrder`, and draining is a stutter. They
rest on what taking one element, or a run of them, out of the middle of a sequence is.

**ApplyPlanProofs.** `TypeOK`, `Delivered`, `Honest`, `Kept` and `Relocked` are
theorems for any servos, flags and faults if every new ID of every plan is `Fresh`: no
servo has it, it is given once, and no setting is stated for it. `Delivered` is false
without that, as `apply_plan_shift` shows, and the code does not check it; the
hypothesis (`FreshOnly`) is part of each theorem, and an assumption of `MCApplyPlan`
checks it of the plans of the run. What it gives is `Resolved`: the chain that
`resolve_id` follows has one link at most, which needs no induction. `PlanInv` is
`TypeOK` with `PlaceInv` (where the loops are), `IdInv` (a servo has the ID it had or
the one the plan gives it, and `remap` knows every one that was acknowledged),
`ValueInv` (a register holds its factory value or one meant for its servo, up to where
the plan has come) and `LockInv` (who acknowledged every write is unlocked when its
EEPROM is written, and the lock loop still comes to every servo that is unlocked). TLC
checked it first.

**WireProofs.** `WireInv` is `Types`, `Traced` and `PortFree`. `Traced` says that an
answer on its way, or read, answers the request in progress only if its servo
carried that request out, and that between two requests nobody did; `Types`
adds to `TypeOK` that a call which is not of a group is to one servo (`OneServo`),
without which an answer could be counted for the wrong one. `WireTypes` and
`WirePortFree` follow. `WireImplementsExchange` maps every action to `Ask`, `Answer`,
`Expire`, `Refuse` or a stutter, for any set of servos and any faults.

**CalibrationBenchProofs.** `BenchInv` has four parts. Every copy is `Sound`: it has
its type, and what it says was checked (`SignsSound`), pinned (`PoseSound`) and
measured (`TravelSound`) was. The two copies in memory are `Alike` in everything but
what sliders change (`CopiesAlike`), which is needed because every edit is made to
both and the sliders rebuild one from the other. Results and selections are of
joints of the arm (`ResultTypes`). A save that has begun has something to write, and
a complete file it is to write over has a backup (`SaveSound`). There is one lemma for each thing that
is done to a calibration (it stays sound) and one for two alike copies (they stay
alike); the steps put them together. `BenchNothingLost`, `BenchSigns`, `BenchPoses`
and `BenchTravel` follow from `BenchInv`, the last by the arithmetic of
`effective_limits`, and `BenchLastCopy` (`LastCopyKept`) from `SaveSound` and the steps
that write the disk (`DiskSteps`). They hold for any number of
passes and edits, and in particular beyond the bounds of the run. `BenchTypes` and
`BenchDiscards` need the list of passes as well: `LiveStep` says what each step does
to it, for the two copies in memory together (it grows by one pass, loses the one
selected, is taken from the file or stays), and `BoundInv` that it stays within
`MaxPasses`. Proving that showed that `MaxPasses` must not be 0, since a calibration
seeded from a sweep has a pass from the start; the module now assumes it. One part of
`PoseVouches` was at first stated too strongly (a joint re-centred and then swept
again is no longer pinned to the pose on record): the run had passed within its
bounds, and the proof did not go through.

**WidenLimitProofs.** `WidenTypes` proves `TypeOK`, the point being that neither a
goal nor a limit ever leaves the range of the encoder; `TypeInv` adds that a walk
that goes on has not stalled. `WidenSafe` proves `NeverPastStop` and
`WidenNoNarrower` proves `NeverNarrower`, both while reads succeed, from `WalkInv`:
the joint and the readings stay short of the stop, and the limit read at the start
is the trusted one.

**WorkbenchProofs.** The four models of the workbench share no state but the desk, so
each has an invariant of its own and leaves those of the others alone.

*Dashboard.* `WorkbenchBus` proves `GuiHasBus` for any loops, interfaces and numbers
of operations and jobs, from `DashInv`: what may be left of a handler, step by step
(`GuiInv`); whoever is on the bus with a port of its own has `_bus_lock`, but for the
handlers that do not ask for it (`BusInv`); between a stop and the next start no
interface is up (`PortInv`); and while no join has expired, the only loop is the one
in the slot (`LoopInv`).

*Tuning.* `WorkbenchGains` proves `TunedGains` for any axes, window, steps, budget and
costs, and a bus that may be gone at any moment. `BestInv` follows the best trial
through the parts of the search: in the descent nothing tried was cheaper, in the
verification only the same gains tried again may have been. `PassInv` counts the passes:
all but the first are the latest trials, and of the gains that are written.

*Recentre.* `WorkbenchCentred` proves `Centred` for any encoder, stride, offset, travel
and start, and readings that fail as long as the joint moves less than half a turn
between two that do not. `AddsInv` says what the unwrapped displacements add up to:
there is a place where the joint was anchored and one where it was last read, and the
sums are their differences, whatever was missed between. `KeepsInv` says the same of
the extreme readings of a sweep whose travel does not cross the encoder's end. The
arithmetic is in lemmas on turns, on `_unwrap` and on the folded offset, since the
solver knows little of `%`.

*Excitation.* `WorkbenchRecorded` proves `Recorded` for any plan, limits, step and lag.
`HeldInv` says where the hold is on its way (`Place`), that it leads toward the place to
stay at (`Stays`), before it is queued too, and that this place was measured no earlier
than what stopped the run; `LogInv` that log, stream and the sample to be published
next are in this order and add up. What it proves is safety: nothing of the plan
comes after the hold. That the hold is sent is not a theorem, and not true.

The proofs corrected the model in places. `Recorded` said that the hold names the
place that was measured, which the run did not refute: it is false of an arm that is
beyond a limit by more than a step, where the clamps of the interface move it, and of
a dry run, where there are none; it says now between which places the hold lies, and
the run starts beyond the limits. Re-centring needs a stall window of more than
one reading (`StallWindow`) and a suspicious travel below a turn (`Suspect`), a
recording a lower limit that is not above the upper, and the dashboard that no
interface has the name of a port of one's own; these are assumptions now, and the
defaults of the code satisfy them.

Not proved: liveness (`SlotsDrain`, `EverySampleLands`, `StopEnds`, `Ends`,
`EveryCallReturns`, `JobsEnd`), and with it everything that needs ENABLED, which is out
of the prover's reach and checked by TLC alone. All invariants, action properties and
refinements that the passing runs check are theorems, some under a condition: that
none of the faults named above occurs (`LimpCorrect`, `LimpGetsNoGoal`, `EnablingHolds`),
that reads succeed (`WidenSafe`, `WidenNoNarrower`), that new IDs are fresh
(`ApplyPlanProofs`). `WireTypes` is proved only: no run lists it.

## Where the code and its documentation part

| Run | The documentation | The code |
|---|---|---|
| `servo_ack` | `set_torque` is blocking because a caller "needs to know the servos were actually told, not that a request was queued" (`robot/hardware.py` 748-750) | the result of the torque write is discarded (811) |
| `servo_restart` | `torque_enabled`: "Whether torque was last commanded on" (736) | `start()` commands torque on without setting the flag (363); after disable, stop, start the arm is powered, the flag says it is not, and moves are dropped |
| `apply_plan_shift` | "All dicts use the *original* (pre-reassignment) servo ID as the key" (`bus/servo_config.py` 60) | `resolve_id` follows chains (275): with `{2: 3, 1: 2}` a setting for servo 1 goes to the former servo 2 |
| `widen_read` | the limit is "set *margin_ticks* short of the stop, never past it" (`calibration/widen_limit.py` 115) | a failed read is taken for tick 0, since `read2ByteTxRx` answers it with `[0]`, and `rd2` looks for an empty answer (136) |

Seen while modelling, where the models do what the code does and no run is spent on it:

* **Calibration.** `_publish_endpoints` publishes every result there is as a new pass
  of its joint, old ones included: one measurement can count twice. `_do_apply`
  (`panels/setup.py` 582-597) moves the homing offset without rebasing the
  calibration, while `_recentre` rebases it; and it runs with torque on, which the
  docstring of `recentre_joint` forbids. `_recentre` leaves the record of the pose, so
  that the pipeline accepts a zero that was only carried. A partial
  `soarm-calibrate-rom` keeps that record although it seeds a covered joint anew.
  `_reload` clears `signs_flipped` but not the dropdowns. The name of a backup
  resolves seconds (`panels/calibration.py` 1686-1689) and `copy2` replaces what has
  it: a Save that is retried in the second in which one failed half way replaces the
  only complete calibration by the file that was cut short, though the comment above
  (1682-1684) wants the previous calibration kept automatically.
  `soarm-calibrate-rom` (`sweep_cli.py` 464) and `widen_limit.py` (304) replace the
  file without a backup.
* **Sweeps.** Apply's check for a wrapped travel (`panels/setup.py` 564-571) misses one
  when the joint starts past the seam. An exception in the middle of
  `run_rom_sweep` leaves the joint in wheel mode and unlocked. A failed read counts
  as 0 (`_read_word`, the first read of a direction). `encode_ofs(-2048)` is written
  as 0. No write of `recentre_joint` is looked at.
* **Tuning.** An abort by the watchdog neither restores the gains nor stops the
  torque, though `panels/pid.py` 122-127 says so; final gains are written without a
  click, though the plan in `docs/` wants one, and when the budget ran out before the
  verification too (`panels/pid.py` 450-453), though the docstring of the search calls
  them then "a candidate, not [...] something to write to EEPROM as final"
  (`tuning/search.py` 180-182). A trial stopped by hand counts as
  complete. A write whose unlock is not acknowledged leaves the EEPROM unlocked.
* **Dashboard.** A join that expires and the shared `stop_event` make two loops. The
  calibration and export handlers of the setup tab and the monitor's read open a port
  of their own, although a comment (`panels/setup.py` 152-159) calls Scan the last
  such caller.
* **Wire.** `read1ByteTxRx` on a short answer gives the checksum byte. `writeTxOnly`
  clears `is_using` even when it was told COMM_PORT_BUSY.
* **Recording.** The hold after an abort is only queued; if the disconnect comes
  before the next tick (`dynamics/cli.py` 291-292, `robot/hardware.py` 687), it is never
  sent, though `dynamics/record.py` 17-19 promises an arm that stops pushing; the last
  command of the plan stays the goal. `Recorded` allows for it. While telemetry is silent the last sample is compared
  again and again. A raise other than the abort loses the log.
* **Facade.** `ServoRobot.connect` sets `_hw` before `start()`: if that raises, the next
  connect returns at once on a robot that never started.

## Not modelled

* Numerical code (trajectories and least squares of dynamics, kinematics,
  conversions, metrics): floating point is out of TLC's reach. The clamps on a
  target are modelled where they matter, in `Excitation`.
* What a sink does with a sample, what a tool prints, what a panel draws.
* Argument and YAML parsing, port discovery, the baud rate taking effect.
* Several streams at once (each has its own lock and buffer) and several
  interfaces on one port, which the operating system excludes.
* The robot facade: connect and disconnect around an interface. It is a thin layer,
  but for the failing `start()` named above, which is planned.
* The torque, speed and time of a sweep or a trial: a joint goes on or stalls.
* Two dashboards, or a dashboard and a tool, on one file at the same moment: a tool
  reads and writes the file, or truncates it, in one step that is never inside a save.

## Plan

In order of importance:

1. *Done*: ServoBus, ApplyPlan and WidenLimit with their proofs; Telemetry with its
   proofs and that of its refinement of TelemetryLog; Wire with Exchange and its proofs;
   CalibrationBench with its proofs; Dashboard, Tuning, Recentre and Excitation in
   Workbench, with theirs.
2. ServoRobot over ServoBus: connect and disconnect with a `start()` that raises, a
   restart whose reads all fail.
3. Theorems: whether `LimpHolds` and `EnableIsHold` survive an expired join that no
   restart follows.
4. Two recorders on one interface, and every sink closed at the end.

Small state machines share a run through a module that composes them, where a run of
their own would say little.
