# Arachnopod: a verification of the bus, of CS, its master, and of PSS

Arachnopod is an eight-legged robot whose software is simulated in C++
(`src/software/sim`). The control system CS is the only master of a byte bus;
the other systems answer it. Today one device has software, the power supply
system PSS; TCS, TMS, MNS and LS are addresses that CS polls and nobody answers
from. This directory holds TLA+ models of that software, the TLC runs that check
them and TLAPS proofs about them. `PROJECT.json` lists, for every definition, the
source lines it stands for. `DE` below is `src/software/docs/DATA_EXCHANGE_RU.md`.

## 1. The system

### Parts, their state and their operations

| Part | Source (under `src/software/sim/sim/`) | State | Operations |
| --- | --- | --- | --- |
| Bus exchange | `systems/sub/src/i_sys_algo.cpp` | `bus_state_t`: phase, flag, block count, byte counter, busy flag, silence count, result, frame layout; `MSG_CMD(_BUF)`, `MSG_PRM(_BUF)` | one handler (`IRX_*`, `ITX_*`) per system per tick; `IBUS_TAKE_RESULT` |
| Mock bus | `systems/bus_mock/src/mock_bus.cpp` | pending and visible byte | write, read, tick |
| Tick barrier, threads | `sim_operator.cpp` | start and tick barrier, tick numbers, stop flag | start, step and arrive, completion ticks the bus, drop at shutdown, join |
| CS tick | `systems/cs/src/cs_support.cpp` | - | control, operating mode, nodes, scheduler, arming, exchange, in this order |
| CS scheduler | `cs_scheduler*.cpp` | 32 task slots, normal and priority queue, active slot, burst count, saved command windows, completions | add, ensure and cancel periodic, activate, finalize |
| Operator commands | `cs_control_bridge.cpp`, `cs_control_support.cpp` | - | exchange, cmd, stagecmd, sendcmd, enable, disable, focus, nominal |
| Operating mode | `cs_operating_mode*.cpp` | focus, enabled nodes, failure streaks, cooldowns | feedback of completions, cooldown tick, policy of a node |
| PSS software | `systems/pss/src/*.cpp` | `MSG_CMD`, `MSG_PRM`, its bus state | power commands, system commands, export of the model, answer |
| PSS model | `simulation/pss/src/pss_sim.cpp` | parameters under one mutex | a step every five ticks, in a thread of its own |
| Control console and file | `systems/control/src/*.cpp` | command queues, file offset, running flag | two threads read lines, parse, queue; CS pops |
| Header, blocks, quantization | `i_msg_header.cpp`, `i_msg_block.cpp`, `i_par.cpp`, `i_cmd.cpp`, the tables in `systems/base` | - | pure conversions |
| Model registry | `i_sim.cpp`, `i_isim_registry.cpp` | bindings to the parameters of a model | typed get and set under the mutex |

CS and PSS run in two threads that meet at a barrier once per tick; a byte
written in one tick is read in the next. The model thread and the console
threads run outside the barrier. The scheduler talks to the exchange through
`exchange_busy` and the stored result only, and to the operating mode through a
queue of completions and the policy it asks for on every tick.

### What is hard, and what makes each part right

* **Exchange.** Thread order inside a tick; payload bytes that look like frame
  bytes; listeners without a timeout; a timeout racing an answer; a master that
  checks neither sender nor flag of an answer. Right means: one talker at a
  time, listeners in step, success only for the request that was accepted,
  payload intact, bystanders untouched, every exchange ended by a result.
* **Scheduler.** Slots reused at once, tasks moved between queues while active,
  a buffer shared by all nodes, retries of saved windows. Right means: every
  task exactly once in the right place, periodic tasks as the policy of the
  tick says, no starvation, no command lost, doubled or sent to the wrong node.
* **Operating mode.** Two thresholds over one streak; cooldowns reset from three
  places; completions read one tick after they were written. Right means: a
  silent node is left alone after a bounded number of polls, never polled while
  it cools down, and polled again afterwards.
* **PSS.** Power off, stale telemetry, the commands kept meanwhile, a reset that
  races the model thread, the model thread between two commands. Right means:
  commands take effect in the order of the table, rails come up only by command,
  telemetry shows the device, off commands and limits are obeyed in the end.
* **Conversions.** A field has one place in the device and another in CS, travels as
  bytes and is rounded. Right means: what one side puts in the other gets out, the
  nearest value there is, and no neighbour changes.
* **Command file.** Appends during a read, lines written in parts, a file emptied and
  filled again, a running flag set by two threads. Right means: no line left out,
  each executed whole, commands for CS get to CS, quit ends both threads.
* **Barrier.** Start in any order, tick numbers that wrap, a stop seen by one system
  a tick before the other. Right means: every byte is read in the next tick, nobody
  is left waiting.

`PROJECT.json` lists the hazards with their lines and properties.

## 2. The modules

### BusExchange

One module for master and devices, because the code is one: `bus[s]` is
`bus_state_t` of system `s`, the handlers are actions of `s`. `stepped` is the
set of systems that have reached the tick barrier, so that a tick is any
interleaving of one step of each, then `Carry`, the completion function of the
barrier. A step contains all the code does in it: refresh of the device's buffers
(`FreshPrm`, `FreshCmd`), the handler, the silence count and the result
(`Taken`, `Outcome`).

| TLA+ | Code |
| --- | --- |
| `IrxSof`, `IrxHeaderFirst/Second`, `IrxData`, `IrxEof*` | `IRX_SOF`, `IRX_HEADER`, `IRX_DATA`, the exits of `IRX_EOF` |
| `RxTimeout`, `CountWait` | `IBUS_RX_EXCHANGE`; the code counts and then tests, the model tests the count before it is raised |
| `ItxSof`, `ItxHeaderFirst/Second`, `ItxData`, `ItxEof` | `ITX_*` |
| `StartCommand`, `StartData` | `arm_active_exchange` and `ITX_SOF` of the same step |
| `Merged`, `Committed` | `merge_nonzero_cmd_fields`, the commit of `MSG_PRM` |
| `Carry`, `Disturb` | `mock_bus_tick`; a line with faults (`LoseByte`, `DamageByte`) |
| `ModelStep` | the model thread, which may run at any moment |

Data: a byte is a member of a small set; header bytes are records, so that no
payload byte is a header byte (the two-byte checksum is not modelled), but
payload bytes may equal SOF and EOF. What the scheduler asks for is any request
to any node whenever the bus is free. The history variable `served` remembers
that the target has accepted the request under way. `Spec` is the bus of the
program, which loses nothing. `NoisySpec` adds a line that disturbs, that is loses or
damages, a bounded number of bytes: the program has no such line, the protocol has an
error table for it (DE, section 12). Data as in `Spec` has one limit there: two payload
bytes that a listener out of step takes for a header are any header, since a payload
byte stands for any value.

`clean` is a history variable too: true until the line disturbs a byte, and again from
the first exchange on that begins on a bus at rest (`AtRest`: every machine waits for a
SOF, no byte is on the way). While what a disturbed byte has broken is still going on
little holds: the findings show that success may be reported wrongly and a result may
be missing. `Recovered` and `PromiseRestored` say that none of it outlives a rest: not
the silence count, the address flag, the block count, the frame layout or the half-filled
buffers. How the bus comes to rest is another matter: a device that has lost its place
in a frame has no timeout and may wait in the middle of it until the next frame.

### Exchange

What the bus promises to those who use it, in six actions without a byte: `Begin` (the
scheduler asks), `Accept` (the target takes the request, with the commands sent merged
into those that wait), `Succeed` (the answer, with the telemetry asked for), `GiveUp`
(there is nobody), `Collect` (the scheduler takes the result), `Execute` (a device
executes its commands). `IsExchange` of `BusExchange` is the refinement: with
`request <- armed`, `accepted <- served`, `sent <- cmdBuf[CS]`, `commands <- msgCmd`,
`telemetry <- msgPrm` every run of `Spec` is one of `Exchange`. What `CsScheduler` does
with an exchange is `Begin` (`Arm`), a result that it collects, and nothing between.

### CsScheduler

The scheduler with everything that feeds it in a CS tick, in the order of
`ICSBASEALG`: the phase `control` takes any number of operator commands, `nodes`
applies the policy node by node, `schedule` finalizes or activates and arms,
`exchange` lets the bus work. The exchange is abstract: it stays busy for some
ticks and ends with any result, as in `Exchange`. `BusExchange` checks on the bus of the program
that it ends and that the scheduler has its result (`ExchangeEnds`); the finding below
shows where a damaged line breaks the second.

| TLA+ | Code |
| --- | --- |
| `AddTask`, `Enqueue`, `Dequeue`, `FirstFree` | `add_task`, `queue_task_slot`, `remove_slot_from_queues`, `alloc_task_slot` |
| `AddPeriodic`, `KeepPeriodic`, `CancelPeriodic`, `StayOff` | `ensure_periodic_exchange` with `update_task_queue_class`, `cancel_periodic_exchange` |
| `PriorityTurn`, `StartPriority`, `StartNormal`, `StartNothing` | `pop_next_task_slot`, `activate_task` |
| `Arm` | `arm_active_exchange`, `prepare_command_exchange`, `merge_command_window_to_buffer` |
| `Finalize` | `finalize_active_task` |

Data: a command window is a function from fields to small values, zero meaning
no command. `last`, `lastStaged`, `open` and `bypassed` are history variables:
the last command given for a field, and the same for commands only staged; the
commands issued and not yet acknowledged; how often a waiting normal task was
passed. `pop_next_task_slot` skips queue entries that may not run; the model has
no step for such an entry, and the deadlock check with `QueuesSound` shows there
is none. The operator never gives a second time a value that is still open for
the same field (the guard of `OperatorCmd` and `OperatorStage`), so that a value
identifies a command.

### CsOperatingMode and CsMaster

`CsOperatingMode` is the state of the operating mode and its operations:
`SetFocus`, `ClearFocus`, `Enable`, `Disable` (the operator) and `ModeStep`
(`operating_mode::step`: take the waiting completion, then count every cooldown
down). Alone (`ModeSpec`) it takes any completion in any tick.

`CsMaster` extends it with the scheduler, as the instance `Scheduler` of
`CsScheduler` in which `policy` is what `PolicyFor` answers, and gives the tick
the order of `ICSALG`: commands, `StepMode`, `EndControl`, the nodes, the
scheduler, the exchange. `completions` is `G_COMPLETIONS`, `modeDone` the point of
the tick between `ICSHIALG` and `ICSNODES`. `Finish` is `exchange_control` with the
completion it pushes. `polls` is a history variable: polls of a node since it
answered, was enabled or focused, or ended a cooldown. `Answering` names nodes that
always answer; of the others any result may come, which covers a node without
software, one that is out of order for a while and a bad line.

`IsScheduler` is the refinement between the two: CS with its operating mode is a
behaviour of `CsScheduler`, in which the policy may change in any way at any
`control` phase (`PolicyChange`). What `CsScheduler` is shown to do without an
operating mode it therefore does with it. In the same way it is a behaviour of `ModeSpec`
(theorem `RefinesMode`): a tick of it is a `ModeStep` with the completion that waits, an
operator's command to the operating mode, or leaves the mode alone.

### MessageCodec and ModelRegistry

Pure operators, no state. `MessageCodec` translates the header word
(`MakeHeader`, `ParseHeader`, `CalcParity`), bit fields, bytes and copies of blocks
(`ReadValue`, `WriteValue`, `ReadByte`, `WriteByte`, `CopyBlocks`), quantization
(`PrepareRaw` with the candidates of every algorithm, `DecodeProcessed`), the
generated tables (`ParamTab`, `CommTab`: type, bit offset, block in the device,
block in CS; only the commands for the fans have a constant other than zero), and what
is built on them (`IMSGGET`, `IMSGSET`, `ICMDACT`, `ICMDCLEAR`, `Merged`). `ModelRegistry` adds the typed access to the parameters of a model
(`ISIMSETI32`, `ISIMSETF32`, `FindBinding`, `ClampKind`). Floating-point values are
integers that count halves, so that rounding has its ties; the raw fields keep their
widths of 1, 8 and 16 bits and wrap as the C++ does.

### PssSystem

The two threads of PSS over one record of model parameters. `pc` is the place of the
software in its step:

| TLA+ | Code |
| --- | --- |
| `Start` | `runtime_step`, `is_power_on` |
| `ExecuteCommand`, `StartInit`, `InitParam`, `EndInit` | `execute_commands`, `init_defaults`, which takes no lock |
| `StartExport`, `ExportParam`, `EndExport` | `ISYS_EXPORT_MODEL_PARAMS`, one `ISIMGET` per parameter |
| `Exchange` | `ISYSALG`: a frame of commands may arrive, merged field by field |
| `ExecutePower`, `EndPower`, `CutRail`, `EndCut` | `apply_power_commands` |
| `SimInit`, `SimStep`, `SimLock`, `SimWrite` | `pss_sim::init`, `pss_sim::step` |

A step of the model holds the mutex and is one action, unless `CPSSINIT` is under way:
that one writes without the mutex, a data race, so `SimWrite` lets the step have read
each raced parameter before or after the reset and lets either write come last.
`asked`, `moved` and `fresh` are history variables. What is left out (the clock,
voltages, temperatures, charge, the other limits) does not feed back into the rails,
the current limit or the commands.

### SimOperator

`main` with the threads it starts (`Spawn`), the time limit (`GuardEnds`), the signal,
and the join; the loops of CS and PSS as `Initialise`, `StartTogether`, `Read`, `Write`,
`Arrive`, `Leave`; the other threads as `Loop`. A step of a system reads the bus once
and writes at most once, with the tick number of the system; `Opens` is the completion
of the barrier with `mock_bus_tick` in it. `sent` and `carried` are history: the last
byte written in this tick and in the one before. This module is why `BusExchange` may
carry a byte from tick to tick without numbers.

### ControlInput

The console thread, the thread that follows the command file, `start()` that starts
both, and the queues that CS pops. The file is a sequence of words and ends of line;
`WriteLine` may write a line in two parts, `Empty` empties the file. `Poll` is the check
of the size, `ReadLine` one `getline` with what is done to the line, on what the file
holds at that moment. `worker_started` and `worker_stopped` are two atomic steps each,
as in the code, and so is the end of `start()` (`CheckWorkers`, `ClearRunning`); steps of
one thread are seen by the other in their order. History:
`count` (how often each word was read), `late` (written during a reading), `split` and
`cut` (lines written, and executed, in parts), `taken`, and `emptied`, which is true
from the emptying of the file until the listener notices. `CsScheduler` and
`CsOperatingMode` take it from there: their operator actions are the commands that `Pop`
hands over.

## 3. What TLC checks

| Run | Instance and bounds | Shows |
| --- | --- | --- |
| `BusFaultFree` | PSS and TCS answer, MNS is absent; command windows of 2 and 1 blocks; payload SOF and EOF; fair | `InStep`, `SuccessHonest`, `FailureHonest`, `CommandIntact`, `PayloadInPlace`, `ExchangeEnds`, `IsExchange`, `TypeOK` |
| `BusDamaged` | PSS answers, TCS is absent; windows of 2 blocks both ways; one byte lost or damaged anywhere, timeout shorter than a response; fair | `Recovered`, `PromiseRestored`, `BusReleased` |
| `SchedLive` | one node with two fields whose policy changes at any tick, 2 slots, commands and staged commands, any failures; fair | `CmdKept`, `NoStaleCommand`, `CommandStarted`, `QueuesSound`, `NormalNotBypassed`, `TypeOK` |
| `Master` | TCS and PSS, TCS may fail at any time, PSS always answers; any focus, enable and disable; cooldowns of 2 and 3 ticks; 3 slots; fair | `IsScheduler`, `PolledAgain`, `StreakBelow`, `TypeOK` |
| `MasterBusy` | both nodes may fail at any time, operator exchanges and commands to TCS, 2 slots so that the table fills up | `PolicyFollowed`, `SilentNodeLimited`, `NoPollInCooldown` |
| `Pss` | two rails, six commands alone and in conflicting pairs, in any tick; a limit below the sum of the loads; fair | `CommandsTakeEffect`, `RailsUpByCommand`, `TelemetryFresh`, `OffUnseen`, `SwitchedOff`, `CurrentSettles`, `TypeOK`; for the values of the states and for samples of all others `QuantizedNearest`, `TelemetryDelivered`, `CommandDelivered`, `StoredNearest` |
| `Operator` | CS, PSS and one model, tick numbers modulo 4, with and without a time limit; fair | `ByteNextTick`, `Stops` |
| `Control` | either input or both, two lines in the file (one perhaps from before), written at once or in parts, emptied once, a line typed; fair | `LinesRead`, `LinesTaken`, `QuitEnds` |
| `BusTornSnapshot`, `BusOrphan`, `BusImpostor`, `SchedStaged` | | the findings below |

**Bounds.** Windows of one and two blocks have a first, a middle and a last byte
and differ between nodes, which is what the window arithmetic can get wrong. Three
nodes give the three roles a frame has: target, bystander and absent. The timeout
is 5 against frames of 6 bytes and more (3 in `BusDamaged`), so that, as in the
program (10 ticks against 34 bytes of a PSS response), a master that did not restart
its count at every byte would give up in the middle of a response. One disturbed byte is
enough in `BusDamaged`: every place of every frame is tried, and the theorems of section
4 set no limit to their number (nor does that on `TypeOK` of a damaged line). The scheduler has 2 or 3 slots instead of 32, a table that fills up, and a burst limit of 1 or 2 instead
of 3, which are reached many times over; the theorems of section 4 hold for every
size. That commands of one node do not go to another with a wider window is `NothingStale`
of section 4, for any nodes and windows. The cooldowns of `CsMaster` are short, but longer than the one tick between the
end of an exchange and the start of the next, which is the window they protect; the
theorems on the operating mode hold for every threshold and cooldown, those of
the program (3 and 1, 96 and 160) among them. The history counters `bypassed` (up to
the burst limit plus one) and `burst` (up to the limit, past which the code only
compares it) are capped, and so is `streak`, at 255 as in the code.

`Pss` has two of the four rails, since no code treats two rails differently, and both
loads together exceed the limit. The samples for messages go over every row of both
tables with values at, below and above the ends of the 1, 8 and 16-bit fields, and over
every algorithm with coefficients of both signs. `Operator` wraps the tick number every
four ticks; the theorem of section 4 holds for 2^32. In `Control`, `MaxWrites`,
`MaxEmptied` and `MaxTyped` bound the environment: two lines are enough for a line that
is read whole before another comes in parts during the reading, for one that is read
twice, and for a file filled again to more or less than its old size.

**Fairness.** `BusExchange`: every system steps again and again and the barrier
completes (`WF`): the threads of CS and PSS block nowhere but at the barrier
(`sim_operator.cpp:134-164`), and `Stops` of `SimOperator` shows that it opens again
and again. Nothing is assumed of the model thread nor of the line. `CsScheduler`: CS is
one thread that goes through its phases (`WF`), and an exchange that is under way ends
(`SF`, because the step competes with `ExchangeContinues`), which `ExchangeEnds` shows
of the bus. `CsMaster` has the same, and so `StepMode` in every tick. No fairness makes
an operator type, and none makes a node answer: that PSS answers in `Master` is a
constant (`Answering`), and TCS beside it may be silent for ever. `PssSystem`,
`SimOperator`, `ControlInput`: every thread runs (`WF` of its steps) and the sleep of the
time limit ends; no frame, no signal, no writer and no typist has to come.

### Findings

1. **A response mixes two states of the device** (`BusTornSnapshot`,
   `pss_support.cpp:312`). `IPRMUPD` copies `MSG_PRM` over `MSG_PRM_BUF` on every
   tick, also while the buffer is being sent. DE 10.3 gives protection against
   exactly this as the reason to have the buffer.
2. **An answer with a damaged header hangs CS** (`BusOrphan`,
   `i_sys_algo.cpp:606`). It counts as addressed to somebody else; at its EOF the
   master goes idle without a result and the scheduler waits for one for ever.
   DE 12 lists a bad header among the errors to be handled.
3. **A bystander answers for an absent target** (`BusImpostor`, `i_sys_algo.cpp:276`).
   CS sends a command to TCS, which is not there, and one header byte is damaged. PSS finds
   a parity error and takes the frame to be empty, so the first payload byte is a bad EOF
   and it looks for SOF within the payload; there it finds a frame to itself, which the
   EOF of CS completes. It answers, and CS, which checks neither sender nor flag, reports
   success. DE 11.5 has a bystander skip the payload to keep its place, and DE 12.2 has a
   bad header never lead to a commit and a command without a proper answer count as not
   transmitted.
4. **A staged command is wiped** (`SchedStaged`,
   `cs_scheduler_support.cpp:492`). The window in `MSG_CMD` is cleared when it is
   copied for transmission and again when the exchange ends; what was staged in
   between is lost, against DE 20.3.

### Observations

What the models show and no document denies, or what the properties had to be worded
around:

* An operator who moves the focus to and fro in every tick can keep a node from being
  polled for ever, because each move puts its task at the end of a queue;
  `PolledAgain` therefore speaks of a focus that stays.
* On a damaged line a response that lost its SOF is still under way when CS gives up
  and starts to talk; `BusDamaged` shows that CS gets the bus back and that nothing of it
  outlives a rest of the bus. Whether the bus comes to rest depends on what is sent: a
  listener with a wrong block count eats the next frames until its count is full. One parity bit finds damage of
  an odd number of bits only (`CommandDelivered`).
* A command whose value quantizes to zero does not exist for the device: PSSMAXA cannot
  be commanded to 0, and a fan power of 10 or less is no command (`CommandDelivered`).
* Commands are executed at least once: if only the acknowledgement is lost they are
  sent again with the newer ones, and since OFF stands after ON in the table an old OFF
  ends a rail that was switched on since (`CommandsTakeEffect`).
* CS never sees that it has switched PSS off: without power PSS answers with the
  telemetry of the last step that had it (`OffUnseen`).
* `pss_sim::init` runs when its thread starts and undoes commands executed before;
  `CPSSINIT` writes without the mutex, past the typed access of the registry, and a
  step of the model under way may undo part of the reset.
* The export takes the lock once per parameter, so a step of the model may fall in
  between; `TelemetryFresh` therefore speaks of steps in which the model stood still.
* A line written to the command file while the listener reads is executed twice, and a
  line caught half-written is executed in two halves (`LinesRead` says just how far this
  goes). A file emptied and filled again to its old size is not known to be new.
* `start()` looks at the number of workers and clears the running flag in two steps; a
  worker that sets the flag in between runs on with the flag false. Only the end is
  right (`QuitEnds`). Nothing reads the flag.
* Lines for PSS, TCS and so on are queued and never popped: only CS pops.
* A run with a time limit that is stopped by a signal ends when the limit is over.

## 4. What is proved

Every theorem holds for all values of the constants that satisfy the assumptions of the
module, so for the sizes of the program as well as for those of the runs.

| Theorem | States |
| --- | --- |
| `BusExchangeProofs` | |
| `TypeCorrect`, `NoisyTypeCorrect` | `Spec => []TypeOK`, `NoisySpec => []TypeOK` |
| `FramesInStep` | `Spec => []InStep` |
| `SuccessIsHonest`, `FailureIsHonest` | `Spec => []SuccessHonest`, `Spec => []FailureHonest` |
| `NoExchangeOrphaned` | `Spec => []NoOrphan` |
| `CommandArrives` | `Spec => []CommandIntact` |
| `PayloadPlaced` | `Spec => PayloadInPlace` |
| `RefinesExchange` | `Spec => IsExchange` |
| `ExchangesRecover`, `PromiseIsRestored` | `NoisySpec => []Recovered`, `NoisySpec => PromiseRestored` |
| `CsSchedulerProofs` | |
| `SchedTypeCorrect`, `QueuesCorrect` | `Spec => []TypeOK`, `Spec => []QueuesSound` |
| `BurstCorrect` | `Spec => []NormalNotBypassed` |
| `PolicyCorrect` | `Spec => []PolicyFollowed` |
| `CsCommandProofs` | |
| `CommandsKept`, `NothingStale` | `Spec => []CmdKept`, `Spec => []NoStaleCommand` |
| `CsMasterProofs` | |
| `PenaltiesBounded`, `PatienceLeft` | `ModeSpec => []ModeTypeOK`, `ModeSpec => []StreakBelow` |
| `RefinesScheduler`, `RefinesMode` | `Spec => IsScheduler`, `Spec => ModeSpec` |
| `MasterTypeCorrect`, `MasterPolicy` | `Spec => []TypeOK`, `Spec => []PolicyFollowed` |
| `SilentLimited` | `Spec => []SilentNodeLimited` |
| `NotPolledInCooldown` | `Spec => NoPollInCooldown` |
| `PssSystemProofs` | |
| `PssTypeCorrect`, `CommandsObeyed` | `Spec => []TypeOK`, `Spec => []CommandsTakeEffect` |
| `TelemetryIsFresh` | `Spec => []TelemetryFresh` |
| `RailsByCommand`, `OffNotSeen` | `Spec => RailsUpByCommand`, `Spec => OffUnseen` |
| `NearestOnWire`, `StoredIsNearest` | `Spec => []QuantizedNearest`, `Spec => []StoredNearest` |
| `TelemetryIsDelivered` | `Spec => []TelemetryDelivered` |
| `CommandIsDelivered` | `Spec => []CommandDelivered` |
| `MessageCodecProofs` | |
| `NearestRaw` | quantization finds the nearest value of the field |
| `IdFindsItsOwn`, `NearestStored` | the registry finds the parameter, and keeps the nearest value |
| `ParameterTravels` | a parameter arrives in the window of its node, and disturbs no other |
| `CommandTravels` | commands arrive, merged with what waits, and disturb no other |
| `HeaderParses` | a header is parsed as it was made |
| `SimOperatorProofs` | |
| `BarrierOrder`, `DeliveredNextTick` | `Spec => []BarrierInv`, `Spec => []ByteNextTick` |
| `ControlInputProofs` | |
| `LinesAllRead` | `Spec => []LinesRead` |
| `FlagIsSettled` | `Spec => []FlagSettled`, the safety half of `QuitEnds` |

### The bus

`TypeOK` is more than types: the byte counter of a phase is within the blocks the
header announced (`SubInRange`), block counts are within the largest frame, and
the silence count is at most the timeout. `SubInRange` is the strengthening that
makes the invariant inductive: without it the counter of `IrxData` and `ItxData`
could grow past the buffer. One lemma per action shows that the bus records keep
their shape (`BusUpdateType`), then that memory, environment and line do.
`ConstantsAssumption` asks that windows have at least one block and fit the largest
frame, that SOF differs from EOF, and that header bytes are told from control bytes.

Nothing else about the bus is inductive, because each property speaks of one moment of
a frame and rests on where everybody is in it. `LockStep` says that: either the bus is
`Quiet` (nobody transmits; an exchange under way is one that has its result or whose
target does not exist), or one frame is under way (`InFrame(t, d, f)`: talker `t`, frame
`f`, `d` bytes delivered), and then

* `Roles`: the talker is CS with the frame it was asked for, or the target with the
  answer to it;
* `Machines`: the talker has written `d` bytes or, after its step of this tick, `d + 1`;
  every other system has read `d`, or `d - 1` before its step, and knows length, flag
  and address once it has read them;
* `Line`: the byte to be read and the byte just written are those of the frame at these
  places, a command byte that of the buffer of CS;
* `Master`: the silence CS has counted is 2 at most, and it is busy until it has read
  the end of the answer;
* `Accepted`: the target has accepted exactly when it has read the end of the request,
  and of the payload it holds what it has read.

`Hearing` and `Telling` carry a listener and a talker over one byte, whatever its value,
which is why payload that looks like SOF or EOF does no harm; `CarryByte` moves the
frame on, `CarryEnd` turns it round (the frame of the target begins as the one of CS
ends) or leaves the bus quiet. `TimeoutAssumption` says the timeout is above 2 (10 in the
program): with less CS would give up before an answer can have begun.
`CommandIntact` is carried along, since `LockStep` no longer says it once the answer has
begun. `NoOrphan`, which run `BusOrphan` shows violated on a line that damages one byte,
is thus true of the bus of the program.

`RefinesExchange` puts it together. `Exchange` has no bytes: `Begin`, `Accept`, `Succeed`
or `GiveUp`, `Collect`, and `Execute` of the devices. Under the mapping `request <- armed`,
`accepted <- served`, `sent <- cmdBuf[CS]`, `commands <- msgCmd`, `telemetry <- msgPrm`,
`IrxEofRequest` of the target is `Accept` (with the very commands CS sent, by
`CommandIntact`), `IrxEofResponse` of CS is `Succeed`, and every other step is one of the
remaining actions or nothing.

After a disturbance `TypeOK` is all that is left, and the proof has to find lock step
again. `StepFromRest` does: when an exchange begins on a bus at rest, what is left of the
earlier ones is overwritten by that step (`StartCommand`, `StartData`) or is not looked
at, because a machine that waits for a SOF uses nothing of its state, so the bus is
`Quiet` with the first byte of CS just written, and `LockStep` holds whatever the buffers
hold. `CleanInv` (`clean` implies the invariant of the bus) is then inductive: a
disturbance ends `clean`, `BeginsStep` establishes the invariant, and every other step
keeps it as on the bus of the program. From it follow `ExchangesRecover`
(`HonestyOfBus`) and, with the step lemmas of the refinement, `PromiseIsRestored`.
Neither asks for a bound on what the line disturbs.

### The operating mode

Neither `ModeTypeOK` nor `StreakBelow` is inductive alone: the first bounds streak plus
cooldown, and when a cooldown starts that bound rests on the streak having been below the
patient threshold; conversely the end of a cooldown must clear the streak. `Penalties`,
the conjunction, is inductive. Per node `StepPenalties` splits on what the
completion says (an answer, nothing, a failure that starts a cooldown, one that
does not). The assumption beyond types is that the threshold for a bad EOF is
not above the one for silence, as in the program (1 and 3).

### The scheduler

The inductive invariant `IInv` has four parts. `TablesSound` is `QueuesSound` told
by slot: both queues are sequences without repetition, and a slot waits in one of
them exactly when its task says so. The lemmas on queues (`AppendQueue`,
`TailQueue`, `RemoveQueue`) turn each operation into one on sets; without them the
removal of one entry could leave a second one behind. `MovedSound` then says once
what a step that moves one slot has to provide; starting, finishing, cancelling and
reclassifying a task are instances of it. `BurstSound` bounds the tasks that passed a
normal one by `burst`, which is what the code counts. `TickSound` has the link from the
bus to the table, that the bus is busy only for an active task, and `WindowsSound` needs
it: the windows written after an exchange are those of the node of that task.
`SchedulerAssumption` asks that every node has a step in the tick, that no window
is wider than the buffer, and that there are slots and a burst.

`PolicyFollowed` speaks of the moment when all nodes have had their step. `PolicyInv`
says how far the tick has come: a node whose step is over follows the policy, and it may
lack its task only if the table was full, apart from the slots that nodes switched off
have freed since.

`CsCommandProofs` follows the commands with `CmdInv`. `TasksSound`: a command task is in
the normal queue and is never cancelled. `LastHeld` says where the last command of a
field is: in a task, in the buffer on its way, or in the saved window. What makes it
inductive is the order of the queue (`Ahead`): of two tasks for one field the one given
later waits behind, so that the last to be merged into a window is the last that was
given. `OpenSound`: whatever waits, is on its way or is saved is issued and not accepted,
and the same value is not in two of these places, so that an acknowledgement settles all
there is of it.

### CS as a whole

`CsMasterProofs` does not prove the scheduler again. `RefinesScheduler` shows that every
step of `CsMaster` is a step of `CsScheduler` with the policy the operating mode computes
(a change of that policy is `PolicyChange`), `RefinesMode` that it is a step of the
operating mode with some completion; the invariants of both come with them. What
neither knows is how polls and completions are joined. `PollsSound` adds the poll that
is under way, or whose completion waits, to the streak: together they stay within the
patience. `CompletionsSound` says that a completion waits for one tick at most and is of
a task that is over, so that no poll can begin between a failure and the cooldown it
starts. This is where a cooldown of one tick would not do (`MasterAssumption`).

### PSS

Between the start of a step and the answer the software is somewhere in its tables, the
model may move, and `CPSSINIT` may race with it, so that `CommandsTakeEffect` and
`TelemetryFresh`, which speak of the answer, need all of `IInv`. `QueueSound`: within
a step commands are only taken away, `CPSSINIT` before all others. `Obeyed`: what the
commands executed so far ask of the model, unless it has moved or another command is
after them in the table. `RailsDown`: rails without main power. `Exporting`: the
parameters already exported equal those of the model, unless it has moved. `RaceSound`:
the model thread races only while the defaults of this step are being written, and has
seen nothing but proper values. `RailsAssumption` asks that the table of rails names every rail,
that loads and commands are natural numbers, and that what is answered are parameters.
`OffNotSeen` reads the reported main power through the message, so its proof computes
that a switch survives its quantization.

### The conversions

`MessageCodecProofs` has no state: its theorems hold for every item with any
coefficients, every table sorted by id, every type, every value and every content of the
buffers a message passes. The four properties of `PssSystem` about values go through
samples and through what the states hold. `NoneFar`, `NoneMisplaced`, `NoneWrong`,
`NoneMissed` and `NoneLost` answer for the samples; for the states PSS needs two
invariants: its values fit their fields (`Fitting`), and what its message holds is what
raw values stand for (`Quantized`), so that a second quantization changes nothing
(`ExactRaw`).

`prepare_raw_value` looks at three candidates, six for squares. `LinearBest` says why
the value rounded down and the one rounded up are enough, also after both have been
clamped to the field; `RootBest` says it of the two numbers around a square root and
their negatives. The root exists as the predecessor of the least number whose square is
too large (`RootExists`), so nothing is asked of how it is computed. `Wires` says that
what fits a field of 1, 8 or 16 bits survives the encoding, signed or not. For the
current `Fitting` holds whatever the loads are, because it stays within the limit, and the
limit is never 0, for a command of value 0 is none. `FieldsAssumption` asks that there are
rows for the rails, that a command of a frame fits its field, one bit for a switch and
eight for a number, and that the default of the limit fits one.

A message is followed in three layers. `PartsOf` takes a word apart into what is below
a field, the field and what is above, and `FieldWritten` says that writing the field
leaves the other two; `ValueWritten` says it of all the blocks of a message, and `BytesCarried`
that the bytes of the bus fill the blocks of the receiver whatever was in them.
`RowsOrdered` is why no two rows of a table share a bit, neither in the message of the
device nor in that of CS: each row begins where the one before it ended, or in a later
block. `Windows` adds that the windows of the devices in the message of CS do not meet,
so that a copied window disturbs no other. `ParameterTravels` and `FieldsMerged` put
these together.

The loops over bytes and rows are recursive functions. The prover has no induction rule
that could be used, but it has well-founded sets: a set of numbers that is not empty has a
least one (`Least`), so that there is no least step at which a loop goes wrong
(`Induction`, `Loop`). The parity of a header is the number of its bits that are set,
which a flipped bit changes by one (`ParityNotices`).

### The barrier

`ByteNextTick` says nothing of a system that is not in its step and so is not
inductive. `BarrierInv` says where everybody is: a system that has not finished its
step has the tick number of the bus and is missing at the barrier, one that has has the
next number; what is pending was written in this tick (`BusPhase`). So the barrier can
open only when all are in the next tick, and the byte it delivers is the one of the tick
before. `Unstarted` is needed because a thread that main starts begins with the first
tick number: it must not have begun before. `OperatorAssumption` asks that no thread is
started twice and that the tick number has more than two values.

### The command file

`LinesRead` speaks of what lies before the offset, but the listener may read far beyond
the size it has taken, and moves the offset only when it has met the end of the file.
`ControlInv` therefore follows every position. `Followed(c, z)`, with the listener at
`c` and `z` where it will begin the next time: what is before both is `Seen`, at most
once unless it is `late`; what is before one of them has been read at most `Once`, and
then it is late, for it was written after the size was taken; what is before neither has
not been read. `WriterSound` says that the file ends with a whole line or with the first
part of one whose rest is to come, and `Joined(c)` that a line going on over position `c`
was written in parts; it holds of offset, cursor and size. These two give `CutIsSplit`: a
line that is not read whole is one of those. `GrowReader` shows that writing disturbs
none of this at whatever moment it happens, `ReadOn` that one `getline` keeps it, whether
it finds the end of the line or that of the file. After an emptying none of it holds
until `Poll` has seen a shorter file, so all of it is under `~emptied`.
`LinesAssumption` asks that no word is the end of a line, that one of the lines is the
longest and that the file may be written to; it says nothing of what the lines mean.

`FlagIsSettled` is about the running flag, which three threads set and clear. `FlagInv`
counts the workers that have started and not stopped, and says that a set flag has a
worker behind it that is one of those or is about to clear it: the worker that brings
the count to zero is the last to store, and `start()` stores nothing but false.

### Only model-checked

* Liveness (`ExchangeEnds`, `BusReleased`, `CommandStarted`, `PolledAgain`, `SwitchedOff`,
  `CurrentSettles`, `Stops`, `LinesTaken`, and that all end in `QuitEnds`): the prover has
  no reasoning about fairness.

All safety properties of the passing runs are stated by theorems.

## 5. Plan

1. Of `ControlInput`: that a command waits in a queue or has been taken once its line is
   read, the safety half of `LinesTaken`, as an invariant of its own if it says more than
   the run already shows.

## 6. Not modelled

* Bypass mode of the bus and replaceable header hooks: no system of the program uses
  them. The command executor `i_cmd_exec.cpp`, `cancel_task`, `cancel_target`,
  `control::stop`, `control::clear` and `control::is_running`: nothing calls them.
* Of PSS: the clock, voltages, temperatures, power and charge, the limits other than
  that of the total current, a failing `ISIMSET`: arithmetic and errors that the rest of
  the state does not depend on.
* Of the conversions: floating-point values that are not multiples of a half, and the
  message widths no table uses.
* The period of the ticks and the sleep of the threads: the models are about order, not
  about time.
* Logging, the table generator `bd_parser.py` and the viewer `watcher.py` (its appending
  to the command file is `WriteLine`).
