# TLA+ specification of the accumulator management system firmware

The firmware in `src/` (Team Swinburne 2016, for an LPC1768 with mbed-os / RTX)
decides when the two high-voltage contactors of a race car's accumulator are
closed. This directory holds TLA+ models of it, the TLC configurations that check
them, and theorems about them that TLAPS proves.

Paths below are relative to `src/`. `PROJECT.json` maps every definition to the
lines it stands for.

## 1. The system

### 1.1 Components

| Component (files) | State it keeps | Operations | What makes it correct |
|---|---|---|---|
| **StateController** (`controller/StateController.*`) | `current_state` (10 values), `tractive_power_enable_bit`, `precharge_timer`, the signal of its thread; two mutexes | `push_tractive_enable`, `notify_event`, `transition_state`, `precharge_timer_fire`, the step of its thread | No coil is driven outside precharge and run; closing only for a driver who asks, onto a healthy, precharged bus; errors latch until the driver withdraws; withdrawal and faults open the contactors |
| **ContactorController** (`controller/ContactorController.*`) | `current_state` (bit mask of contactors), two coil outputs, two `fireonce` flags and error timers; a mutex | `push_state`, `initialise`, the two toggle callbacks | Contactors switch only in the order open → precharge → run; a refused request leaves them open |
| **StackPlausibility**, **InsulationMonitoringDevice**, **BMSController** (`controller/`) | digital inputs; BMSController drives `performConversions` and `amsOk` | status functions, `set_conversions_enable`, the AMS-OK cycle | Polarity of every input; both outputs follow, the one the last command, the other the BMS |
| **CANTransceiver** (`net/`) | mail pool of 32 blocks, mailbox, `next_message`; a mutex around `driver.write` | `rx_interrupt`, `procedure` / `dispatch_message`, `write`, error counters | Blocks are never leaked, shared or freed twice; commands act once each, in order, unchanged; no pending frame is overwritten; a write always returns |
| **StatusDispatcher**, **ContactorInfoDispatcher**, **HeartbeatDispatcher** with the message services (`dispatcher/`, `service/`) | a 16-bit heartbeat counter | a cyclic `procedure` each: sample and send | A message is wrong only about what changes while it is put together; what lasts gets known; lost heartbeats can be counted |
| **Task framework and boot** (`main.cpp`, `core/`) | one static `Thread` per component | `create`: `initialise()`, `start`, `set_priority` | No component is used before it is initialised |
| **RTX timers** (`mbed-os/rtos/rtx`, vendored) | the list of running timers, `os_psq`, `osTimerMessageQ`, the timer thread | create, start, stop, delete, tick, `rt_mbx_psh`, the thread | A started timer expires once at its time; callbacks in the order of the expiries |
| **RTX mutexes and lists** (same) | ready list, waiting lists, priorities, owners and levels | wait, release, time-outs, the round robin | Mutual exclusion, priority inheritance, order of service |
| **CAN driver and HAL** (`mbed-os/drivers/CAN.cpp`, `can_api.c`, vendored) | receive and transmit buffers, a mutex | read, write, error counters | As the transceiver relies on them |

### 1.2 How they interact

```
 CAN bus --> rx_interrupt --mail--> CAN thread --push_tractive_enable--> StateController
    ^                                   |                                   ^   |   ^
    |                                   +--set_conversions_enable--> BMS    |   |   |
    |                                                                       |   |   |
    |  inputs (BMS, IMD, disconnects, contactor power, precharge) --status()+   |   |
    |  SysTick --> os_psq --> osTimerMessageQ --> timer thread --precharge_timer_fire
    |                                   |                                   push_state
    |                                   +--toggle_cb--> ContactorController <---+
    |                                                        |  notify_event(sceContactorSequenceError)
    |                                                        +--> StateController (nested, same thread)
    +-- transmit buffers <-- write <-- three dispatchers, which read all of the above
```

- `transition_state` calls `push_state`; a refused `push_state` calls back
  `notify_event`, which may call `transition_state` again, all in one thread that
  holds both recursive mutexes.
- The enable bit is written under `tractive_power_enable_lock`, announced under
  `current_state_lock`, and read by the state machine under the latter only.
- `main()` starts the CAN thread, then the StateController thread, the BMSController, and
  only as the fifth step `ContactorController::initialise`.
- The dispatchers read everything they send without a lock, and share the
  transmit buffers under two nested mutexes.

### 1.3 What is hard

Interleavings of the contexts (SysTick, receive interrupt, timer thread,
StateController thread, BMS thread, CAN thread, three dispatchers) plus `main()`; nested callbacks that
change the state a caller is about to overwrite; callbacks of timers that have been stopped or
restarted since; the boot order; pool, mailbox, transmit buffers and timer queue at their limit; time-outs that end a wait in
the middle of a hand-over; lock-free snapshots; liveness of the shut-down
path. `PROJECT.json` lists each hazard with its line, and the properties that would
show it going wrong. Every hazard has one.

## 2. The modules

| Module | Models | Kind |
|---|---|---|
| `ContactorController` | `push_state`, `initialise`, toggle callbacks | operators on the controller record |
| `SafetyInputs` | the eight inputs, the status functions with their polarity, and their changes | variable `pins` |
| `TractiveStates` | the states of the state machine | constants |
| `StateController` | the state machine, the driver's command, the timers, the boot | variables, actions, properties; EXTENDS the three above |
| `TractiveSystem` | what the rest of the car sees of it, without timers, inputs, locks and nested calls | abstract specification |
| `EnableCycle` | `StateController` with an observer of the driver's commands | history variable |
| `PrechargeTiming` | `StateController` with ticks and thread priorities | EXTENDS it |
| `CANTransceiver` | receive interrupt, mail pool, mailbox, CAN thread | variables, actions, properties |
| `CommandChannel` | what the receive path promises its callees: an in-order lossy channel | abstract specification |
| `CANTransmit` | `write`, error counters, `can_write` under two locks | variables, actions, properties |
| `TransmitBuffers` | what a sender sees: a buffer or a refusal | abstract specification |
| `Dispatchers` | the three reporting tasks, over `TransmitBuffers`, and a listener | variables, actions, properties |
| `AMS` | `CommandChannel` + `StateController` + BMSController | composition |
| `RTXTimers` | timer list, expiries, message queue, timer thread | variables, actions, properties |
| `TimerService` | what a user of `RtosTimer` sees | abstract specification |
| `RTXMutex` | mutexes, priority inheritance, ready and waiting lists, time-outs | variables, actions, properties |
| `MutexService` | what a caller of `osMutexWait` and `osMutexRelease` sees | abstract specification |
| `StateControllerProofs`, `TractiveProofs`, `CANTransceiverProofs`, `CANTransmitProofs`, `DispatchersProofs`, `RTXTimersProofs`, `RTXMutexProofs` | | theorems, section 5 |
| `ListLemmas` | | lemmas about insertion into and removal from a list, and minima |
| `MC...` | constants for TLC, and the properties of the violation runs | |

How they fit together: each of the detailed modules implements the abstract one below
it, and the composed modules are built on the abstract ones, not on their
implementations.

```
  AMS = StateController + CommandChannel + BMSController       Dispatchers
            |                   ^                                   |
  TractiveSystem         CANTransceiver             TransmitBuffers <-- CANTransmit
            (kernel underneath:  TimerService <-- RTXTimers,   MutexService <-- RTXMutex)
```

`StateController` treats a timer as `TimerService` describes it (an expiry that is queued is not taken back
by a later stop) and a mutex as `MutexService` does.

### 2.1 StateController and ContactorController

*State.* `ctl` is one record, because what relates its fields is done
with `StateController::current_state_lock` held, and what goes without it (the tick that stops a timer, a flag set by a toggle
callback, a signal, the start of the thread, the contactor state assigned by `initialise`) changes one
variable at a time: `state` and `contactor` are the two
`current_state` variables, `coils` the two outputs, `fireonce` the two flags,
`running` the timers that count, `signal` the thread's signal bit, `started` whether
its thread exists. `overflow` is the model's own: a call recursed without end, the
stack is exhausted and the firmware does nothing defined any more; no action is
enabled after it but a change of an input.

*Actions.* One action is what a thread does in one critical section of
`current_state_lock`. That is exact:

- A step reads each input and the enable bit at most once, so a reading at its own
  moment within the step gives the same outcomes as a reading of all of them at once,
  with the changes in between moved before the step. (`initialise` of the contactor
  controller takes only its own lock, but changes a single variable that others read.)
- `push_tractive_enable` has two critical sections and is two actions,
  `PushTractiveEnable` and `NotifyDriver`. A command that repeats the bit changes
  nothing and is a stutter.
- A thread clears its signal before it takes the lock. The model clears it when the
  step starts; a signal set between the two moments then leads to one more turn in the
  code, which in the model is the turn that is possible at any time by the timeout.

*Nested calls.* The handlers are operators from record to record
(`push_state`, `notify_error`, `transition_state`, ...), composed as the code calls
them. `push_state` has an extra argument, the record after the nested `notify_event`,
which breaks the cycle of the three mutually recursive functions: the nested call either
does not recurse, or enters `push_state(hvcAllOpen)` once with success, or is refused
with nothing changed and never returns (`ExhaustStack`).

*Time.* A timer is running or not; an expiry (`TimerExpires`) queues the timer, and
`TimerThread` runs the callback of the head of the queue later, with the state it then
finds. Stopping or restarting a timer does not remove an expiry that is already
queued. Durations are not modelled here: every order of expiries and steps is
possible, more than in the code. A timer is not modelled to expire again while its previous expiry is queued
(periods from 300 ms; the timer thread sleeps behind two realtime threads only), so the queue holds at
most three entries. The restart of a counting timer is a no-op. `coils` is assigned
once per operation; an output glitch inside `push_state` is not visible.

*Priorities* are not used, so every interleaving is allowed, except in
`PrechargeTiming` and in the run `stale_toggle`, which adds them as the action
constraint `TimerThreadFirst`.

*The boot.* `boot` counts the three steps of `main()` that matter here:
`StateController::initialise` (its transition is refused, the contactor controller
being `hvcInitialising`), the start of its thread, `ContactorController::initialise`.
The driver's command may come before any of them: the CAN thread is created first.
A signal for a thread that does not exist is lost.

*Inputs.* `SafetyInputs` keeps electrical levels and the status functions apply the
polarity, so that a swapped polarity is a change of a mapped definition. The constant `ChangingPins` says
which inputs move; the others stay good. `is_plausible` is TRUE (its body is commented out).

`TractiveSystem` is what another node of the car can rely on: coils follow the state, the contactors
begin to close only from ready-for-precharge with the enable bit set, every end of a precharge or a run is
the latch or the driver's withdrawal. `StateController` implements it with the mapping *state*, *coils*, *enable*
= the variables, *withdrawn* = the bit has been cleared and `notify_event` has not run yet. `ReadyButOpen` is there because the code can
do it, see 4.1.

### 2.2 PrechargeTiming

`left` is the count of `precharge_timer` in SysTick ticks. A queued expiry cannot be taken back, and
`precharge_timer_fire` looks at `current_state` only: the expiry of an abandoned
precharge would end the next one at once. What prevents it is the order of the priorities. Between the expiry and its callback only
SysTick and threads above `osPriorityHigh` run; the CAN thread (`osPriorityAboveNormal`) is below, so no
new enable is taken (`CANThreadPriority`), and the one enable there may have been is spent. A CAN
thread that holds `current_state_lock` inherits the StateController thread's priority and
may finish its notification; that is why `NotifyDriver` stays possible.

### 2.3 CANTransceiver and CommandChannel

`rx_interrupt` runs with all threads stopped (`in_rx`); each iteration of its loop is an
action (`RxMail`, `RxTrash`, `LeaveRx`), and frames go on arriving between iterations.
Each iteration allocates a block first, including the last one, which finds the
controller empty and keeps the block in `next_message`. `Mail::put` from an interrupt
is deferred by RTX to the end of the interrupt, in order: the model appends to the
mailbox at once, no thread being able to look before. The thread gets, dispatches in two calls
and frees in separate actions. A frame is the three bits `dispatch_message` tells apart.
`StartBMSController` is the one write of `performConversions` by another thread.

`CommandChannel` is what the callees may rely on: accepted frames are acted on one at a
time, in order, once and unchanged. `CANTransceiver` implements it under the mapping
*queue* = the frame the thread works on, followed by the contents of the mailed blocks.

### 2.4 CANTransmit, TransmitBuffers, Dispatchers

`CANTransceiver::write` takes `driver_lock` and then, in `CAN::write`, the driver's own mutex; `rderror` and `tderror` take
only the latter. `can_write` looks at the status register first and fills a buffer later (`ReadStatus`, `Fill`), which is
where two unsynchronised senders would overwrite each other. When no buffer is empty it returns 0, and nobody
looks. `TransmitBuffers` is the same in one step.

`Dispatchers` puts the reporting tasks on top of `TransmitBuffers`. `Sample` reads one field; the order is that of the statements
in `generate_status_mask`, and any order for the six arguments of
`ContactorInfoMessageService::send`, which C++ leaves to the compiler. `world` is the real value of every
reported field and `WorldChanges` the rest of the firmware. The bits are kept as sets of
bit numbers. `changed` and `beats` are history: the fields that changed since a
task's cycle began, and the true number of heartbeats.

### 2.5 AMS

`AMS` joins the channel, the state machine and BMSController with its two outputs. `DispatchEnable` is
`CommandChannel!PassEnable` together with `PushTractiveEnable`, and `DispatchConversions` waits until
`push_tractive_enable` has returned. `InitialiseBMS` is `main()`'s fourth step, in its place between the
StateController thread and the contactor controller; it overwrites the conversions output a command may have set.
`latest` is the last command accepted since then.

`amsOk` is TRUE at first: `BMSController.cpp:12` passes `PullDown` as the second argument of `DigitalOut`, which
is the initial value of the output, and `PullDown` is 3, so the pin is driven high from static initialisation on, whatever the
BMS says, until `BMSController::initialise` (`performConversions` has no second argument and starts low). The model has that interval, in which the CAN thread and the
state machine already run: `ClosesAfterBMSStart` says that no contactor is closed behind that output, and
`BMSFaultShutsDown` that it does not outlast a fault.

`SpecAMS` has the steps; `FairAMS`, which the run uses, adds the fairness of section 3.

### 2.6 The kernel

`RTXTimers`: the list of running timers holds differences (`tcnt`), as in `rt_timer_insert` and
`rt_timer_remove`. `Expiries` are their sums; the loop of `rt_timer_insert` subtracts differences up to the first it cannot, which
is the first position with a later sum (`Later`). `Restarted` puts the periodic timers among the expired ones back, one after
the other. SysTick posts expiries to `os_psq`; PendSV (`rt_mbx_psh`) runs before any
thread goes on and before the next tick, and either hands the message to the waiting timer thread or
stores it. `os_error` never returns (`failed`). `isrMessagePut` checks for space in `osTimerMessageQ` but does not count what is already in
`os_psq`, so the overflow of a tick with several expiries is found only in PendSV.

`RTXMutex`: `run`, `os_rdy` and `wait` are the task lists, ordered by `rt_put_prio`; `os_dly` the tasks with a time-out.
A call is one action, as in the kernel (a supervisor call). `rt_systick` passes the turn to the next task of the
same priority (`rt_chk_robin`) or ends one timed wait (`rt_dec_dly`): a tick of the code that does several of these
leads where that many ticks in a row lead, because within a tick the running task is first in the ready list.
`depth` is what callers have been told.

### 2.7 Definitions with an underscore and a capital

`push_state_SetsBit`, `RxMail_KeepsBlock` and the like are plausible errors in the
definition they stand before. No definition uses them. Put in its place, each makes TLC reject a property:

| Error | What it is | Rejected by |
|---|---|---|
| `push_state_SetsBit` | or-assignment instead of `=`: the bit of `hvcAllOpen` stays in the contactor state | `StateController!TypeOK` |
| `ContactorsFor_FallsThrough` | a `break` missing: the latch drives precharge | `SafeStatesOpen` |
| `Resettable_LatchOnly` | a deactivation only resets the latch, and does not stop precharge or run | `OperatingNeedsDriver`, `DisableOpens` |
| `Resettable_NotLatched` | a deactivation does not reset the latch | `BecomesReady` |
| `TimerFor_NotStarted` | `precharge_timer.start` forgotten | `PrechargeCanFinish`, `ComesToRest` |
| `notify_enables_Silent` | an enable does not signal the thread | `PromptPrecharge` |
| `process_activated_states_Unchecked` | no input is checked once active | `RunClosesOnlyWhenHealthy`, `FaultOpens` |
| `process_activated_states_Retries` | a fault leads back to waiting instead of the latch | `NoRestartWithoutEnableCycle`, `ImplementsTractiveSystem` |
| `precharge_timer_fire_AnyState` | the callback does not look at the state | `LatchResetByDriver` |
| `CANThreadPriority_Realtime` | the CAN thread does not wait for the timer thread | `RunAfterMinimumTime` |
| `FrameArrives_Unbounded` | the controller's buffer bound is not respected | `CANTransceiver!TypeOK` |
| `Free_CommandsOnly` | only commands' blocks are freed | `BlocksAccounted`, `EveryMailFreed` |
| `Allocated_HeldOnly` | no allocation when there is no held block | `LostOnlyWhenFull` |
| `RxMail_KeepsBlock` | `next_message` not reset after `put` | `ImplementsChannel` |
| `Chosen_ZeroBased` | buffers numbered from 0 | `CANTransmit!TypeOK` |
| `Chosen_First` | the first buffer, empty or not | `ImplementsBuffers` |
| `ReadStatus_Waits` | a full controller is waited for, under the locks | `WritesReturn` |
| `Finish_ReadsOnce` | what was read is kept for the next cycle | `WrongOnlyAboutChanges` |
| `STATUS_ERROR_SERVICE_DISCONNECTS_SharesBit` | two errors share a bit | `MaskExplainsInputs` |
| `Frame_SwapsArguments` | two of the six arguments swapped | `LastingValueReported` |
| `CountBeat_IfAccepted` | only accepted heartbeats are counted | `GapCountsLost` |
| `BootAMS_AnyOrder` | the contactor controller is created before BMSController | `ClosesAfterBMSStart` |
| `DispatchEnable_MissesEdge` | a change of the command is not passed on | `LastCommandObeyed` |
| `BMSProcedure_Sticky` | AMS-OK never drops | `BMSFaultShutsDown` |
| `rt_timer_insert_KeepsNext` | the next timer's difference is not reduced | `RTXTimers!TypeOK` |
| `rt_timer_remove_KeepsDelta` | a removed timer's difference is lost | `ImplementsTimerService` |
| `rt_mbx_psh_NeverHands` | a message is stored also when the thread waits | `CallbacksAreCalled` |
| `rt_resort_prio_Skips` | a raised task stays where it is in its list | `RTXMutex!TypeOK` |
| `Raised_Not` | no inheritance | `NoInversion` |
| `HandOver_ToEqual` | a hand-over preempts a task of the same priority | `ReadyInTurn` |
| `Restored_Raised` | the inherited priority is kept | `PriorityReturned` |
| `rt_put_prio_BeforeEquals` | equals are overtaken | `NoOvertaking` |
| `Without_Keeps` | a timed-out task stays in the list of the mutex | `ImplementsMutexService` |

## 3. The runs

| Run | Configuration | Question | States |
|---|---|---|---|
| `state_safety` | `EnableCycle` | Do the safety properties hold in every interleaving, with all six inputs the state machine reads changing at any time, and is `TractiveSystem` implemented? | 466,112 |
| `state_liveness` | `MCStateController_liveness` | Do withdrawal and faults open the contactors, and does the machine reach the state its inputs call for? | 22,920 |
| `precharge_timing` | `PrechargeTiming` | Can a second precharge end early? Not with the priorities as they are. | 35,444 |
| `can_receive` | `MCCANTransceiver` | Do handler and thread share the blocks correctly, implement the channel, and deal with every mail? | 81,584 |
| `can_transmit` | `MCCANTransmit` | Are writes atomic, and do they return on a dead bus? | 10,560 |
| `dispatchers` | `MCDispatchers` | What can a listener conclude from the reports? | 244,863 |
| `ams` | `MCAMS` | Does the last of several waiting commands, and a lasting BMS fault, get through to the outputs? Are the contactors open while AMS-OK says nothing? | 55,856 |
| `rtx_timers` | `MCRTXTimers` | Do list, queue and thread make the timers a user expects? | 81,936 |
| `rtx_mutex` | `MCRTXMutex` | Do the lists implement mutual exclusion, and inheritance? | 23,719 |
| `ready_means_closed` | `..._ready_means_closed` | violation, 4.1 | |
| `refused_push_returns` | `..._refused_push_returns` | violation, 4.2 | |
| `stale_toggle` | `..._fireonce` | violation, 4.3 | |

**Properties.**
`SafeStatesOpen`: no coil is driven outside the operating states, although every opening is a
request that may be refused. `OperatingNeedsDriver`: precharge, run and the latch exist
only while the enable bit is set or its withdrawal is about to be notified, although
bit and event travel under different locks. `PrechargeCanFinish`: no precharge waits for a
callback that will not come. `PromptPrecharge`: no enable is left to the next poll.
`RunClosesOnlyWhenHealthy`: the run coil goes on only from a precharged, healthy
state, although the result of the check is ignored there. `LatchResetByDriver`: the
latch is left only by the driver's withdrawal.
`NoRestartWithoutEnableCycle`: after any end of a precharge or run, the contactors do not begin to
close before the enable bit has been off. `ImplementsTractiveSystem`: 2.1.
`DisableOpens`, `FaultOpens`, `BecomesReady`, `ComesToRest`: the liveness of
the shut-down, the reset and the start-up path.
`RunAfterMinimumTime`: the minimum precharge time has passed, 2.2.
`BlocksAccounted`: each block is in exactly one place. `LostOnlyWhenFull`: a frame is
thrown away only when every block holds a frame not yet dealt with.
`EveryMailFreed`, `ImplementsChannel`: see 2.3.
`ImplementsBuffers`, `WritesReturn`: no pending frame is overwritten; no sender is blocked for ever.
`WrongOnlyAboutChanges`, `LastingValueReported`: what a message says, cycle by cycle and in the end, with frames refused, delayed
and reordered. `MaskExplainsInputs`: the status mask for all 256 combinations of the inputs. `GapCountsLost`: lost heartbeats
can be counted across the wrap.
`LastCommandObeyed`, `BMSFaultShutsDown`: end to end. `ClosesAfterBMSStart`: 2.5.
`ImplementsTimerService`, `ImplementsMutexService`: the kernel as its callers see it. `CallbacksAreCalled`: no message stays behind with
the timer thread asleep.
`ReadyInTurn`: only a more urgent task gets ahead of one that is ready to run, so that equals share the processor.
`NoInversion`, `PriorityReturned`, `NoOvertaking`, `ReadyInTurn`: the scheduling that the priorities of 2.2 and
the order of the senders rest on.

`FaultOpens` allows that the fault goes away first: the machine polls every 100 ms, and a
shorter fault is not seen. `BecomesReady`, `ComesToRest` and the properties of `AMS` allow for `overflow`,
which 4.2 reaches. Deadlock is checked in every run but two: in `ams`
the overflow of 4.2 stops the firmware, and in `rtx_timers` `os_error` does.

**Bounds, and why they are enough.** `StateController` has none of its own: the state is finite (the
timer queue holds each of three timers at most once), and `state_safety` explores all of it.
The other runs on it limit which inputs change: `process_waiting_states` and
`process_activated_states` see the inputs in three groups, and `OnePerStage` keeps inputs of different groups and a precharge input. `state_liveness`
and `precharge_timing` keep one fault and one precharge input, which is enough for each
verdict of the checks; the driver and the timers are unrestricted.
`precharge_timing` counts three ticks for the 5000: enough for an expiry to be queued behind others, for a second
precharge to begin, and for its end to be early by one or two. The proof in section 5 is for any number.
`CANTransceiver` is checked with a pool of three blocks instead of
32 (one each for handler, mailbox and thread; exhaustion and re-use happen), two opposite commands and a frame of another
kind, and one controller buffer: the LPC1768 has two, but then a step of the handler can find the buffer refilled
again and again, which only the bus rate excludes. The proofs are for any pool and any number of buffers.
`can_transmit` has the three senders and three buffers of the firmware.
`dispatchers` runs one task at a time with two buffers: the tasks share only the buffers, and a
refusal does not depend on whose frames are in them. The counter has four values (`CounterSize`, 2^16 in the code) and
wraps three times before `beats` does (`BeatCycle`); one input, the state and two of the contactor values change
(the others are read by the same code, and `MaskExplainsInputs` is about all of them).
`ams` has three frames in the channel, one that is acted on, possibly half of it, and two that wait, so that commands
overtake the state machine, and opposite ones meet in the queue; one changing input; and of the timers only `precharge_timer` expires (`ExpiringTimers`): the
callbacks of the others only set `fireonce`, which nothing in `AMS` reads.
`rtx_timers` has two one-shot timers and a periodic one, times up to two ticks and a queue of two, so that
ties, equal differences, insertion in the middle and overflow all happen.
`rtx_mutex` has five tasks (idle, one less and one more urgent than two equal ones), two
mutexes, and levels up to two. The firmware nests two locks. Equal tasks and the two mutexes are symmetric; no temporal property needs fairness.

**Fairness, and what justifies it.**
`WF(Boot)`: `main()` blocks nowhere. `WF(StateControllerThread)`: highest priority, and
`signal_wait` has a 100 ms timeout. `WF(NotifyDriver)`: the CAN thread goes on after
the bit is set. `WF(TimerExpires("minimum"))`: `precharge_timer` is started only by the entry
into precharge, is not restarted while it runs, and counts with SysTick; the coil
timers, which each change restarts, get no fairness. `WF(TimerThread)`: the timer thread (`osPriorityHigh`)
is only below the two realtime threads, which sleep most of the time. No fairness for the driver, the inputs
or the arrival of frames.
For the receive path: the interrupt is served (`WF(RxInterrupt)`); a frame takes longer on the bus (94 us at 500 kbit/s) than an
iteration of the handler, so the handler finds the controller empty again and again (`SF(LeaveRx)`); and there is time for a
thread between two interrupts (`SF(Thread)`).
For `CANTransmit`: a sender inside a lock goes on (`WF`), and one that waits for a mutex gets its turn
(`SF`; `NoOvertaking` of `RTXMutex` is the reason among equals). None for the bus.
For `Dispatchers`: a task goes on reading and finds, with `SF`, an empty buffer again and again; the bus sends what
is in a buffer (`WF(Deliver)`). A frame takes 0.3 ms, and the shortest cycle is 75 ms.
For `AMS`: as above, and the CAN thread, the BMS thread and `main()` run when they can.
For `RTXTimers`: PendSV runs (`WF`), and the timer thread does (`SF`, PendSV interrupting it). What is shown from it,
`CallbacksAreCalled`, is the fairness `StateController` assumes of the timer thread. `RTXMutex` has none.

## 4. Disagreements between code and comments

**4.1 Race ready with open contactors** (`ready_means_closed`).
`StateController.cpp:215` ignores the result of `process_activated_states()`. A
fault that appears after the minimum time and before the next step moves to
`scsLatchingError` and opens the contactors; if the two precharge inputs are asserted, the same
step then makes the transition to race ready, whose `push_state(hvcHighCurrentRun)` is
refused; the nested `notify_event` finds the latching state and only signals, and
line 119 stores race ready. The state that is reported is race ready, with both contactors open. It lasts until the next
step sees the fault, or, if that has gone, until the driver withdraws. The contactors stay
open (`SafeStatesOpen`, `RunClosesOnlyWhenHealthy` hold). `ContactorController.hpp:26`
says the program "throws error if the program does not close the contactors in the
order expected": here the error is raised, and leaves no trace.

**4.2 Unbounded recursion while initialising** (`refused_push_returns`).
`ContactorController.cpp:126-127` means to handle a request that is refused because the
system is initialising, but the nested notification before it does not return if the
state is past `scsWaitingForInternalSafety`: `notify_event` → `transition_state` →
`push_state(hvcAllOpen)` → refused → `notify_event`. The window is from the start of the
StateController thread to `ContactorController::initialise`, in which `main()` only creates two
more threads. It is short, and needs the StateController thread to have left that state meanwhile,
which takes a signal (an enable command and its withdrawal) or a poll within it, and then one more command
or a fault.

**4.3 A stale toggle callback** (`stale_toggle`). `push_state` clears a `fireonce` flag and
restarts the timer, but an expiry of the earlier start may be queued already, and its
callback then sets the flag at once, against the comments at `ContactorController.cpp:68` and
`:75`. With the kernel's priorities this still happens: SysTick handles the
delays of threads and the timers in the same tick, so the 300 ms timer and the third 100 ms
poll of the (higher priority) StateController thread come together. The flag has no effect at present, because the
check that would read it is commented out; it would report hardware errors that are none.

Further observations, not checked by a run:

- `StateController.hpp:11` says `3 sec` beside a constant of 5 s.
- `StateController.cpp:122-125` describes the two edges of the command the wrong way round.
- `ContactorController.hpp:24-25` announces a hardware error when a contactor does not move; the body of
  `procedure()` that does so is commented out, so the hardware-error flags stay FALSE. It would take the two
  mutexes in the opposite order to `transition_state`.
- AMS-OK is driven high between static initialisation and `BMSController::initialise` (2.5): `PullDown` looks like the pin
  mode that the input two lines above takes, but is the output's initial value.
- `BMSController::initialise` turns the conversions on after the CAN thread
  may have turned them off on command; `LastCommandObeyed` is therefore about commands accepted after it.
- A contactor message can combine coil values that never held together (precharge off and run on, say), and frames
  that waited in different buffers can arrive in the other order.
- `mm_can_status_t::reserved` and the two spare bits of `mm_can_contactor_info_t` are sent
  uninitialised.
- `CAN::read` in the receive interrupt calls `CAN::lock`, which the kernel refuses there: the interrupt
  runs without the driver's mutex. It touches only the receive registers.
- A periodic timer that is started again while it runs keeps its old period for the expiries after the next.
- Priority inheritance goes to the holder only, not along a chain of waits; and a holder keeps
  a raised priority after the waiter has timed out, until its next release. The firmware waits without time-outs.
- `rt_mut_delete` answers `osOK` to those that wait. The firmware deletes no mutex.

## 5. What is proved

Twenty-nine theorems, for every value of the constants under their assumptions:

| Theorem | States |
|---|---|
| `StateControllerProofs!TypeCorrect` | `Spec => []TypeOK` |
| `StateControllerProofs!SafeStatesAreOpen` | `Spec => []SafeStatesOpen` |
| `StateControllerProofs!OperatingIsDriven` | `Spec => []OperatingNeedsDriver` |
| `StateControllerProofs!PrechargeNeverStuck` | `Spec => []PrechargeCanFinish` |
| `StateControllerProofs!RunClosesHealthy` | `Spec => RunClosesOnlyWhenHealthy` |
| `StateControllerProofs!LatchIsResetByDriver` | `Spec => LatchResetByDriver` |
| `TractiveProofs!EnableIsPrompt` | `Spec => []PromptPrecharge` |
| `TractiveProofs!ImplementsTractive` | `Spec => ImplementsTractiveSystem` |
| `TractiveProofs!EnableClosesOnce` | `SpecObserved => NoRestartWithoutEnableCycle` |
| `TractiveProofs!PrechargeLasts` | `SpecTimed => RunAfterMinimumTime` |
| `TractiveProofs!AMSImplementsStateController` | `SpecAMS => Spec` |
| `TractiveProofs!ClosesAfterStart` | `SpecAMS => []ClosesAfterBMSStart` |
| `CANTransceiverProofs!ReceiveTypeCorrect` | `Spec => []TypeOK` |
| `CANTransceiverProofs!PoolConserved` | `Spec => []BlocksAccounted` |
| `CANTransceiverProofs!LossMeansFull` | `Spec => LostOnlyWhenFull` |
| `CANTransceiverProofs!ReceiveIsChannel` | `Spec => ImplementsChannel` |
| `CANTransmitProofs!TransmitTypeCorrect` | `Spec => []TypeOK` |
| `CANTransmitProofs!WritesAreAtomic` | `Spec => ImplementsBuffers` |
| `DispatchersProofs!OnlyChangesAreWrong` | `Spec => []WrongOnlyAboutChanges` |
| `DispatchersProofs!MaskIsExplained` | `Spec => []MaskExplainsInputs` |
| `DispatchersProofs!GapsAreCounted` | `Spec => GapCountsLost` |
| `RTXTimersProofs!TimersTypeCorrect` | `Spec => []TypeOK` |
| `RTXTimersProofs!TimerServiceImplemented` | `Spec => ImplementsTimerService` |
| `RTXMutexProofs!TypesCorrect` | `Spec => []TypeOK` |
| `RTXMutexProofs!NeverInverted` | `Spec => []NoInversion` |
| `RTXMutexProofs!EqualsTakeTurns` | `Spec => ReadyInTurn` |
| `RTXMutexProofs!PriorityIsReturned` | `Spec => []PriorityReturned` |
| `RTXMutexProofs!NeverOvertaken` | `Spec => NoOvertaking` |
| `RTXMutexProofs!MutexServiceImplemented` | `Spec => ImplementsMutexService` |

**Assumptions.** `ChangingPinsAssumption` (a set of inputs), `MinimumTicksAssumption` (a positive number),
`FramesAssumption`, `BlocksAssumption` (a finite pool) and `HwDepthAssumption`, `HeartbeatAssumption` and
`TxBuffersAssumption` (some of the buffers 1 to 3), `CounterAssumption` (`BeatCycle`, which bounds a history variable, is
a multiple of the counter's size), `CreatedAssumption` (sets of the three tasks), `TasksAssumption` (finitely many,
priorities in a byte), `PeriodicAssumption`, `MaxTicksAssumption` (a longest time for a timer) and `QueueSizeAssumption`
(a positive number), `IdleAssumption` (`os_idle_demon` has a lower priority than every thread) and
`MaxLevelAssumption`, `ExpiringTimersAssumption` (`precharge_timer` is among them): the types of the constants, and what the kernel ensures of its idle task. The timer queue and the
mailbox are unbounded in their types.

**The state machine.** The first three theorems go by the inductive invariant `IInv`:

- `TypeOK`;
- `Shape(ctl)`: the coils are those of the contactor state, which is never
  `hvcLatchingMechanicalError`; precharge is closed only in `scsStartedPrecharge` and
  `scsPrechargeMinimumTimeExceeded`, and run only in race ready. `SafeStatesOpen` alone says nothing of
  the contactor state, from which the next `push_state` decides what is accepted, and is not inductive;
- `boot < 3 => ctl.contactor = hvcInitialising`: without it `ContactorController::initialise`
  would declare driven coils open;
- `OperatingNeedsDriver`, inductive with the above.

The lemmas follow the calls: what `Sync`, an accepted opening (`Enter`), the nested
notification, `push_state`, `transition_state` and each handler make of a record with
`Shape`; then one lemma per group of actions, with a case per action.

The second part of `StateControllerProofs` strengthens `IInv` to `PInv`:

- `driver = "deactivates" => ~enable`: a withdrawal is announced before the next command can set the bit again,
  because one thread does both;
- `boot = 0 => ctl.state = scsInitialising /\ ~ctl.started`: the first transition of `main()` then cannot leave a latched error;
- `PrechargeCanFinish`, inductive with these.

With it every step satisfies `StepAllowed`: it does not close the run contactor, unless the state, the
contactors and the inputs are those of the end of a healthy precharge, and it leaves the latch for the driver only. The interesting
case is the step that ignores the result of `process_activated_states()`: after a fault the precharge
contactor is open, or the stack is exhausted, and in neither case is `hvcHighCurrentRun` accepted.

`TractiveProofs` strengthens it once more to `RInv`, with `PromptPrecharge`, that before the second
step of the boot there is no thread and the state is not the one ready for precharge (an enable would be announced to
nobody), and that `scsNonResettableLatchingError` is never entered. The lemma
`TransitionOutcome` says what a transition leaves behind, nested calls included: the requested state with its
contactors, the latch with open ones, or race ready with open ones. Each action then is a step of `TractiveSystem` or leaves its
four variables alone.

`EnableClosesOnce` goes on from the refinement: in `TractiveSystem`, an enable is spent when the contactors begin to close
(`SpentEnable`: it stays so until the bit is cleared), which takes a case per abstract action only.

`PrechargeLasts` needs, beside `RInv`, that while the timer counts the ticks to go and the age of
the precharge add up to the minimum time, and that no queued expiry meets a later precharge: while one is queued
no command is taken, and a spent enable stays spent (`SpentEnableLasts`).

The last section of `TractiveProofs` is about `AMS`. That the composition takes only steps of `StateController` needs an
invariant of the channel: what waits in it are frames, with an enable that is a Boolean, and the one that is half acted on is a
command (`ChannelInv`). Then everything above holds in `AMS` too
(`AMSImplementsStateController`), and `ClosesAfterBMSStart` follows from `IInv`, since driven coils mean that the contactor
controller has been initialised, and from the order of `main()` (`StartInv`).

**The CAN path.** `BlocksAccounted` counts and does not say that the four places are apart, which
the next step needs; `PoolInv` does: the free blocks, the mailed blocks, `next_message` and `msg`
are disjoint, and the mailbox has no block twice. The counting follows with the theorems on finite sets. For the
refinement, the frame in a block changes only in the handler's hands, so the abstract queue moves only at its
ends. `TxInv` ties each lock to its owner's program counter and says that the slot a sender has found is
still empty when it fills it.

**The dispatchers.** `WrongOnlyAboutChanges` looks at the end of a cycle; `ReadInv` says of every moment in it that what a
task has read is right or in `changed`, and that the status fields read so far are the first ones in the
order of the source, so that a cycle with nothing left to read has read them all. `MaskSays` reads each input off the mask.
`GapCountsLost` compares two frames; `CountInv` ties counter and beat in every buffer, and in the last frame heard, by
`counter = beat % CounterSize`, and a few lemmas on congruences take the difference through both wraps.

**The timers.** `RTXTimersProofs` has three layers. First the sums: `Expiries` is a recursive function, and that there is a function
with its equation, and only one, is proved by a least counterexample (`SumsExist`, `ExpiriesUnique`), which takes the place of
an induction over the list; the same for `Restarted`. Then what the
operations make of a list, told not by positions but by what expires when (`Expires`): an insertion adds one timer with its time, a
removal takes one away, counting down takes one tick from each, and what is left behind the expired ones keeps its times
(`InsertExpires`, `RemoveExpires`, `CountExpires`, `RestExpires`, `RestartedExpires`), for lists of any length. Each shows that the sums of the
new list are those of the old, shifted by a position or a tick. With `Due`, the time a caller sees, each operation
then is one line of `TimerService` (`InsertDue`, `RemoveDue`, `TickDue`). Third, `IInv`:

- `Listed`: exactly the running timers are in the list, each once; each is still to expire, at most `MaxTicks` from now, and has a period.
  `TypeOK`, which bounds the differences, is not inductive: a removal adds two differences, and only
  the sums say that the result is within the bound;
- `QueueInv`: a waiting thread has been handed nothing and has nothing in the queue. Without it a message handed over would overtake
  those stored.

Each action then is a step of `TimerService` or leaves its five variables alone. A tick that calls `os_error` is `GiveUp`: the
callbacks waiting and the timers expiring are together more than the queue holds.

**The mutexes.** Two layers. First the lists: what `rt_put_prio`, `RemoveFirst`, `Head` and `Tail` make of a list without
repetitions that a priority function sorts, as sets and as the order `Ahead`, for lists of any length (`PutPrio`,
`RemoveFromList`, `TailOfList`, `Resort`). They go by the indices of the lists, and nothing above them does. Then `IInv`:

- `ListsInv`: the running task followed by the ready ones is such a list, and so is each mutex's, under the current priorities;
- `PlacesInv`: every task is running, ready, asleep or waiting, for one mutex at most, and the idle task never sleeps, waits or holds,
  so that there is always a task to switch to;
- `OwnersInv`: a mutex with a level has one holder, who does not wait for it, and whose calls (`depth`) are that level;
- `PrioritiesInv`: a task has at least its base priority, and just that when it holds nothing; and a holder is at least as urgent as the *base* priority of
  each task that waits for what it holds. With their current priorities instead, as one would first put it, this is false: a waiter that
  itself inherits a priority later does not pass it on (section 4). It is what `NoInversion` needs, once the
  holder is known to be among those that can run, of which the running one is the most urgent.

`NoOvertaking` and `ReadyInTurn` follow step by step from the order lemmas: `Ahead` grows by the task that is put, behind its equals, or by
one that is raised; a preempted task, which is put at the head of the ready list, was ahead of that list already. For the refinement, each action is one of `MutexService`'s or leaves `waiting` and `depth` alone.

All invariants were checked with TLC first.

**Only model-checked.** Liveness (`DisableOpens`, `FaultOpens`, `BecomesReady`, `ComesToRest`, `EveryMailFreed`,
`WritesReturn`, `LastingValueReported`, `LastCommandObeyed`, `BMSFaultShutsDown`, `CallbacksAreCalled`), which like ENABLED is
outside the prover's reach. Every invariant, action property and refinement that a passing run checks is stated by a theorem.

## 6. What is not modelled

- The threads of `StackPlausibility` (empty in effect: `is_plausible` is always TRUE) and of
  `InsulationMonitoringDevice` with its interrupt (`main()` never creates it). Their status functions are modelled.
- `ContactorController::procedure`, `process_error_states`: empty in effect, their bodies are commented out.
- In the kernel: thread creation and deletion, semaphores, `rt_mut_delete`, `rt_tsk_prio`, the differences in the list of delayed
  tasks (`rt_put_dly`; `RTXMutex` lets any timed wait end at any tick), `isr_mbx_receive`, context switching. The firmware
  creates its threads at the boot only, and uses no semaphore. `BaseTask::create` calls `rt_tsk_prio` (`set_priority`) there, once for each thread
  and right after its start, at which time it may have run for a while at the default priority; the priorities in `RTXMutex` are those after the boot.
- The overflow of `os_psq` itself (16 places, `OS_FIFOSZ`). `RTXTimers` has the overflow of `osTimerMessageQ`, which has four: the
  firmware's three timers put at most three messages into `os_psq` in one tick, and PendSV empties it before the next.
- Registers, modes, filters and bit timing of the CAN controller.
- The rest of the vendored mbed-os: network stacks, BLE, TLS, file systems, other targets. The firmware does not
  call it. It is by far the largest part of `src/`, so that the models, which cover nearly all of the firmware's own
  code and the kernel services under it, map only a small share of all lines.

## 7. What could follow

1. Safety properties of `AMS` that follow a withdrawal through the channel, now that it is shown to implement `StateController`.
2. The tick list's differences in `RTXMutex`, with durations for time-outs.
