---------------------------- MODULE TractiveProofs ----------------------------
(***************************************************************************)
(* More theorems about StateController, for every set of changing inputs,  *)
(* which follow the state, the coils and the signal through the operations *)
(* and rest on the invariant PInv of StateControllerProofs: it implements  *)
(* TractiveSystem, and an enable that finds the system ready leaves a      *)
(* signal.  A step is one of TractiveSystem's, and those are few enough to *)
(* follow the enable bit from one precharge to the next: the contactors do *)
(* not close twice for one enable.  The run contactor waits for the whole  *)
(* minimum precharge time, for every MinimumTicks: precharge_timer counts  *)
(* in scsStartedPrecharge only, whose successor its callback alone enters. *)
(* AMS is StateController with commands that come over a channel and with  *)
(* BMSController, which main() starts before the contactor controller.     *)
(***************************************************************************)
EXTENDS AMS, EnableCycle, PrechargeTiming, StateControllerProofs

USE DEF hvcInitialising, hvcLatchingMechanicalError, hvcAllOpen, hvcPrecharge,
        hvcHighCurrentRun, scsNonResettableLatchingError, scsLatchingError,
        scsInitialising, scsWaitingForInternalSafety, scsWaitingForTractiveLoop,
        scsWaitingForShutdownCircuit, scsWaitingForPrechargeActivation,
        scsStartedPrecharge, scsPrechargeMinimumTimeExceeded,
        scsTractiveSystemRaceReady

(* The state and the coils of d, and how it compares with c.               *)
At(d, s, coils) == d.state = s /\ d.coils = coils

Same(c, d) == At(d, c.state, c.coils) /\ d.started = c.started

(* Nothing but the started flag is kept by every operation.                *)
LEMMA PushStarted ==
  ASSUME NEW c, Shape(c), NEW new \in {hvcAllOpen, hvcPrecharge, hvcHighCurrentRun}
  PROVE  push_state(c, new, notify_error(c)).started = c.started
<1>1. \A d \in Ctl : \A s : Sync(d, s).started = d.started
  BY DEF Sync, Ctl
<1>2. notify_error(c) \in Ctl /\ c \in Ctl
  BY NotifyErrorShape DEF Keeps, Shape
<1>3. notify_error(c).started = c.started
  <2>1. Signal(c).started = c.started /\ ExhaustStack(c).started = c.started
    BY <1>2 DEF Signal, ExhaustStack, Ctl
  <2>2. ASSUME Accepts(c.contactor, hvcAllOpen)
        PROVE  Signal(Enter(c, scsWaitingForInternalSafety)).started = c.started
    <3>1. Sync(c, hvcAllOpen) \in Ctl
      BY <1>2, SyncFields DEF contactor_state_t
    <3>2. Enter(c, scsWaitingForInternalSafety).started = c.started
      BY <1>1, <1>2, <3>1 DEF Enter, SetState, Ctl
    <3>3. DOMAIN Enter(c, scsWaitingForInternalSafety) = DOMAIN Sync(c, hvcAllOpen)
      BY <3>1 DEF Enter, SetState, Ctl
    <3> QED BY <3>1, <3>2, <3>3 DEF Signal, Ctl
  <2> QED BY <2>1, <2>2 DEF notify_error
<1> QED BY <1>1, <1>2, <1>3 DEF push_state

(* A transition exhausts the stack and changes nothing else, or enters its *)
(* target; either way the thread exists if it did.                         *)
LEMMA TransitionOutcome ==
  ASSUME NEW c, Shape(c), NEW s \in state_controller_state_t
  PROVE  \/ /\ transition_state(c, s) = ExhaustStack(c)
            /\ transition_state(c, s).overflow
            /\ Same(c, transition_state(c, s))
         \/ /\ transition_state(c, s).state = s
            /\ ~transition_state(c, s).overflow
            /\ transition_state(c, s).contactor = PushFor(c, s).contactor
            /\ transition_state(c, s).coils = PushFor(c, s).coils
            /\ transition_state(c, s).started = c.started
            /\ ~PushFor(c, s).overflow
<1> DEFINE p == PushFor(c, s)
<1>0. c \in Ctl
  BY DEF Shape
<1>1. CASE c.overflow \/ p.overflow
  <2>1. transition_state(c, s) = ExhaustStack(c)
    BY <1>1 DEF transition_state
  <2>2. ExhaustStack(c).overflow /\ Same(c, ExhaustStack(c))
    BY <1>0 DEF ExhaustStack, Ctl, Same, At
  <2> QED BY <2>1, <2>2
<1>2. CASE ~(c.overflow \/ p.overflow)
  <2>1. p \in Ctl /\ p.started = c.started
    <3>1. CASE s = scsPrechargeMinimumTimeExceeded
      BY <1>0, <3>1 DEF PushFor
    <3>2. CASE s # scsPrechargeMinimumTimeExceeded
      <4>1. ContactorsFor(s) \in {hvcAllOpen, hvcPrecharge, hvcHighCurrentRun}
        BY DEF ContactorsFor
      <4> QED BY <1>2, <3>2, <4>1, PushFields, PushStarted DEF PushFor
    <3> QED BY <3>1, <3>2
  <2>2. p.overflow = FALSE
    BY <1>2, <2>1 DEF Ctl
  <2> HIDE DEF p
  <2>3. transition_state(c, s)
          = [p EXCEPT !.running = TimerFor(s, p.running), !.state = s]
    BY <1>2, <2>1 DEF transition_state, SetState, Ctl, p
  <2> QED BY <1>2, <2>1, <2>2, <2>3 DEF Ctl, p
<1> QED BY <1>1, <1>2

(* To a state outside precharge and run it leaves the contactors open.     *)
LEMMA TransitionOpens ==
  ASSUME NEW c, Shape(c), NEW s \in state_controller_state_t \ OperatingStates
  PROVE  \/ /\ transition_state(c, s) = ExhaustStack(c)
            /\ transition_state(c, s).overflow /\ Same(c, transition_state(c, s))
         \/ /\ At(transition_state(c, s), s, {}) /\ ~transition_state(c, s).overflow
            /\ transition_state(c, s).started = c.started
<1>1. Shape(transition_state(c, s))
  BY TransitionShape DEF Keeps, OperatingStates
<1>2. transition_state(c, s).state = s => transition_state(c, s).coils = {}
  BY <1>1, DrivenValues DEF Shape, ReachableContactor, OperatingStates
<1> QED BY <1>2, TransitionOutcome DEF At

(* Outside precharge and run the contactors are open.                      *)
LEMMA SafeMeansOpen ==
  ASSUME NEW c, Shape(c), c.state \notin OperatingStates
  PROVE  c.coils = {} /\ c.contactor \in {hvcInitialising, hvcAllOpen}
BY DrivenValues DEF Shape, ReachableContactor, OperatingStates

(* From the state ready for precharge it closes the precharge contactor,   *)
(* unless the contactors are still initialising.                           *)
LEMMA TransitionPrecharges ==
  ASSUME NEW c, Shape(c), c.state = scsWaitingForPrechargeActivation
  PROVE  \/ /\ transition_state(c, scsStartedPrecharge).overflow
            /\ Same(c, transition_state(c, scsStartedPrecharge))
         \/ /\ At(transition_state(c, scsStartedPrecharge), scsStartedPrecharge, {"precharge"})
            /\ transition_state(c, scsStartedPrecharge).started = c.started
<1>0. c \in Ctl /\ scsStartedPrecharge \in state_controller_state_t
  BY DEF Shape, state_controller_state_t
<1>1. PushFor(c, scsStartedPrecharge) = push_state(c, hvcPrecharge, notify_error(c))
  BY DEF PushFor, ContactorsFor
<1>2. c.contactor \in {hvcInitialising, hvcAllOpen}
  BY SafeMeansOpen DEF OperatingStates
<1>3. CASE c.contactor = hvcInitialising
  <2>1. notify_error(c) = ExhaustStack(c) /\ ~Accepts(c.contactor, hvcPrecharge)
    BY <1>3 DEF notify_error, Accepts
  <2>2. ExhaustStack(c).overflow
    BY <1>0 DEF ExhaustStack, Ctl
  <2>3. PushFor(c, scsStartedPrecharge).overflow
    BY <1>1, <2>1, <2>2 DEF push_state
  <2> QED BY <1>0, <2>3, TransitionOutcome
<1>4. CASE c.contactor = hvcAllOpen
  <2>1. PushFor(c, scsStartedPrecharge) = Sync(c, hvcPrecharge)
    BY <1>1, <1>4 DEF push_state, Accepts
  <2>2. PushFor(c, scsStartedPrecharge).coils = {"precharge"}
    BY <1>0, <2>1, SyncFields, DrivenValues DEF contactor_state_t
  <2> QED BY <1>0, <2>2, TransitionOutcome DEF At
<1> QED BY <1>2, <1>3, <1>4

(* At the end of precharge both contactors are closed, or both open.       *)
LEMMA TransitionCompletes ==
  ASSUME NEW c, Shape(c)
  PROVE  \/ /\ transition_state(c, scsTractiveSystemRaceReady).overflow
            /\ Same(c, transition_state(c, scsTractiveSystemRaceReady))
         \/ /\ transition_state(c, scsTractiveSystemRaceReady).state = scsTractiveSystemRaceReady
            /\ transition_state(c, scsTractiveSystemRaceReady).coils \in {{}, {"precharge", "run"}}
            /\ transition_state(c, scsTractiveSystemRaceReady).started = c.started
<1> DEFINE t == transition_state(c, scsTractiveSystemRaceReady)
<1>1. /\ scsTractiveSystemRaceReady \in state_controller_state_t
      /\ scsTractiveSystemRaceReady # scsPrechargeMinimumTimeExceeded
  BY DEF state_controller_state_t
<1>2. Shape(t)
  BY <1>1, TransitionShape DEF Keeps
<1>3. t.state = scsTractiveSystemRaceReady => t.coils \in {{}, {"precharge", "run"}}
  BY <1>2, DrivenValues DEF Shape, ReachableContactor
<1> QED BY <1>1, <1>3, TransitionOutcome
------------------------------------------------------------------------------
(* The invariant of this module: PInv; PromptPrecharge, for which the      *)
(* thread must not be started in the state it speaks of; and the state     *)
(* nothing enters is never entered.                                        *)
RInv ==
  /\ PInv
  /\ PromptPrecharge
  /\ boot < 2 => ~ctl.started /\ ctl.state # scsWaitingForPrechargeActivation
  /\ ctl.state # scsNonResettableLatchingError

(* What a step does, as TractiveSystem and the signal see it.              *)
Allowed == Tractive!TractiveNext \/ UNCHANGED Tractive!tractiveVars

Prompt ==
  /\ PromptPrecharge'
  /\ boot' < 2 => ~ctl'.started /\ ctl'.state # scsWaitingForPrechargeActivation

USE DEF Tractive!scsNonResettableLatchingError, Tractive!scsLatchingError,
        Tractive!scsInitialising, Tractive!scsWaitingForInternalSafety,
        Tractive!scsWaitingForTractiveLoop, Tractive!scsWaitingForShutdownCircuit,
        Tractive!scsWaitingForPrechargeActivation, Tractive!scsStartedPrecharge,
        Tractive!scsPrechargeMinimumTimeExceeded, Tractive!scsTractiveSystemRaceReady

(* A step that leaves the state, the coils and the driver alone.           *)
LEMMA StutterAllowed ==
  Same(ctl, ctl') /\ UNCHANGED <<enable, driver>> => Allowed
BY DEF Same, At, Allowed, Tractive!tractiveVars

(* A change of state that is one of TractiveSystem's.                      *)
LEMMA StateStepAllowed ==
  /\ \/ Tractive!Start \/ Tractive!Check \/ Tractive!BeginPrecharge
     \/ Tractive!MinimumTime \/ Tractive!Close \/ Tractive!ReadyButOpen \/ Tractive!Latch
  /\ UNCHANGED <<enable, driver>>
  => Allowed
BY DEF Allowed, Tractive!TractiveNext, Tractive!StateStep

(* Booting is a step of TractiveSystem or a stutter.                       *)
LEMMA BootAllowed == RInv /\ Boot => Allowed /\ Prompt
<1> SUFFICES ASSUME RInv, Boot PROVE Allowed /\ Prompt
  OBVIOUS
<1> USE DEF RInv, PInv, IInv
<1>0. Shape(ctl) /\ ctl \in Ctl /\ UNCHANGED <<enable, driver>>
  BY DEF Shape, Boot, BootInitialiseStateController, BootStartStateController,
         BootInitialiseContactorController
<1>1. CASE BootInitialiseStateController
  <2>1. scsWaitingForInternalSafety \in state_controller_state_t \ OperatingStates
    BY DEF state_controller_state_t, OperatingStates
  <2>2. /\ ctl.state = scsInitialising /\ ~ctl.started /\ boot' = 1
        /\ ctl' = transition_state(ctl, scsWaitingForInternalSafety)
    BY <1>1 DEF BootInitialiseStateController
  <2>3. ctl'.started = ctl.started
        /\ (Same(ctl, ctl') \/ At(ctl', scsWaitingForInternalSafety, {}))
    BY <1>0, <2>1, <2>2, TransitionOpens DEF Same
  <2>4. Allowed
    <3>1. At(ctl', scsWaitingForInternalSafety, {}) => Tractive!Start
      BY <2>2 DEF At, Tractive!Start, Tractive!Goto
    <3> QED BY <1>0, <2>3, <3>1, StutterAllowed, StateStepAllowed
  <2>5. Prompt
    BY <2>2, <2>3 DEF Prompt, PromptPrecharge, Same, At
  <2> QED BY <2>4, <2>5
<1>2. CASE BootStartStateController
  <2>1. ctl'.state = ctl.state /\ ctl'.coils = ctl.coils /\ boot = 1 /\ boot' = 2
    BY <1>0, <1>2 DEF BootStartStateController, Ctl
  <2>2. Allowed
    BY <1>0, <2>1 DEF Allowed, Tractive!tractiveVars
  <2> QED BY <2>1, <2>2 DEF Prompt, PromptPrecharge
<1>3. CASE BootInitialiseContactorController
  <2>1. /\ Same(ctl, ctl') /\ ctl'.signal = ctl.signal
        /\ ctl'.overflow = ctl.overflow /\ boot' = 3
    BY <1>0, <1>3 DEF BootInitialiseContactorController, initialise_contactors, Ctl, Same, At
  <2>2. Allowed
    BY <1>0, <2>1, StutterAllowed
  <2> QED BY <1>0, <2>1, <2>2 DEF Prompt, PromptPrecharge, Same, At, Alive
<1> QED BY <1>1, <1>2, <1>3 DEF Boot

(* The driver's events are steps of TractiveSystem.                        *)
LEMMA DriverAllowed ==
  ASSUME RInv, NotifyDriver \/ \E v \in BOOLEAN : PushTractiveEnable(v)
  PROVE  Allowed /\ Prompt
<1> USE DEF RInv, PInv, IInv
<1>0. Shape(ctl) /\ ctl \in Ctl /\ TypeOK
  BY DEF Shape
<1>1. ASSUME NEW v \in BOOLEAN, PushTractiveEnable(v) PROVE Allowed /\ Prompt
  <2>1. Tractive!Command(v)
    BY <1>1 DEF PushTractiveEnable, Tractive!Command
  <2>2. Allowed
    BY <2>1 DEF Allowed, Tractive!TractiveNext
  <2> QED BY <1>1, <2>2 DEF PushTractiveEnable, Prompt, PromptPrecharge
<1>2. CASE NotifyDriver /\ driver = "enables"
  <2>1. /\ ctl' = Signal(ctl) /\ UNCHANGED <<enable, boot>>
        /\ driver' \in {"enables", "idle"}
    BY <1>2 DEF NotifyDriver, notify_enables
  <2>2. Same(ctl, Signal(ctl)) /\ Signal(ctl).signal = ctl.started
    BY <1>0 DEF Signal, Ctl, Same, At
  <2>3. Allowed
    BY <1>2, <2>1, <2>2 DEF Allowed, Tractive!tractiveVars, Same, At
  <2> QED BY <2>1, <2>2, <2>3 DEF Prompt, PromptPrecharge, Same, At
<1>3. CASE NotifyDriver /\ driver # "enables"
  <2> DEFINE d == IF Resettable(ctl.state)
                  THEN transition_state(ctl, scsWaitingForInternalSafety) ELSE ctl
  <2>1. /\ driver = "deactivates" /\ ~ctl.overflow /\ UNCHANGED <<enable, boot>>
        /\ ctl' = IF d.overflow THEN d ELSE Signal(d)
        /\ driver' = IF ctl'.overflow THEN driver ELSE "idle"
    BY <1>0, <1>3 DEF NotifyDriver, notify_deactivates, TypeOK, Alive
  <2>2. scsWaitingForInternalSafety \in state_controller_state_t \ OperatingStates
    BY DEF state_controller_state_t, OperatingStates
  <2>3. \/ d.overflow /\ Same(ctl, d)
        \/ /\ ~d.overflow /\ d.started = ctl.started
           /\ IF ctl.state = scsInitialising THEN At(d, ctl.state, ctl.coils)
              ELSE At(d, scsWaitingForInternalSafety, {})
    <3>1. CASE Resettable(ctl.state)
      BY <1>0, <2>2, <3>1, TransitionOpens DEF Resettable
    <3>2. CASE ~Resettable(ctl.state)
      <4>1. ctl.state = scsInitialising
        BY <1>0, <3>2 DEF Resettable, Ctl, state_controller_state_t
      <4> QED BY <2>1, <3>2, <4>1 DEF At
    <3> QED BY <3>1, <3>2
  <2>4. Shape(d)
    BY <1>0, <2>2, TransitionShape DEF Keeps, OperatingStates
  <2>5. /\ Signal(d).state = d.state /\ Signal(d).coils = d.coils
        /\ Signal(d).started = d.started /\ Signal(d).overflow = d.overflow
    BY <2>4 DEF Signal, Shape, Ctl
  <2> HIDE DEF d
  <2>6. Allowed
    <3>1. CASE d.overflow
      BY <2>1, <2>3, <3>1, StutterAllowed
    <3>2. CASE ~d.overflow
      <4>1. Tractive!Withdraw
        BY <2>1, <2>3, <2>5, <3>2 DEF Tractive!Withdraw, Tractive!Goto, At
      <4> QED BY <4>1 DEF Allowed, Tractive!TractiveNext
    <3> QED BY <3>1, <3>2
  <2>7. Prompt
    BY <2>1, <2>3, <2>5 DEF Prompt, PromptPrecharge, Alive, Same, At
  <2> QED BY <2>6, <2>7
<1> QED BY <1>1, <1>2, <1>3

(* SysTick, the timer thread and the inputs.                               *)
LEMMA TimerAllowed ==
  ASSUME RInv, TimerThread \/ (\E t \in Timers : TimerExpires(t)) \/ Environment \/ UNCHANGED vars
  PROVE  Allowed /\ Prompt
<1> USE DEF RInv, PInv, IInv
<1>0. Shape(ctl) /\ ctl \in Ctl /\ UNCHANGED <<enable, driver, boot>>
  BY DEF Shape, TimerThread, TimerExpires, Environment, vars
<1>1. ASSUME Same(ctl, ctl'), ctl'.signal = ctl.signal, ctl'.overflow = ctl.overflow
      PROVE  Allowed /\ Prompt
  <2>1. Allowed
    BY <1>0, <1>1, StutterAllowed
  <2> QED BY <1>0, <1>1, <2>1 DEF Prompt, PromptPrecharge, Alive, Same, At
<1>2. ASSUME NEW t \in Timers, TimerExpires(t) PROVE Allowed /\ Prompt
  BY <1>0, <1>1, <1>2 DEF TimerExpires, Same, At, Ctl
<1>3. CASE Environment \/ UNCHANGED vars
  BY <1>1, <1>3 DEF Environment, vars, Same, At
<1>4. CASE TimerThread
  <2>1. ctl' = Callback(ctl, Head(timerQ)) /\ ~ctl.overflow
    BY <1>4 DEF TimerThread, Alive
  <2>2. CASE Head(timerQ) = "minimum" /\ ctl.state = scsStartedPrecharge
    <3>1. scsPrechargeMinimumTimeExceeded \in state_controller_state_t
      BY DEF state_controller_state_t
    <3>2. /\ ctl' = transition_state(ctl, scsPrechargeMinimumTimeExceeded)
          /\ PushFor(ctl, scsPrechargeMinimumTimeExceeded) = ctl
      BY <2>1, <2>2 DEF Callback, precharge_timer_fire, PushFor
    <3>3. /\ At(ctl', scsPrechargeMinimumTimeExceeded, ctl.coils)
          /\ ctl'.started = ctl.started
      BY <1>0, <2>1, <2>2, <3>1, <3>2, TransitionFields, TransitionOutcome DEF At, Same
    <3>4. Tractive!MinimumTime
      BY <2>2, <3>3 DEF Tractive!MinimumTime, Tractive!Goto, At
    <3> QED BY <1>0, <3>3, <3>4, StateStepAllowed DEF Prompt, PromptPrecharge, At
  <2>3. CASE ~(Head(timerQ) = "minimum" /\ ctl.state = scsStartedPrecharge)
    BY <1>0, <1>1, <2>1, <2>3 DEF Callback, precharge_timer_fire, toggle_cb, Same, At, Ctl
  <2> QED BY <2>2, <2>3
<1> QED BY <1>2, <1>3, <1>4

(* The StateController thread.                                             *)
LEMMA ThreadAllowed == RInv /\ StateControllerThread => Allowed /\ Prompt
<1> SUFFICES ASSUME RInv, StateControllerThread PROVE Allowed /\ Prompt
  OBVIOUS
<1> USE DEF RInv, PInv, IInv
<1> DEFINE w == Wake(ctl)
           waiting == process_waiting_states(w)
           activated == process_activated_states(w)
<1>0. /\ Shape(ctl) /\ ctl \in Ctl /\ UNCHANGED <<enable, driver, boot>>
      /\ boot = 2 \/ boot = 3
  <2>1. ctl.started /\ UNCHANGED <<enable, driver, boot>>
    BY DEF StateControllerThread, StepIdle, StepWaiting, StepReadyToPrecharge,
           StepActivated, StepMinimumTimeExceeded, Step
  <2>2. boot \in 0 .. 3
    BY DEF TypeOK, BootSteps
  <2> QED BY <2>1, <2>2 DEF Shape
<1>1. Shape(w) /\ Same(ctl, w)
  <2>1. Shape(w)
    BY <1>0, SignalShape DEF Keeps
  <2> QED BY <1>0, <2>1 DEF Wake, Ctl, Same, At
<1>2. ASSUME ctl'.overflow \/ ctl'.state # scsWaitingForPrechargeActivation \/ ~enable
      PROVE  Prompt
  BY <1>0, <1>2 DEF Prompt, PromptPrecharge, Alive
<1>3. /\ scsLatchingError \in state_controller_state_t \ OperatingStates
      /\ scsWaitingForPrechargeActivation \in state_controller_state_t \ OperatingStates
      /\ WaitingTarget \in state_controller_state_t \ OperatingStates
      /\ WaitingTarget \in scsWaitingForInternalSafety .. scsWaitingForShutdownCircuit
  BY DEF state_controller_state_t, OperatingStates, WaitingTarget
<1>4. \/ Healthy /\ waiting = w
      \/ waiting.overflow /\ Same(w, waiting) /\ ~Healthy
      \/ At(waiting, WaitingTarget, {}) /\ ~Healthy
  BY <1>1, <1>3, TransitionOpens DEF process_waiting_states
<1>5. \/ Healthy /\ activated = w
      \/ activated.overflow /\ Same(w, activated)
      \/ At(activated, scsLatchingError, {})
  BY <1>1, <1>3, TransitionOpens DEF process_activated_states
<1>6. Shape(waiting) /\ Shape(activated)
  <2>1. Shape(transition_state(w, WaitingTarget)) /\ Shape(transition_state(w, scsLatchingError))
    BY <1>1, <1>3, TransitionShape DEF Keeps, OperatingStates
  <2> QED BY <1>1, <2>1 DEF process_waiting_states, process_activated_states
<1> HIDE DEF w, waiting, activated
<1>7. CASE StepIdle
  <2>1. Same(ctl, ctl') /\ ctl'.state # scsWaitingForPrechargeActivation
    <3>1. /\ ctl' = w
          /\ ctl.state \in {scsInitialising, scsNonResettableLatchingError, scsLatchingError}
      BY <1>7 DEF StepIdle, Step, w
    <3> QED BY <1>1, <3>1 DEF Same, At
  <2> QED BY <1>0, <1>2, <2>1, StutterAllowed
<1>8. CASE StepWaiting
  <2>1. /\ ctl.state \in scsWaitingForInternalSafety .. scsWaitingForShutdownCircuit
        /\ ctl' = IF enable THEN transition_state(waiting, scsLatchingError)
                  ELSE IF Healthy THEN transition_state(waiting, scsWaitingForPrechargeActivation)
                  ELSE waiting
    BY <1>8 DEF StepWaiting, Step, waiting, w
  <2>2. /\ ctl.coils = {} /\ waiting.coils = {}
        /\ waiting.state \in scsWaitingForInternalSafety .. scsWaitingForShutdownCircuit
    BY <1>0, <1>1, <1>3, <1>4, <2>1, SafeMeansOpen DEF Same, At, OperatingStates
  <2>3. /\ \/ enable /\ At(ctl', scsLatchingError, {})
           \/ ctl'.state \in scsWaitingForInternalSafety .. scsWaitingForPrechargeActivation
              /\ ctl'.coils = {}
        /\ enable => ctl'.overflow \/ ctl'.state = scsLatchingError
    BY <1>3, <1>6, <2>1, <2>2, TransitionOpens DEF Same, At
  <2>4. Tractive!Check
    BY <2>1, <2>3 DEF Tractive!Check, Tractive!Goto, At
  <2> QED BY <1>0, <1>2, <2>3, <2>4, StateStepAllowed
<1>9. CASE StepReadyToPrecharge
  <2>1. /\ ctl.state = scsWaitingForPrechargeActivation
        /\ ctl' = IF Healthy /\ enable THEN transition_state(waiting, scsStartedPrecharge)
                  ELSE waiting
    BY <1>9 DEF StepReadyToPrecharge, Step, waiting, w
  <2>2. ctl.coils = {}
    BY <1>0, <2>1, SafeMeansOpen DEF OperatingStates
  <2>3. CASE Healthy /\ enable
    <3>1. /\ ctl' = transition_state(w, scsStartedPrecharge)
          /\ w.state = scsWaitingForPrechargeActivation
      BY <1>1, <1>4, <2>1, <2>3 DEF Same, At
    <3>2. \/ ctl'.overflow /\ Same(ctl, ctl')
          \/ At(ctl', scsStartedPrecharge, {"precharge"})
      BY <1>1, <3>1, TransitionPrecharges DEF Same, At
    <3>3. At(ctl', scsStartedPrecharge, {"precharge"}) => Tractive!BeginPrecharge
      BY <2>1, <2>3 DEF Tractive!BeginPrecharge, Tractive!Goto, At
    <3> QED BY <1>0, <1>2, <3>2, <3>3, StutterAllowed, StateStepAllowed DEF At
  <2>4. CASE ~(Healthy /\ enable)
    <3>1. /\ ctl'.state \in scsWaitingForInternalSafety .. scsWaitingForPrechargeActivation
          /\ ctl'.coils = {}
          /\ enable => ctl'.overflow \/ ctl'.state # scsWaitingForPrechargeActivation
      BY <1>1, <1>3, <1>4, <2>1, <2>2, <2>4 DEF Same, At
    <3>2. Tractive!Check
      BY <2>1, <3>1 DEF Tractive!Check, Tractive!Goto
    <3> QED BY <1>0, <1>2, <3>1, <3>2, StateStepAllowed
  <2> QED BY <2>3, <2>4
<1>10. CASE StepActivated
  <2>1. ctl.state \in {scsStartedPrecharge, scsTractiveSystemRaceReady} /\ ctl' = activated
    BY <1>10 DEF StepActivated, Step, activated, w
  <2>2. Same(ctl, ctl') \/ At(ctl', scsLatchingError, {})
    BY <1>1, <1>5, <2>1 DEF Same, At
  <2>3. At(ctl', scsLatchingError, {}) => Tractive!Latch
    BY <2>1 DEF Tractive!Latch, Tractive!Goto, At
  <2>4. ctl'.state # scsWaitingForPrechargeActivation
    BY <2>1, <2>2 DEF Same, At
  <2> QED BY <1>0, <1>2, <2>2, <2>3, <2>4, StutterAllowed, StateStepAllowed
<1>11. CASE StepMinimumTimeExceeded
  <2> DEFINE s == IF PrechargeComplete THEN scsTractiveSystemRaceReady ELSE scsLatchingError
  <2>1. /\ ctl.state = scsPrechargeMinimumTimeExceeded
        /\ ctl' = transition_state(activated, s)
    BY <1>11 DEF StepMinimumTimeExceeded, Step, activated, w
  <2>2. \/ Same(activated, ctl')
        \/ At(ctl', scsLatchingError, {})
        \/ /\ ctl'.state = scsTractiveSystemRaceReady
           /\ ctl'.coils \in {{}, {"precharge", "run"}}
    BY <1>3, <1>6, <2>1, TransitionOpens, TransitionCompletes
  <2>3. \/ Same(ctl, ctl')
        \/ At(ctl', scsLatchingError, {})
        \/ /\ ctl'.state = scsTractiveSystemRaceReady
           /\ ctl'.coils \in {{}, {"precharge", "run"}}
    BY <1>1, <1>5, <2>2 DEF Same, At
  <2>4. CASE Same(ctl, ctl')
    BY <1>0, <1>2, <2>1, <2>4, StutterAllowed DEF Same, At
  <2>5. CASE At(ctl', scsLatchingError, {})
    <3>1. Tractive!Latch
      BY <2>1, <2>5 DEF Tractive!Latch, Tractive!Goto, At
    <3> QED BY <1>0, <1>2, <2>5, <3>1, StateStepAllowed DEF At
  <2>6. CASE /\ ctl'.state = scsTractiveSystemRaceReady
             /\ ctl'.coils \in {{}, {"precharge", "run"}}
    <3>1. Tractive!Close \/ Tractive!ReadyButOpen
      BY <2>1, <2>6 DEF Tractive!Close, Tractive!ReadyButOpen, Tractive!Goto
    <3> QED BY <1>0, <1>2, <2>6, <3>1, StateStepAllowed
  <2> QED BY <2>3, <2>4, <2>5, <2>6
<1> QED BY <1>7, <1>8, <1>9, <1>10, <1>11 DEF StateControllerThread
------------------------------------------------------------------------------
(* The initial states satisfy the refinement's invariant.                  *)
LEMMA InitRInv == Init => RInv /\ Tractive!TractiveInit
BY InitPInv DEF RInv, Init, PromptPrecharge, Tractive!TractiveInit

(* TractiveSystem never enters the state the code never enters.            *)
LEMMA NeverNonResettable ==
  Allowed /\ ctl.state # scsNonResettableLatchingError
    => ctl'.state # scsNonResettableLatchingError
BY DEF Allowed, Tractive!TractiveNext, Tractive!StateStep, Tractive!Start, Tractive!Check,
       Tractive!BeginPrecharge, Tractive!MinimumTime, Tractive!Close,
       Tractive!ReadyButOpen, Tractive!Latch, Tractive!Command, Tractive!Withdraw,
       Tractive!Goto, Tractive!tractiveVars

(* Every step preserves the refinement's invariant.                        *)
LEMMA NextRInv == RInv /\ [Next]_vars => RInv' /\ Allowed
<1> SUFFICES ASSUME RInv, [Next]_vars PROVE RInv' /\ Allowed
  OBVIOUS
<1>1. PInv'
  BY NextPInv DEF RInv
<1>2. Allowed /\ Prompt
  BY BootAllowed, DriverAllowed, ThreadAllowed, TimerAllowed DEF Next
<1> QED BY <1>1, <1>2, NeverNonResettable DEF RInv, Prompt

(* The refinement's invariant holds in every behaviour.                    *)
LEMMA RInvHolds == Spec => []RInv /\ [][Allowed]_vars
BY InitRInv, NextRInv, PTL DEF Spec

(* The precharge coil goes on with the transition into precharge alone:    *)
(* the other step that drives it finds it driven.                          *)
LEMMA BeginsFromReady ==
  ASSUME RInv, RInv', [Next]_vars, "precharge" \in ctl'.coils \ ctl.coils
  PROVE  /\ ctl.state = scsWaitingForPrechargeActivation
         /\ enable /\ UNCHANGED enable
         /\ ctl'.state = scsStartedPrecharge
<1>1. Allowed /\ StepAllowed
  BY NextRInv, NextPInv DEF RInv
<1>2. Shape(ctl) /\ Shape(ctl)'
  BY DEF RInv, PInv, IInv
<1>3. "precharge" \in ctl'.coils /\ "precharge" \notin ctl.coils
  OBVIOUS
<1>4. ~Tractive!Close
  <2> SUFFICES ASSUME Tractive!Close PROVE FALSE
    OBVIOUS
  <2>1. ctl'.coils = {"precharge", "run"}
    BY DEF Tractive!Close, Tractive!Goto
  <2>2. ctl'.contactor = hvcHighCurrentRun
    BY <1>2, <2>1, DrivenValues DEF Shape, ReachableContactor
  <2>3. ctl.contactor \in {hvcHighCurrentRun, hvcPrecharge}
    BY <1>1, <2>2 DEF StepAllowed, KeepsRunOpen, ClosesRun
  <2> QED BY <1>2, <1>3, <2>3, DrivenValues DEF Shape
<1> QED BY <1>1, <1>3, <1>4 DEF Allowed, Tractive!TractiveNext, Tractive!StateStep,
       Tractive!Start, Tractive!Check, Tractive!BeginPrecharge, Tractive!MinimumTime,
       Tractive!ReadyButOpen, Tractive!Latch, Tractive!Command,
       Tractive!Withdraw, Tractive!Goto, Tractive!tractiveVars

(* Precharge begins from the state ready for it alone.                     *)
LEMMA StartsFromReady ==
  ASSUME RInv, Allowed, ctl.state # scsStartedPrecharge, ctl'.state = scsStartedPrecharge
  PROVE  ctl.state = scsWaitingForPrechargeActivation /\ enable /\ ctl'.coils = {"precharge"}
BY DEF Allowed, Tractive!TractiveNext, Tractive!StateStep,
       Tractive!Start, Tractive!Check, Tractive!BeginPrecharge, Tractive!MinimumTime,
       Tractive!Close, Tractive!ReadyButOpen, Tractive!Latch, Tractive!Command,
       Tractive!Withdraw, Tractive!Goto, Tractive!tractiveVars

(* An enable that lasts keeps the state machine from starting over: only a *)
(* withdrawal leads back, and the bit is off before it is announced.       *)
LEMMA SpentEnableLasts ==
  ASSUME RInv, Allowed, enable,
         ctl.state \in OperatingStates \cup {scsLatchingError}
  PROVE  ctl'.state \in OperatingStates \cup {scsLatchingError}
<1>1. driver # "deactivates"
  BY DEF RInv, PInv
<1>2. ~Tractive!Withdraw
  BY <1>1 DEF Tractive!Withdraw
<1>3. ~Tractive!Start /\ ~Tractive!Check /\ ~Tractive!BeginPrecharge
  BY DEF Tractive!Start, Tractive!Check, Tractive!BeginPrecharge, OperatingStates
<1>4. Tractive!MinimumTime \/ Tractive!Close \/ Tractive!ReadyButOpen \/ Tractive!Latch
      \/ UNCHANGED ctl.state
  <2>1. ASSUME NEW v \in BOOLEAN, Tractive!Command(v) PROVE UNCHANGED ctl.state
    BY <2>1 DEF Tractive!Command
  <2> QED BY <1>2, <1>3, <2>1 DEF Allowed, Tractive!TractiveNext, Tractive!StateStep,
                                  Tractive!tractiveVars
<1> QED BY <1>4 DEF OperatingStates, Tractive!MinimumTime, Tractive!Close,
       Tractive!ReadyButOpen, Tractive!Latch, Tractive!Goto
------------------------------------------------------------------------------
(* An enable that finds the system ready for precharge leaves its signal   *)
(* for the thread: no turn, callback or nested event swallows it           *)
(* (notify_event, state_machine_process_step).                             *)
THEOREM EnableIsPrompt == Spec => []PromptPrecharge
<1>1. RInv => PromptPrecharge
  BY DEF RInv
<1> QED BY <1>1, RInvHolds, PTL

(* Every step of main(), the CAN thread, the state machine, SysTick and    *)
(* the timer thread is a step TractiveSystem allows, or none               *)
(* (transition_state, push_state, notify_event).                           *)
THEOREM ImplementsTractive == Spec => ImplementsTractiveSystem
<1>1. RInv /\ [Next]_vars => [Tractive!TractiveNext]_Tractive!tractiveVars
  BY NextRInv DEF Allowed
<1> QED BY <1>1, InitRInv, RInvHolds, PTL DEF Spec, ImplementsTractiveSystem, Tractive!TractiveSpec
--------------------------------------------------------------------------------
(* As long as the enable a precharge began with lasts, the state machine   *)
(* is in that precharge, in the run after it or in the latch.              *)
SpentEnable ==
  ~cycled => enable /\ ctl.state \in OperatingStates \cup {scsLatchingError}

(* Every step keeps SpentEnable, and the contactors begin to close only    *)
(* after a cycle of the enable bit.                                        *)
LEMMA NextSpentEnable ==
  ASSUME RInv, SpentEnable, [NextObserved]_<<vars, cycled>>
  PROVE  RInv' /\ SpentEnable' /\ (PrechargeBegins => cycled)
<1>1. [Next]_vars
  BY DEF NextObserved
<1>2. RInv' /\ Allowed
  BY <1>1, NextRInv
<1>3. PrechargeBegins => cycled
  BY <1>1, <1>2, BeginsFromReady DEF PrechargeBegins, SpentEnable, OperatingStates
<1>4. CASE NextObserved /\ PrechargeBegins
  BY <1>1, <1>2, <1>3, <1>4, BeginsFromReady DEF PrechargeBegins, SpentEnable, OperatingStates
<1>5. CASE NextObserved /\ ~PrechargeBegins
  BY <1>2, <1>3, <1>5, SpentEnableLasts DEF SpentEnable, NextObserved
<1>6. CASE UNCHANGED <<vars, cycled>>
  BY <1>2, <1>3, <1>6 DEF SpentEnable, vars
<1> QED BY <1>4, <1>5, <1>6

(* After any end of a precharge or a run the contactors do not begin to    *)
(* close again before tractive_power_enable_bit has been off               *)
(* (process_activated_states, notify_event, StateController.hpp:15).       *)
THEOREM EnableClosesOnce == SpecObserved => NoRestartWithoutEnableCycle
<1>1. InitObserved => RInv /\ SpentEnable
  BY InitRInv DEF InitObserved, SpentEnable
<1>2. RInv /\ SpentEnable /\ [NextObserved]_<<vars, cycled>>
        => (RInv /\ SpentEnable)' /\ (PrechargeBegins => cycled)
  BY NextSpentEnable
<1> QED BY <1>1, <1>2, PTL DEF SpecObserved, NoRestartWithoutEnableCycle
--------------------------------------------------------------------------------
Counts(c) == "minimum" \in c.running

CountsInPrecharge(c) == Counts(c) => c.state = scsStartedPrecharge

(* No request to the contactors starts precharge_timer.                    *)
LEMMA PushMinimum ==
  ASSUME NEW c, Shape(c), NEW new \in {hvcAllOpen, hvcPrecharge, hvcHighCurrentRun},
         Counts(push_state(c, new, notify_error(c)))
  PROVE  Counts(c)
<1>1. ASSUME NEW d \in Ctl, NEW s, Counts(Sync(d, s)) PROVE Counts(d)
  <2>1. "minimum" \notin Contactors
    BY DEF Contactors
  <2> DEFINE toggled == {k \in Contactors : (k \in d.coils) # (k \in Driven(s))}
  <2>2. Sync(d, s).running = d.running \cup toggled
    BY DEF Sync, Ctl
  <2>3. "minimum" \notin toggled
    BY <2>1
  <2> HIDE DEF toggled
  <2> QED BY <1>1, <2>2, <2>3 DEF Counts
<1>2. notify_error(c) \in Ctl /\ c \in Ctl
  BY NotifyErrorShape DEF Keeps, Shape
<1>3. Counts(notify_error(c)) => Counts(c)
  <2>1. Signal(c).running = c.running /\ ExhaustStack(c).running = c.running
    BY <1>2 DEF Signal, ExhaustStack, Ctl
  <2>2. ~Counts(Signal(Enter(c, scsWaitingForInternalSafety)))
    <3> DEFINE o == Sync(c, hvcAllOpen)
    <3>1. o \in Ctl
      BY <1>2, SyncFields DEF contactor_state_t
    <3> HIDE DEF o
    <3>2. Enter(c, scsWaitingForInternalSafety)
            = [o EXCEPT !.running = TimerFor(scsWaitingForInternalSafety, o.running),
                        !.state = scsWaitingForInternalSafety]
      BY <3>1 DEF Enter, SetState, Ctl, o
    <3>3. Signal(Enter(c, scsWaitingForInternalSafety)).running
            = TimerFor(scsWaitingForInternalSafety, o.running)
      BY <3>1, <3>2 DEF Signal, Ctl
    <3> QED BY <3>3 DEF Counts, TimerFor, OpensContactors
  <2> QED BY <2>1, <2>2 DEF notify_error, Counts
<1> QED BY <1>1, <1>2, <1>3 DEF push_state

(* A transition starts the timer in scsStartedPrecharge, stops it in the   *)
(* states that open the contactors, and otherwise leaves it alone.         *)
LEMMA TransitionMinimum ==
  ASSUME NEW c, Shape(c), CountsInPrecharge(c),
         NEW s \in state_controller_state_t,
         s \in {scsPrechargeMinimumTimeExceeded, scsTractiveSystemRaceReady} => ~Counts(c)
  PROVE  /\ CountsInPrecharge(transition_state(c, s))
         /\ transition_state(c, s).state \in {c.state, s}
         /\ s \notin {c.state, scsStartedPrecharge} /\ Counts(transition_state(c, s))
              => Counts(c)
<1>1. c \in Ctl
  BY DEF Shape
<1>2. CASE transition_state(c, s) = ExhaustStack(c)
  <2>1. ExhaustStack(c).state = c.state /\ ExhaustStack(c).running = c.running
    BY <1>1 DEF ExhaustStack, Ctl
  <2> QED BY <1>2, <2>1 DEF CountsInPrecharge, Counts
<1>3. CASE /\ transition_state(c, s).state = s
           /\ transition_state(c, s).running = TimerFor(s, PushFor(c, s).running)
  <2>1. Counts(PushFor(c, s)) => Counts(c)
    <3>1. ContactorsFor(s) \in {hvcAllOpen, hvcPrecharge, hvcHighCurrentRun}
      BY DEF ContactorsFor
    <3> QED BY <3>1, PushMinimum DEF PushFor
  <2>2. s \in 0 .. 9
    BY DEF state_controller_state_t
  <2> QED BY <1>3, <2>1, <2>2 DEF CountsInPrecharge, Counts, TimerFor, OpensContactors
<1> QED BY <1>2, <1>3, TransitionFields

(* What a step may do to precharge_timer, unless it is the callback: it    *)
(* counts on only if it counted, or if precharge begins.                   *)
Quiet(c, d) ==
  /\ CountsInPrecharge(d)
  /\ c.state = scsStartedPrecharge /\ Counts(d) => Counts(c)
  /\ d.state = scsPrechargeMinimumTimeExceeded => c.state = d.state

(* Taking and setting the signal leave the state and the timers alone.     *)
LEMMA WakeQuiet ==
  ASSUME NEW c, Shape(c), CountsInPrecharge(c)
  PROVE  /\ Shape(Wake(c)) /\ Shape(Signal(c))
         /\ Wake(c).state = c.state /\ Signal(c).state = c.state
         /\ Wake(c).running = c.running /\ Signal(c).running = c.running
         /\ CountsInPrecharge(Wake(c))
<1>1. Shape(Wake(c)) /\ Shape(Signal(c))
  BY SignalShape DEF Keeps
<1>2. /\ Wake(c).state = c.state /\ Signal(c).state = c.state
      /\ Wake(c).running = c.running /\ Signal(c).running = c.running
  BY DEF Shape, Wake, Signal, Ctl
<1> QED BY <1>1, <1>2 DEF CountsInPrecharge, Counts

(* A turn of the StateController thread starts precharge_timer only where  *)
(* a precharge begins.                                                     *)
LEMMA ThreadQuiet ==
  ASSUME RInv, CountsInPrecharge(ctl), StateControllerThread
  PROVE  Quiet(ctl, ctl')
<1> DEFINE w == Wake(ctl)
           waiting == process_waiting_states(w)
           activated == process_activated_states(w)
<1>1. Shape(ctl)
  BY DEF RInv, PInv, IInv
<1>2. /\ Shape(w) /\ w.state = ctl.state /\ w.running = ctl.running
      /\ CountsInPrecharge(w)
  BY <1>1, WakeQuiet
<1>3. /\ {scsLatchingError, scsWaitingForPrechargeActivation, scsStartedPrecharge,
          scsTractiveSystemRaceReady, WaitingTarget} \subseteq state_controller_state_t
      /\ WaitingTarget \in scsWaitingForInternalSafety .. scsWaitingForShutdownCircuit
  BY DEF state_controller_state_t, WaitingTarget
<1>4. /\ Shape(waiting) /\ CountsInPrecharge(waiting)
      /\ waiting.state \in {w.state, WaitingTarget}
  <2>1. /\ Shape(transition_state(w, WaitingTarget))
        /\ CountsInPrecharge(transition_state(w, WaitingTarget))
        /\ transition_state(w, WaitingTarget).state \in {w.state, WaitingTarget}
    BY <1>2, <1>3, TransitionMinimum, TransitionShape DEF Keeps
  <2> QED BY <1>2, <2>1 DEF process_waiting_states
<1>5. /\ Shape(activated) /\ CountsInPrecharge(activated)
      /\ activated.state \in {w.state, scsLatchingError}
      /\ w.state # scsLatchingError /\ Counts(activated) => Counts(w)
  <2>1. /\ Shape(transition_state(w, scsLatchingError))
        /\ CountsInPrecharge(transition_state(w, scsLatchingError))
        /\ transition_state(w, scsLatchingError).state \in {w.state, scsLatchingError}
        /\ w.state # scsLatchingError /\ Counts(transition_state(w, scsLatchingError))
             => Counts(w)
    BY <1>2, <1>3, TransitionMinimum, TransitionShape DEF Keeps
  <2> QED BY <1>2, <2>1 DEF process_activated_states
<1> HIDE DEF w, waiting, activated
<1>6. CASE StepIdle
  <2>1. ctl' = w
    BY <1>6 DEF StepIdle, Step, w
  <2> QED BY <1>2, <2>1 DEF Quiet, Counts
<1>7. CASE StepWaiting
  <2>1. /\ ctl.state \in scsWaitingForInternalSafety .. scsWaitingForShutdownCircuit
        /\ ctl' = IF enable THEN transition_state(waiting, scsLatchingError)
                  ELSE IF Healthy THEN transition_state(waiting, scsWaitingForPrechargeActivation)
                  ELSE waiting
    BY <1>7 DEF StepWaiting, Step, waiting, w
  <2>2. /\ CountsInPrecharge(ctl')
        /\ ctl'.state \in {waiting.state, scsLatchingError, scsWaitingForPrechargeActivation}
    BY <1>3, <1>4, <2>1, TransitionMinimum
  <2> QED BY <1>2, <1>3, <1>4, <2>1, <2>2 DEF Quiet
<1>8. CASE StepReadyToPrecharge
  <2>1. /\ ctl.state = scsWaitingForPrechargeActivation
        /\ ctl' = IF Healthy /\ enable THEN transition_state(waiting, scsStartedPrecharge)
                  ELSE waiting
    BY <1>8 DEF StepReadyToPrecharge, Step, waiting, w
  <2>2. CountsInPrecharge(ctl') /\ ctl'.state \in {waiting.state, scsStartedPrecharge}
    BY <1>3, <1>4, <2>1, TransitionMinimum
  <2> QED BY <1>2, <1>3, <1>4, <2>1, <2>2 DEF Quiet
<1>9. CASE StepActivated
  <2>1. /\ ctl.state \in {scsStartedPrecharge, scsTractiveSystemRaceReady}
        /\ ctl' = activated
    BY <1>9 DEF StepActivated, Step, activated, w
  <2> QED BY <1>2, <1>5, <2>1 DEF Quiet, Counts
<1>10. CASE StepMinimumTimeExceeded
  <2> DEFINE s == IF PrechargeComplete THEN scsTractiveSystemRaceReady ELSE scsLatchingError
  <2>1. /\ ctl.state = scsPrechargeMinimumTimeExceeded
        /\ ctl' = transition_state(activated, s)
    BY <1>10 DEF StepMinimumTimeExceeded, Step, activated, w
  <2>2. ~Counts(activated)
    BY <1>2, <1>5, <2>1 DEF CountsInPrecharge
  <2>3. CountsInPrecharge(ctl')
    BY <1>3, <1>5, <2>1, <2>2, TransitionMinimum
  <2> QED BY <2>1, <2>3 DEF Quiet
<1> QED BY <1>6, <1>7, <1>8, <1>9, <1>10 DEF StateControllerThread

(* The callback of precharge_timer that ends a precharge.                  *)
EndsPrecharge ==
  /\ Queued("minimum")
  /\ ctl'.state = scsPrechargeMinimumTimeExceeded
  /\ Counts(ctl') => Counts(ctl)

(* Every step of a thread, and every expiry of another timer.              *)
LEMMA StepQuiet ==
  ASSUME RInv, CountsInPrecharge(ctl), ThreadStep
  PROVE  /\ Queued("minimum")' => Queued("minimum")
         /\ Quiet(ctl, ctl') \/ EndsPrecharge
<1>1. Shape(ctl) /\ ctl \in Ctl /\ timerQ \in Seq(Timers)
  BY DEF RInv, PInv, IInv, TypeOK, Shape
<1>2. Quiet(ctl, ctl)
  BY DEF Quiet
<1>3. ASSUME ctl'.running = ctl.running, ctl'.state = ctl.state PROVE Quiet(ctl, ctl')
  BY <1>2, <1>3 DEF Quiet, CountsInPrecharge, Counts
<1>4. scsWaitingForInternalSafety \in state_controller_state_t
  BY DEF state_controller_state_t
<1>5. /\ Shape(transition_state(ctl, scsWaitingForInternalSafety))
      /\ Quiet(ctl, transition_state(ctl, scsWaitingForInternalSafety))
  BY <1>1, <1>4, TransitionMinimum, TransitionShape DEF Keeps, Quiet
<1>6. CASE Boot
  <2>1. CASE BootInitialiseStateController
    BY <1>5, <2>1 DEF BootInitialiseStateController, Queued
  <2>2. CASE BootStartStateController
    BY <1>1, <1>3, <2>2 DEF BootStartStateController, Queued, Ctl
  <2>3. CASE BootInitialiseContactorController
    BY <1>1, <1>3, <2>3 DEF BootInitialiseContactorController, initialise_contactors,
                            Queued, Ctl
  <2> QED BY <1>6, <2>1, <2>2, <2>3 DEF Boot
<1>7. CASE NotifyDriver
  <2> DEFINE d == IF Resettable(ctl.state)
                  THEN transition_state(ctl, scsWaitingForInternalSafety) ELSE ctl
  <2>1. UNCHANGED timerQ /\ (ctl' = Signal(ctl) \/ ctl' = d \/ ctl' = Signal(d))
    BY <1>7 DEF NotifyDriver, notify_enables, notify_deactivates
  <2>2. Shape(d) /\ Quiet(ctl, d)
    BY <1>1, <1>2, <1>5
  <2> HIDE DEF d
  <2>3. /\ Signal(ctl).running = ctl.running /\ Signal(ctl).state = ctl.state
        /\ Signal(d).running = d.running /\ Signal(d).state = d.state
    BY <1>1, <2>2, WakeQuiet DEF Quiet
  <2>4. Quiet(ctl, ctl')
    BY <1>3, <2>1, <2>2, <2>3 DEF Quiet, CountsInPrecharge, Counts
  <2> QED BY <2>1, <2>4 DEF Queued
<1>8. CASE StateControllerThread
  <2>1. UNCHANGED timerQ
    BY <1>8 DEF StateControllerThread, StepIdle, StepWaiting, StepReadyToPrecharge,
                StepActivated, StepMinimumTimeExceeded, Step
  <2> QED BY <1>8, <2>1, ThreadQuiet DEF Queued
<1>9. CASE Environment \/ \E v \in BOOLEAN : PushTractiveEnable(v)
  <2>1. UNCHANGED <<ctl, timerQ>>
    BY <1>9 DEF Environment, PushTractiveEnable
  <2> QED BY <1>3, <2>1 DEF Queued
<1>10. ASSUME NEW t \in Contactors, TimerExpires(t)
       PROVE  (Queued("minimum")' => Queued("minimum")) /\ Quiet(ctl, ctl')
  <2>1. ctl'.running = ctl.running \ {t} /\ ctl'.state = ctl.state /\ t # "minimum"
    BY <1>1, <1>10 DEF TimerExpires, Ctl, Contactors
  <2>2. Quiet(ctl, ctl')
    BY <1>2, <2>1 DEF Quiet, CountsInPrecharge, Counts
  <2>3. timerQ' = Append(timerQ, t) /\ t \in Timers
    BY <1>10 DEF TimerExpires, Timers
  <2>4. Queued("minimum")' => Queued("minimum")
    BY <1>1, <2>1, <2>3 DEF Queued
  <2> QED BY <2>2, <2>4
<1>11. CASE TimerThread
  <2>1. /\ timerQ # << >> /\ timerQ' = Tail(timerQ)
        /\ ctl' = Callback(ctl, Head(timerQ))
    BY <1>11 DEF TimerThread
  <2>2. Queued("minimum")' => Queued("minimum")
    <3> SUFFICES ASSUME NEW i \in 1 .. Len(Tail(timerQ)), Tail(timerQ)[i] = "minimum"
                 PROVE  Queued("minimum")
      BY <2>1 DEF Queued
    <3>1. i + 1 \in 1 .. Len(timerQ) /\ timerQ[i + 1] = Tail(timerQ)[i]
      BY <1>1, <2>1
    <3> QED BY <3>1 DEF Queued
  <2>3. CASE Head(timerQ) = "minimum" /\ ctl.state = scsStartedPrecharge
    <3>1. Queued("minimum")
      <4>1. 1 \in 1 .. Len(timerQ) /\ timerQ[1] = Head(timerQ)
        BY <1>1, <2>1
      <4> QED BY <2>3, <4>1 DEF Queued
    <3>2. /\ ctl' = transition_state(ctl, scsPrechargeMinimumTimeExceeded)
          /\ PushFor(ctl, scsPrechargeMinimumTimeExceeded) = ctl
          /\ scsPrechargeMinimumTimeExceeded \in state_controller_state_t
          /\ ~ctl.overflow
      BY <1>11, <2>1, <2>3 DEF Callback, precharge_timer_fire, PushFor, TimerThread, Alive,
                               state_controller_state_t
    <3>3. /\ ctl'.state = scsPrechargeMinimumTimeExceeded
          /\ ctl'.running
               = TimerFor(scsPrechargeMinimumTimeExceeded, ctl.running)
            \/ ctl' = ExhaustStack(ctl)
      BY <1>1, <3>2, TransitionFields
    <3>4. ctl' # ExhaustStack(ctl)
      BY <1>1, <2>3, <3>3 DEF ExhaustStack, Ctl
    <3> QED BY <2>2, <3>1, <3>3, <3>4 DEF EndsPrecharge, Counts, TimerFor, OpensContactors
  <2>4. CASE ~(Head(timerQ) = "minimum" /\ ctl.state = scsStartedPrecharge)
    <3>1. ctl'.running = ctl.running /\ ctl'.state = ctl.state
      BY <1>1, <2>1, <2>4 DEF Callback, precharge_timer_fire, toggle_cb, Ctl
    <3> QED BY <1>3, <2>2, <3>1
  <2> QED BY <2>3, <2>4
<1> QED BY <1>6, <1>7, <1>8, <1>9, <1>10, <1>11 DEF ThreadStep
------------------------------------------------------------------------------
(* The inductive invariant.  A counting precharge_timer and the time since *)
(* the precharge coil was driven make up MinimumTicks, and no expiry of an *)
(* earlier precharge is queued meanwhile: an expiry belongs to an enable   *)
(* that has not led back to the start, and no new enable is taken before   *)
(* its callback has run.                                                   *)
TimedInv ==
  /\ RInv
  /\ age \in 0 .. MinimumTicks
  /\ Counts(ctl) => /\ ctl.state = scsStartedPrecharge /\ ~Queued("minimum")
                    /\ left \in 1 .. MinimumTicks /\ age + left = MinimumTicks
  /\ Queued("minimum") =>
       age = MinimumTicks /\ (enable => ctl.state \in OperatingStates \cup {scsLatchingError})
  /\ ctl.state = scsPrechargeMinimumTimeExceeded => age = MinimumTicks

(* A step of the thread preserves the timing invariant.                    *)
LEMMA ThreadStepTimed ==
  ASSUME TimedInv, ThreadStep
  PROVE  TimedInv'
<1> USE MinimumTicksAssumption
<1>1. [Next]_vars
  BY DEF ThreadStep, Next, Timers
<1>2. RInv /\ RInv' /\ Allowed
  BY <1>1, NextRInv DEF TimedInv
<1>3. CountsInPrecharge(ctl)
  BY DEF TimedInv, CountsInPrecharge
<1>4. /\ Queued("minimum")' => Queued("minimum")
      /\ Quiet(ctl, ctl') \/ EndsPrecharge
  BY <1>2, <1>3, StepQuiet
<1>5. Queued("minimum") => UNCHANGED enable
  <2>1. Queued("minimum") => timerQ # << >>
    BY DEF Queued
  <2> QED BY <2>1 DEF ThreadStep, CANThreadPriority
<1>6. /\ PrechargeStarts => left' = MinimumTicks
      /\ ~PrechargeStarts => left' = left
      /\ "precharge" \in ctl'.coils \ ctl.coils => age' = 0
      /\ "precharge" \notin ctl'.coils \ ctl.coils => age' = age
  BY DEF ThreadStep
<1>7. "precharge" \in ctl'.coils \ ctl.coils
        => /\ ctl.state = scsWaitingForPrechargeActivation /\ enable
           /\ ctl'.state = scsStartedPrecharge
  BY <1>1, <1>2, BeginsFromReady
<1>8. PrechargeStarts => "precharge" \in ctl'.coils \ ctl.coils
  <2> SUFFICES ASSUME PrechargeStarts PROVE "precharge" \in ctl'.coils \ ctl.coils
    OBVIOUS
  <2>1. ctl.state = scsWaitingForPrechargeActivation /\ ctl'.coils = {"precharge"}
    BY <1>2, StartsFromReady DEF PrechargeStarts
  <2>2. ctl.coils = {}
    BY <1>2, <2>1, SafeMeansOpen DEF RInv, PInv, IInv, OperatingStates
  <2> QED BY <2>1, <2>2
<1>9. age' \in 0 .. MinimumTicks
  BY <1>6 DEF TimedInv
<1>10. ASSUME Counts(ctl')
       PROVE  /\ ctl'.state = scsStartedPrecharge /\ ~Queued("minimum")'
              /\ left' \in 1 .. MinimumTicks /\ age' + left' = MinimumTicks
  <2>1. CASE Counts(ctl)
    BY <1>3, <1>4, <1>6, <1>7, <1>10, <2>1
       DEF TimedInv, Quiet, EndsPrecharge, PrechargeStarts, CountsInPrecharge
  <2>2. CASE ~Counts(ctl)
    <3>1. Quiet(ctl, ctl') /\ PrechargeStarts
      BY <1>4, <1>10, <2>2 DEF Quiet, EndsPrecharge, CountsInPrecharge, PrechargeStarts
    <3>2. left' = MinimumTicks /\ age' = 0 /\ ctl.state = scsWaitingForPrechargeActivation /\ enable
      BY <1>6, <1>7, <1>8, <3>1
    <3>3. ~Queued("minimum")
      BY <3>2 DEF TimedInv, OperatingStates
    <3> QED BY <1>4, <3>1, <3>2, <3>3 DEF PrechargeStarts
  <2> QED BY <2>1, <2>2
<1>11. ASSUME Queued("minimum")
       PROVE  /\ age' = MinimumTicks
              /\ enable' => ctl'.state \in OperatingStates \cup {scsLatchingError}
  <2>1. age' = age
    BY <1>6, <1>7, <1>11 DEF TimedInv, OperatingStates
  <2>2. enable' => ctl'.state \in OperatingStates \cup {scsLatchingError}
    BY <1>2, <1>5, <1>11, SpentEnableLasts DEF TimedInv
  <2> QED BY <1>11, <2>1, <2>2 DEF TimedInv
<1>12. ctl'.state = scsPrechargeMinimumTimeExceeded => age' = MinimumTicks
  <2>1. CASE Quiet(ctl, ctl')
    BY <1>6, <1>7, <2>1 DEF TimedInv, Quiet
  <2>2. CASE EndsPrecharge
    BY <1>11, <2>2 DEF EndsPrecharge
  <2> QED BY <1>4, <2>1, <2>2
<1> QED BY <1>2, <1>4, <1>9, <1>10, <1>11, <1>12 DEF TimedInv, Counts

(* A tick preserves the timing invariant.                                  *)
LEMMA TickTimed ==
  ASSUME TimedInv, Tick
  PROVE  TimedInv' /\ UNCHANGED ctl.coils
<1> USE MinimumTicksAssumption
<1>1. [Next]_vars
  BY DEF Tick, Next, Timers
<1>2. RInv /\ RInv' /\ ctl \in Ctl /\ timerQ \in Seq(Timers)
  BY <1>1, NextRInv DEF TimedInv, RInv, PInv, IInv, TypeOK
<1>3. CASE Counts(ctl) /\ left = 1
  <2>1. TimerExpires("minimum")
    BY <1>3 DEF Tick, Counts
  <2>2. /\ ctl'.state = ctl.state /\ ctl'.coils = ctl.coils /\ ~Counts(ctl') /\ UNCHANGED enable
    BY <1>2, <2>1 DEF TimerExpires, Ctl, Counts
  <2>3. age' = MinimumTicks
    BY <1>3 DEF Tick, TimedInv
  <2> QED BY <1>2, <1>3, <2>2, <2>3 DEF TimedInv, Counts, OperatingStates
<1>4. CASE Counts(ctl) /\ left # 1
  <2>1. UNCHANGED vars /\ left' = left - 1 /\ age' = age + 1
    BY <1>4 DEF Tick, TimedInv, Counts
  <2>2. UNCHANGED <<ctl, enable, timerQ>>
    BY <2>1 DEF vars
  <2> QED BY <1>2, <1>4, <2>1, <2>2 DEF TimedInv, Counts, Queued
<1>5. CASE ~Counts(ctl)
  <2>1. UNCHANGED <<ctl, enable, timerQ>>
    BY <1>5 DEF Tick, Counts, vars
  <2>2. age' \in 0 .. MinimumTicks /\ (age = MinimumTicks => age' = age)
    BY DEF Tick, TimedInv
  <2> QED BY <1>2, <1>5, <2>1, <2>2 DEF TimedInv, Counts, Queued
<1> QED BY <1>3, <1>4, <1>5

(* The run coil goes on from the end of a precharge, where the invariant   *)
(* says how long that has been.                                            *)
LEMMA RunWaits ==
  ASSUME TimedInv, TimedInv', [ThreadStep \/ Tick]_timedVars, "run" \in ctl'.coils \ ctl.coils
  PROVE  age = MinimumTicks
<1>1. [Next]_vars
  BY DEF ThreadStep, Tick, Next, Timers, timedVars
<1>2. StepAllowed /\ Shape(ctl) /\ Shape(ctl)'
  BY <1>1, NextPInv DEF TimedInv, RInv, PInv, IInv
<1>3. ctl'.contactor = hvcHighCurrentRun /\ ctl.contactor # hvcHighCurrentRun
  BY <1>2, DrivenValues DEF Shape, ReachableContactor
<1> QED BY <1>2, <1>3 DEF StepAllowed, KeepsRunOpen, ClosesRun, TimedInv

(* Precharge lasts PRECHARGE_MINIMUM_TIME_MILLISEC before the run          *)
(* contactor closes (transition_state, precharge_timer_fire), for every    *)
(* MinimumTicks: a queued expiry never meets a later precharge.            *)
THEOREM PrechargeLasts == SpecTimed => RunAfterMinimumTime
<1>1. InitTimed => TimedInv
  BY InitRInv, MinimumTicksAssumption DEF InitTimed, TimedInv, Init, Counts, Queued
<1>2. TimedInv /\ [ThreadStep \/ Tick]_timedVars => TimedInv'
  <2> SUFFICES ASSUME TimedInv, UNCHANGED timedVars PROVE TimedInv'
    BY ThreadStepTimed, TickTimed
  <2>1. RInv' /\ UNCHANGED <<ctl, enable, timerQ, age, left>>
    BY NextRInv DEF TimedInv, timedVars, vars
  <2> QED BY <2>1 DEF TimedInv, Counts, Queued
<1>3. TimedInv /\ TimedInv' /\ [ThreadStep \/ Tick]_timedVars
        => ("run" \in ctl'.coils \ ctl.coils => age = MinimumTicks)
  BY RunWaits
<1> QED BY <1>1, <1>2, <1>3, PTL DEF SpecTimed, RunAfterMinimumTime
------------------------------------------------------------------------------
(* AMS, for every set of frames, every capacity and every set of timers    *)
(* that expire.                                                            *)

(* Frames are acted on from the front, and only a command by halves; the   *)
(* contactor controller is initialised after BMSController.                *)
ChannelInv ==
  /\ queue \in Seq(Frames)
  /\ half => queue # << >> /\ Head(queue).command

StartInv == boot = 3 => bms_started

(* Every step of AMS is one of StateController's, or none.                 *)
LEMMA StepOfAMS ==
  ASSUME ChannelInv, [NextAMS]_allVars
  PROVE  [Next]_vars
<1>1. ASSUME NEW f \in Frames, AcceptFrame(f) PROVE UNCHANGED vars
  BY <1>1 DEF AcceptFrame
<1>2. CASE IgnoreFrame \/ DispatchConversions \/ BMSProcedure \/ InitialiseBMS
  BY <1>2 DEF IgnoreFrame, DispatchConversions, BMSProcedure, InitialiseBMS
<1>3. CASE DispatchEnable
  <2>1. queue # << >>
    BY <1>3 DEF DispatchEnable, Channel!PassEnable
  <2>2. Head(queue) \in Frames
    BY <2>1 DEF ChannelInv
  <2>3. Head(queue).en_tr \in BOOLEAN
    BY <2>2, FramesAssumption
  <2> QED BY <1>3, <2>3 DEF DispatchEnable, Next
<1>4. CASE NotifyDriver \/ Boot \/ StateControllerThread \/ TimerThread \/ Environment
  BY <1>4 DEF Next
<1>5. ASSUME NEW t \in ExpiringTimers, TimerExpires(t) PROVE Next
  BY <1>5, ExpiringTimersAssumption DEF Next
<1>6. CASE UNCHANGED allVars
  BY <1>6 DEF allVars
<1> QED BY <1>1, <1>2, <1>3, <1>4, <1>5, <1>6 DEF NextAMS, CANThread, BootAMS, StateMachine

(* The channel keeps its frames, and the order of the boot.                *)
LEMMA ChannelStep ==
  ASSUME ChannelInv, StartInv, [NextAMS]_allVars
  PROVE  ChannelInv' /\ StartInv'
<1>1. ASSUME UNCHANGED <<queue, half>> PROVE ChannelInv'
  BY <1>1 DEF ChannelInv
<1>2. ASSUME UNCHANGED boot, bms_started => bms_started' PROVE StartInv'
  BY <1>2 DEF StartInv
<1>3. ASSUME NEW f \in Frames, AcceptFrame(f) PROVE ChannelInv' /\ StartInv'
  <2>1. /\ queue' = Append(queue, f) /\ half' = half /\ queue \in Seq(Frames)
        /\ UNCHANGED <<boot, bms_started>>
    BY <1>3 DEF AcceptFrame, Channel!Accept, ChannelInv, vars
  <2>2. queue' \in Seq(Frames) /\ (queue # << >> => queue' # << >> /\ Head(queue') = Head(queue))
    BY <2>1
  <2> QED BY <1>2, <2>1, <2>2 DEF ChannelInv
<1>4. CASE IgnoreFrame
  <2>1. /\ queue # << >> /\ ~Head(queue).command /\ queue' = Tail(queue) /\ half' = half
        /\ UNCHANGED <<boot, bms_started>>
    BY <1>4 DEF IgnoreFrame, Channel!Ignore, vars
  <2>2. ~half /\ queue' \in Seq(Frames)
    BY <2>1 DEF ChannelInv
  <2> QED BY <1>2, <2>1, <2>2 DEF ChannelInv
<1>5. CASE DispatchEnable
  <2>1. /\ queue # << >> /\ Head(queue).command /\ queue' = queue
        /\ UNCHANGED <<boot, bms_started>>
    BY <1>5 DEF DispatchEnable, Channel!PassEnable, PushTractiveEnable, vars
  <2> QED BY <1>2, <2>1 DEF ChannelInv
<1>6. CASE DispatchConversions
  <2>1. /\ half /\ half' = FALSE /\ queue' = Tail(queue)
        /\ UNCHANGED <<boot, bms_started>>
    BY <1>6 DEF DispatchConversions, Channel!PassConversions, vars
  <2>2. queue' \in Seq(Frames)
    BY <2>1 DEF ChannelInv
  <2> QED BY <1>2, <2>1, <2>2 DEF ChannelInv
<1>7. CASE InitialiseBMS
  <2>1. UNCHANGED <<queue, half, boot>> /\ bms_started'
    BY <1>7 DEF InitialiseBMS, Channel!StartConversions, vars
  <2> QED BY <1>1, <1>2, <2>1
<1>8. CASE (boot = 2 => bms_started) /\ Boot
           /\ UNCHANGED <<queue, half, conversions, amsOk, bms_started, latest>>
  <2>1. boot' = 3 => boot = 2
    BY <1>8 DEF Boot, BootInitialiseStateController, BootStartStateController,
                BootInitialiseContactorController
  <2> QED BY <1>1, <1>8, <2>1 DEF StartInv
<1>9. CASE BMSProcedure \/ UNCHANGED allVars
  <2>1. UNCHANGED <<queue, half, boot, bms_started>>
    BY <1>9 DEF BMSProcedure, allVars, vars
  <2> QED BY <1>1, <1>2, <2>1
<1>10. CASE /\ \/ NotifyDriver \/ StateControllerThread \/ TimerThread \/ Environment
               \/ \E t \in ExpiringTimers : TimerExpires(t)
            /\ UNCHANGED <<queue, half, conversions, amsOk, bms_started, latest>>
  <2>1. UNCHANGED boot
    BY <1>10 DEF NotifyDriver, StateControllerThread, TimerThread, Environment, TimerExpires,
                 StepIdle, StepWaiting, StepReadyToPrecharge, StepActivated,
                 StepMinimumTimeExceeded, Step
  <2> QED BY <1>1, <1>2, <1>10, <2>1
<1> QED BY <1>3, <1>4, <1>5, <1>6, <1>7, <1>8, <1>9, <1>10
    DEF NextAMS, CANThread, BootAMS, StateMachine

(* It starts that way.                                                     *)
LEMMA InitChannel == InitAMS => Init /\ ChannelInv /\ StartInv
BY DEF InitAMS, Init, Channel!ChanInit, ChannelInv, StartInv

(* Composition (dispatch_message, main, BMSController): a behaviour of AMS *)
(* is one of StateController, so what is proved of that holds here too.    *)
THEOREM AMSImplementsStateController == SpecAMS => Spec
<1>1. ChannelInv /\ StartInv /\ [NextAMS]_allVars => ChannelInv' /\ StartInv'
  BY ChannelStep
<1>2. ChannelInv /\ [NextAMS]_allVars => [Next]_vars
  BY StepOfAMS
<1> QED BY <1>1, <1>2, InitChannel, PTL DEF SpecAMS, Spec

(* The contactors stay open until BMSController has taken AMS-OK over:     *)
(* only after its initialise does main() run ContactorController's, and    *)
(* before that push_state refuses to close them.                           *)
THEOREM ClosesAfterStart == SpecAMS => []ClosesAfterBMSStart
<1>1. ChannelInv /\ StartInv /\ [NextAMS]_allVars => ChannelInv' /\ StartInv'
  BY ChannelStep
<1>2. IInv /\ StartInv => ClosesAfterBMSStart
  <2> SUFFICES ASSUME IInv, StartInv, ctl.coils # {} PROVE bms_started
    BY DEF ClosesAfterBMSStart
  <2>1. ctl.contactor # hvcInitialising
    BY DrivenValues DEF IInv, Shape
  <2>2. boot = 3
    BY <2>1 DEF IInv, TypeOK, BootSteps
  <2> QED BY <2>2 DEF StartInv
<1> QED BY <1>1, <1>2, InitChannel, AMSImplementsStateController, IInvHolds, PTL DEF SpecAMS
==============================================================================
