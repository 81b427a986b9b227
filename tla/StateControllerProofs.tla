------------------------ MODULE StateControllerProofs ------------------------
(***************************************************************************)
(* Theorems about StateController, for every set of changing inputs.  The  *)
(* lemmas follow the operators: what a Sync, a push, a transition and a    *)
(* notification make of a record that satisfies Shape; the theorems then   *)
(* take one action of Next after the other.  The second part is about      *)
(* precharge, run and the latch: a precharge can always finish, the run    *)
(* contactor closes onto a healthy precharged bus only, and the driver     *)
(* alone resets the latch.                                                 *)
(***************************************************************************)
EXTENDS StateController, TLAPS

ReachableContactor == {hvcInitialising, hvcAllOpen, hvcPrecharge, hvcHighCurrentRun}

(* What every operation keeps of the controller record: the coils are      *)
(* those of the contactor state, and the contactors are closed in the      *)
(* operating states alone.                                                 *)
Shape(c) ==
  /\ c \in Ctl
  /\ c.contactor \in ReachableContactor
  /\ c.coils = Driven(c.contactor)
  /\ c.contactor = hvcPrecharge
       => c.state \in {scsStartedPrecharge, scsPrechargeMinimumTimeExceeded}
  /\ c.contactor = hvcHighCurrentRun => c.state = scsTractiveSystemRaceReady

(* d comes out of an operation on c: it has the shape, and contactors that *)
(* were not initialised are still not.                                     *)
Keeps(c, d) ==
  /\ Shape(d)
  /\ c.contactor = hvcInitialising => d.contactor = hvcInitialising

USE DEF hvcInitialising, hvcLatchingMechanicalError, hvcAllOpen, hvcPrecharge,
        hvcHighCurrentRun, scsNonResettableLatchingError, scsLatchingError,
        scsInitialising, scsWaitingForInternalSafety, scsWaitingForTractiveLoop,
        scsWaitingForShutdownCircuit, scsWaitingForPrechargeActivation,
        scsStartedPrecharge, scsPrechargeMinimumTimeExceeded,
        scsTractiveSystemRaceReady

(* The contactors each state drives: the masks of ContactorController.hpp. *)
LEMMA DrivenValues ==
  /\ Driven(0) = {} /\ Driven(2) = {}
  /\ Driven(4) = {"precharge"} /\ Driven(12) = {"precharge", "run"}
<1>1. HVC_MASK["precharge"] = 4 /\ HVC_MASK["run"] = 8
  BY DEF HVC_MASK, Contactors
<1>2. /\ (0 \div 4) % 2 = 0 /\ (0 \div 8) % 2 = 0 /\ (2 \div 4) % 2 = 0
      /\ (2 \div 8) % 2 = 0 /\ (4 \div 4) % 2 = 1 /\ (4 \div 8) % 2 = 0
      /\ (12 \div 4) % 2 = 1 /\ (12 \div 8) % 2 = 1
  BY SMT
<1> QED BY <1>1, <1>2 DEF Driven, Contactors

(* Sync changes the contactor state, the coils, and the timers' fields.    *)
LEMMA SyncFields ==
  ASSUME NEW c \in Ctl, NEW s \in contactor_state_t
  PROVE  /\ Sync(c, s) \in Ctl
         /\ Sync(c, s).contactor = s
         /\ Sync(c, s).coils = Driven(s)
         /\ Sync(c, s).state = c.state
         /\ Sync(c, s).overflow = c.overflow
<1>1. Driven(s) \in SUBSET Contactors
  BY DEF Driven
<1>2. DEFINE toggled == {k \in Contactors : (k \in c.coils) # (k \in Driven(s))}
<1>3. toggled \in SUBSET Timers /\ toggled \in SUBSET Contactors
  BY DEF Timers
<1>4. c.fireonce \ toggled \in SUBSET Contactors /\ c.running \cup toggled \in SUBSET Timers
  BY <1>3 DEF Ctl
<1>5. Sync(c, s) = [c EXCEPT !.contactor = s, !.coils = Driven(s),
                             !.fireonce = c.fireonce \ toggled,
                             !.running = c.running \cup toggled]
  BY DEF Sync, Ctl
<1> HIDE DEF toggled
<1> QED BY <1>1, <1>4, <1>5 DEF Ctl

(* What a transition does to the minimum timer keeps the set of timers.    *)
LEMMA TimerForType ==
  ASSUME NEW s, NEW r \in SUBSET Timers
  PROVE  TimerFor(s, r) \in SUBSET Timers
BY DEF TimerFor, Timers

(* An accepted opening transition.                                         *)
LEMMA EnterShape ==
  ASSUME NEW c \in Ctl, NEW s \in state_controller_state_t
  PROVE  /\ Enter(c, s) \in Ctl
         /\ Enter(c, s).contactor = hvcAllOpen
         /\ Enter(c, s).coils = {}
         /\ Enter(c, s).state = s
         /\ Enter(c, s).overflow = c.overflow
<1> DEFINE o == Sync(c, hvcAllOpen)
<1>1. /\ o \in Ctl /\ o.contactor = hvcAllOpen /\ o.coils = {}
      /\ o.overflow = c.overflow
  BY SyncFields, DrivenValues DEF contactor_state_t
<1>2. TimerFor(s, o.running) \in SUBSET Timers
  BY <1>1, TimerForType DEF Ctl
<1>3. Enter(c, s) = [o EXCEPT !.running = TimerFor(s, o.running), !.state = s]
  BY <1>1 DEF Enter, SetState, Ctl
<1> HIDE DEF o
<1> QED BY <1>1, <1>2, <1>3 DEF Ctl

(* Setting or losing the signal changes nothing else.                      *)
LEMMA SignalShape ==
  ASSUME NEW c, Shape(c)
  PROVE  /\ Keeps(c, Signal(c)) /\ Keeps(c, Wake(c)) /\ Keeps(c, ExhaustStack(c))
         /\ Signal(c).state = c.state
         /\ Wake(c).state = c.state
         /\ ExhaustStack(c).state = c.state
         /\ Signal(c).contactor = c.contactor
         /\ ExhaustStack(c).overflow
BY DEF Keeps, Shape, Signal, Wake, ExhaustStack, Ctl

(* The event a refused push raises leaves the contactors open or, while    *)
(* they are initialising, alone.                                           *)
LEMMA NotifyErrorShape ==
  ASSUME NEW c, Shape(c)
  PROVE  Keeps(c, notify_error(c))
<1>0. c.state \in 0 .. 9
  BY DEF Shape, Ctl, state_controller_state_t
<1>1. CASE c.state <= scsWaitingForInternalSafety
  BY <1>1, SignalShape DEF notify_error
<1>2. CASE c.state > scsWaitingForInternalSafety /\ ~Accepts(c.contactor, hvcAllOpen)
  <2>1. notify_error(c) = ExhaustStack(c)
    BY <1>0, <1>2 DEF notify_error
  <2> QED BY <2>1, SignalShape
<1>3. CASE c.state > scsWaitingForInternalSafety /\ Accepts(c.contactor, hvcAllOpen)
  <2> DEFINE e == Enter(c, scsWaitingForInternalSafety)
  <2>1. Shape(e)
    <3>1. c \in Ctl /\ scsWaitingForInternalSafety \in state_controller_state_t
      BY DEF Shape, state_controller_state_t
    <3>2. e \in Ctl /\ e.contactor = hvcAllOpen /\ e.coils = {}
      BY <3>1, EnterShape
    <3> HIDE DEF e
    <3> QED BY <3>2, DrivenValues DEF Shape, ReachableContactor
  <2>2. notify_error(c) = Signal(e)
    BY <1>0, <1>3 DEF notify_error
  <2>3. c.contactor # hvcInitialising
    BY <1>3 DEF Accepts
  <2> HIDE DEF e
  <2> QED BY <2>1, <2>2, <2>3, SignalShape DEF Keeps
<1> QED BY <1>0, <1>1, <1>2, <1>3

(* push_state on behalf of a transition to s: an accepted request is       *)
(* carried out, a refused one leaves the contactors open.                  *)
LEMMA PushFields ==
  ASSUME NEW c, Shape(c), NEW new \in {hvcAllOpen, hvcPrecharge, hvcHighCurrentRun}
  PROVE  \/ push_state(c, new, notify_error(c)).overflow
         \/ /\ push_state(c, new, notify_error(c)) \in Ctl
            /\ push_state(c, new, notify_error(c)).contactor
                 \in {new, hvcInitialising, hvcAllOpen}
            /\ push_state(c, new, notify_error(c)).coils
                 = Driven(push_state(c, new, notify_error(c)).contactor)
            /\ c.contactor = hvcInitialising
                 => push_state(c, new, notify_error(c)).contactor = hvcInitialising
<1> DEFINE r == notify_error(c)
           p == push_state(c, new, r)
<1> SUFFICES \/ p.overflow
             \/ /\ p \in Ctl
                /\ p.contactor \in {new, hvcInitialising, hvcAllOpen}
                /\ p.coils = Driven(p.contactor)
                /\ c.contactor = hvcInitialising => p.contactor = hvcInitialising
  OBVIOUS
<1>0. /\ c \in Ctl /\ Shape(r) /\ r \in Ctl /\ new \in contactor_state_t
      /\ c.contactor = hvcInitialising => r.contactor = hvcInitialising
  BY NotifyErrorShape DEF Keeps, Shape, contactor_state_t
<1> HIDE DEF r
<1>1. CASE Accepts(c.contactor, new)
  <2>1. p = Sync(c, new)
    BY <1>1 DEF push_state
  <2>2. c.contactor # hvcInitialising
    BY <1>1 DEF Accepts
  <2> HIDE DEF p
  <2> QED BY <1>0, <2>1, <2>2, SyncFields
<1>2. CASE ~Accepts(c.contactor, new) /\ r.overflow
  <2>1. p = r
    BY <1>2 DEF push_state
  <2> QED BY <1>2, <2>1
<1>3. CASE ~Accepts(c.contactor, new) /\ ~r.overflow
  <2> DEFINE a == AfterRefusal(r.contactor)
  <2>1. a \in {hvcInitialising, hvcAllOpen} /\ a \in contactor_state_t
    BY <1>0 DEF AfterRefusal, Shape, ReachableContactor, contactor_state_t
  <2>2. p = Sync(r, a)
    BY <1>3 DEF push_state
  <2>3. r.contactor = hvcInitialising => a = hvcInitialising
    BY DEF AfterRefusal
  <2> HIDE DEF a, p
  <2> QED BY <1>0, <2>1, <2>2, <2>3, SyncFields
<1> QED BY <1>1, <1>2, <1>3

(* A transition ends in its target state, or the stack is exhausted with   *)
(* the state as it was; either way Shape is kept.  Only precharge leads on *)
(* to scsPrechargeMinimumTimeExceeded, which does not touch the contactors.*)
LEMMA TransitionShape ==
  ASSUME NEW c, Shape(c), NEW s \in state_controller_state_t,
         s = scsPrechargeMinimumTimeExceeded => c.state = scsStartedPrecharge
  PROVE  /\ Keeps(c, transition_state(c, s))
         /\ \/ transition_state(c, s).state = s
            \/ transition_state(c, s).overflow /\ transition_state(c, s).state = c.state
<1> DEFINE p == PushFor(c, s)
           t == [p EXCEPT !.running = TimerFor(s, p.running), !.state = s]
<1>0. c \in Ctl
  BY DEF Shape
<1>1. CASE c.overflow \/ p.overflow
  <2>1. transition_state(c, s) = ExhaustStack(c)
    BY <1>1 DEF transition_state
  <2>2. /\ Keeps(c, ExhaustStack(c)) /\ ExhaustStack(c).overflow
        /\ ExhaustStack(c).state = c.state
    BY SignalShape
  <2> QED BY <2>1, <2>2
<1>2. CASE ~(c.overflow \/ p.overflow)
  <2>1. /\ p \in Ctl
        /\ p.coils = Driven(p.contactor)
        /\ p.contactor \in ReachableContactor
        /\ p.contactor = hvcPrecharge
             => s \in {scsStartedPrecharge, scsPrechargeMinimumTimeExceeded}
        /\ p.contactor = hvcHighCurrentRun => s = scsTractiveSystemRaceReady
        /\ c.contactor = hvcInitialising => p.contactor = hvcInitialising
    <3>1. CASE s = scsPrechargeMinimumTimeExceeded
      BY <1>0, <3>1 DEF PushFor, Shape
    <3>2. CASE s # scsPrechargeMinimumTimeExceeded
      <4>1. p = push_state(c, ContactorsFor(s), notify_error(c))
        BY <3>2 DEF PushFor
      <4>2. ContactorsFor(s) \in {hvcAllOpen, hvcPrecharge, hvcHighCurrentRun}
        BY DEF ContactorsFor
      <4>3. /\ p \in Ctl /\ p.coils = Driven(p.contactor)
            /\ p.contactor \in {ContactorsFor(s), hvcInitialising, hvcAllOpen}
            /\ c.contactor = hvcInitialising => p.contactor = hvcInitialising
        BY <1>2, <4>1, <4>2, PushFields
      <4>4. /\ ContactorsFor(s) = hvcPrecharge => s = scsStartedPrecharge
            /\ ContactorsFor(s) = hvcHighCurrentRun => s = scsTractiveSystemRaceReady
        BY DEF ContactorsFor
      <4> HIDE DEF p
      <4> QED BY <4>2, <4>3, <4>4 DEF ReachableContactor
    <3> QED BY <3>1, <3>2
  <2> HIDE DEF p
  <2>2. TimerFor(s, p.running) \in SUBSET Timers
    BY <2>1, TimerForType DEF Ctl
  <2>3. Keeps(c, t) /\ t.state = s
    BY <2>1, <2>2 DEF Keeps, Shape, Ctl
  <2>4. transition_state(c, s) = t
    BY <1>2, <2>1 DEF transition_state, SetState, Ctl, p
  <2> QED BY <2>3, <2>4
<1> QED BY <1>1, <1>2

(* The functions of a turn of the thread and of a timer callback.          *)
LEMMA ProcessWaitingShape ==
  ASSUME NEW c, Shape(c),
         c.state \in scsWaitingForInternalSafety .. scsWaitingForPrechargeActivation
  PROVE  /\ Keeps(c, process_waiting_states(c))
         /\ process_waiting_states(c).state
              \in scsWaitingForInternalSafety .. scsWaitingForPrechargeActivation
<1>1. CASE Healthy
  BY <1>1 DEF process_waiting_states, Keeps
<1>2. CASE ~Healthy
  <2>1. /\ WaitingTarget \in state_controller_state_t
        /\ WaitingTarget \in scsWaitingForInternalSafety .. scsWaitingForShutdownCircuit
        /\ WaitingTarget # scsPrechargeMinimumTimeExceeded
    BY DEF WaitingTarget, state_controller_state_t
  <2>2. process_waiting_states(c) = transition_state(c, WaitingTarget)
    BY <1>2 DEF process_waiting_states
  <2>3. /\ Keeps(c, transition_state(c, WaitingTarget))
        /\ transition_state(c, WaitingTarget).state \in {WaitingTarget, c.state}
    BY <2>1, TransitionShape
  <2> QED BY <2>1, <2>2, <2>3
<1> QED BY <1>1, <1>2

(* What the check of an activated state may change.                        *)
LEMMA ProcessActivatedShape ==
  ASSUME NEW c, Shape(c)
  PROVE  /\ Keeps(c, process_activated_states(c))
         /\ process_activated_states(c).state \in {c.state, scsLatchingError}
<1>1. /\ scsLatchingError \in state_controller_state_t
      /\ scsLatchingError # scsPrechargeMinimumTimeExceeded
  BY DEF state_controller_state_t
<1>2. /\ Keeps(c, transition_state(c, scsLatchingError))
      /\ transition_state(c, scsLatchingError).state \in {c.state, scsLatchingError}
  BY <1>1, TransitionShape
<1> QED BY <1>2 DEF process_activated_states, Keeps

(* What a timer's callback may change.                                     *)
LEMMA CallbackShape ==
  ASSUME NEW c, Shape(c), NEW t \in Timers
  PROVE  /\ Keeps(c, Callback(c, t))
         /\ \/ Callback(c, t).state = c.state
            \/ {c.state, Callback(c, t).state} \subseteq OperatingStates
<1>1. CASE t = "minimum" /\ c.state = scsStartedPrecharge
  <2>1. Callback(c, t) = transition_state(c, scsPrechargeMinimumTimeExceeded)
    BY <1>1 DEF Callback, precharge_timer_fire
  <2>2. scsPrechargeMinimumTimeExceeded \in state_controller_state_t
    BY DEF state_controller_state_t
  <2>3. /\ Keeps(c, transition_state(c, scsPrechargeMinimumTimeExceeded))
        /\ transition_state(c, scsPrechargeMinimumTimeExceeded).state
             \in {c.state, scsPrechargeMinimumTimeExceeded}
    BY <1>1, <2>2, TransitionShape
  <2> QED BY <1>1, <2>1, <2>3 DEF OperatingStates
<1>2. CASE t = "minimum" /\ c.state # scsStartedPrecharge
  BY <1>2 DEF Callback, precharge_timer_fire, Keeps
<1>3. CASE t # "minimum"
  <2>1. Callback(c, t) = [c EXCEPT !.fireonce = c.fireonce \cup {t}]
    BY <1>3 DEF Callback, toggle_cb, Shape, Ctl
  <2>2. c.fireonce \cup {t} \in SUBSET Contactors
    BY <1>3 DEF Shape, Ctl, Timers
  <2> QED BY <2>1, <2>2 DEF Keeps, Shape, Ctl
<1> QED BY <1>1, <1>2, <1>3
------------------------------------------------------------------------------
(* The inductive invariant: the types, the shape of the controller record, *)
(* contactors untouched until ContactorController::initialise has run, and *)
(* the driver's part.                                                      *)
IInv ==
  /\ TypeOK
  /\ Shape(ctl)
  /\ boot < 3 => ctl.contactor = hvcInitialising
  /\ OperatingNeedsDriver

(* The initial states satisfy the inductive invariant.                     *)
LEMMA InitIInv == Init => IInv
<1> SUFFICES ASSUME Init PROVE IInv
  OBVIOUS
<1>1. ctl \in Ctl
  BY DEF Init, Ctl, state_controller_state_t, contactor_state_t
<1>2. TypeOK
  <2>1. pins \in [Pins -> BOOLEAN]
    BY DEF Init, InitPins
  <2>2. timerQ \in Seq(Timers)
    BY DEF Init
  <2>3. enable \in BOOLEAN /\ driver \in {"idle", "enables", "deactivates"}
    BY Zenon DEF Init
  <2>4. boot \in BootSteps
    BY DEF Init, BootSteps
  <2> QED BY <1>1, <2>1, <2>2, <2>3, <2>4, Zenon DEF TypeOK
<1>3. Shape(ctl)
  BY <1>1, DrivenValues DEF Init, Shape, ReachableContactor
<1>4. OperatingNeedsDriver
  BY DEF Init, OperatingNeedsDriver, OperatingStates
<1> QED BY <1>2, <1>3, <1>4 DEF IInv, Init

(* main(): the three boot steps.                                           *)
LEMMA BootIInv == IInv /\ Boot => IInv'
<1> SUFFICES ASSUME IInv, Boot PROVE IInv'
  OBVIOUS
<1> USE DEF IInv
<1>1. CASE BootInitialiseStateController
  <2>1. scsWaitingForInternalSafety \in state_controller_state_t
    BY DEF state_controller_state_t
  <2>2. /\ Keeps(ctl, ctl')
        /\ ctl'.state \in {ctl.state, scsWaitingForInternalSafety}
    BY <1>1, <2>1, TransitionShape DEF BootInitialiseStateController
  <2>3. TypeOK'
    BY <1>1, <2>2 DEF BootInitialiseStateController, TypeOK, Keeps, Shape, BootSteps
  <2>4. OperatingNeedsDriver'
    BY <1>1, <2>2 DEF BootInitialiseStateController, OperatingNeedsDriver, OperatingStates
  <2> QED BY <1>1, <2>2, <2>3, <2>4 DEF BootInitialiseStateController, Keeps
<1>2. CASE BootStartStateController
  <2>1. Keeps(ctl, ctl') /\ ctl'.state = ctl.state
    BY <1>2 DEF BootStartStateController, Keeps, Shape, Ctl
  <2>2. TypeOK'
    BY <1>2, <2>1 DEF BootStartStateController, TypeOK, Keeps, Shape, BootSteps
  <2>3. OperatingNeedsDriver'
    BY <1>2, <2>1 DEF BootStartStateController, OperatingNeedsDriver
  <2> QED BY <1>2, <2>1, <2>2, <2>3 DEF BootStartStateController, Keeps
<1>3. CASE BootInitialiseContactorController
  <2>1. ctl.contactor = hvcInitialising /\ ctl.coils = {}
    BY <1>3, DrivenValues DEF BootInitialiseContactorController, Shape
  <2>2. /\ ctl' \in Ctl /\ ctl'.contactor = hvcAllOpen /\ ctl'.coils = ctl.coils
        /\ ctl'.state = ctl.state
    BY <1>3 DEF BootInitialiseContactorController, initialise_contactors, TypeOK, Ctl,
                contactor_state_t
  <2>3. Shape(ctl')
    BY <2>1, <2>2, DrivenValues DEF Shape, ReachableContactor
  <2>4. TypeOK'
    BY <1>3, <2>2 DEF BootInitialiseContactorController, TypeOK, BootSteps
  <2>5. OperatingNeedsDriver'
    BY <1>3, <2>2 DEF BootInitialiseContactorController, OperatingNeedsDriver
  <2> QED BY <1>3, <2>3, <2>4, <2>5 DEF BootInitialiseContactorController
<1> QED BY <1>1, <1>2, <1>3 DEF Boot

(* The CAN thread: the enable bit and the notification.                    *)
LEMMA DriverIInv ==
  ASSUME IInv, NotifyDriver \/ \E v \in BOOLEAN : PushTractiveEnable(v)
  PROVE  IInv'
<1> USE DEF IInv
<1>1. ASSUME NEW v \in BOOLEAN, PushTractiveEnable(v) PROVE IInv'
  <2>1. TypeOK'
    BY <1>1 DEF PushTractiveEnable, TypeOK
  <2>2. OperatingNeedsDriver'
    BY <1>1 DEF PushTractiveEnable, OperatingNeedsDriver, TypeOK
  <2> QED BY <1>1, <2>1, <2>2 DEF PushTractiveEnable
<1>2. CASE NotifyDriver
  <2>1. ctl.state \in 0 .. 9
    BY DEF Shape, Ctl, state_controller_state_t
  <2>2. Keeps(ctl, ctl') /\ OperatingNeedsDriver'
    <3>1. CASE driver = "enables"
      <4>1. ctl' = Signal(ctl)
        BY <1>2, <3>1 DEF NotifyDriver, notify_enables
      <4>2. Keeps(ctl, ctl') /\ ctl'.state = ctl.state
        BY <4>1, SignalShape
      <4> QED BY <1>2, <3>1, <4>2 DEF NotifyDriver, OperatingNeedsDriver
    <3>2. CASE driver # "enables"
      <4> DEFINE d == IF Resettable(ctl.state)
                      THEN transition_state(ctl, scsWaitingForInternalSafety) ELSE ctl
      <4>1. ctl' = IF d.overflow THEN d ELSE Signal(d)
        BY <1>2, <3>2 DEF NotifyDriver, notify_deactivates
      <4>2. /\ Keeps(ctl, d)
            /\ d.overflow \/ d.state \notin OperatingStates \cup {scsLatchingError}
        <5>1. CASE Resettable(ctl.state)
          <6>1. scsWaitingForInternalSafety \in state_controller_state_t
            BY DEF state_controller_state_t
          <6>2. /\ Keeps(ctl, transition_state(ctl, scsWaitingForInternalSafety))
                /\ \/ transition_state(ctl, scsWaitingForInternalSafety).state = 3
                   \/ transition_state(ctl, scsWaitingForInternalSafety).overflow
            BY <6>1, TransitionShape
          <6> QED BY <5>1, <6>2 DEF OperatingStates
        <5>2. CASE ~Resettable(ctl.state)
          BY <2>1, <5>2 DEF Resettable, OperatingStates, Keeps
        <5> QED BY <5>1, <5>2
      <4> HIDE DEF d
      <4>3. CASE d.overflow
        BY <1>2, <3>2, <4>1, <4>2, <4>3 DEF NotifyDriver, OperatingNeedsDriver, TypeOK
      <4>4. CASE ~d.overflow
        <5>1. Keeps(d, Signal(d)) /\ Signal(d).state = d.state
          BY <4>2, SignalShape DEF Keeps
        <5> QED BY <4>1, <4>2, <4>4, <5>1 DEF Keeps, OperatingNeedsDriver
      <4> QED BY <4>3, <4>4
    <3> QED BY <3>1, <3>2
  <2>3. TypeOK'
    BY <1>2, <2>2 DEF NotifyDriver, TypeOK, Keeps, Shape
  <2> QED BY <1>2, <2>2, <2>3 DEF NotifyDriver, Keeps
<1> QED BY <1>1, <1>2

(* The StateController thread.                                             *)
LEMMA StepIInv == IInv /\ StateControllerThread => IInv'
<1> SUFFICES ASSUME IInv, StateControllerThread PROVE IInv'
  OBVIOUS
<1> USE DEF IInv
<1>1. UNCHANGED <<enable, driver, timerQ, boot, pins>>
  BY DEF StateControllerThread, StepIdle, StepWaiting, StepReadyToPrecharge,
         StepActivated, StepMinimumTimeExceeded, Step
<1> DEFINE w == Wake(ctl)
<1>2. Keeps(ctl, w) /\ Shape(w) /\ w.state = ctl.state
  BY SignalShape DEF Keeps
<1>3. \A c, s : /\ Keeps(ctl, c) /\ s \in state_controller_state_t
                /\ s = scsPrechargeMinimumTimeExceeded => c.state = scsStartedPrecharge
                => /\ Keeps(ctl, transition_state(c, s))
                   /\ transition_state(c, s).state \in {c.state, s}
  BY TransitionShape DEF Keeps
<1> HIDE DEF w
<1>4. /\ scsLatchingError \in state_controller_state_t
      /\ scsWaitingForPrechargeActivation \in state_controller_state_t
      /\ scsStartedPrecharge \in state_controller_state_t
      /\ scsTractiveSystemRaceReady \in state_controller_state_t
  BY DEF state_controller_state_t
<1>5. Keeps(ctl, ctl') /\ OperatingNeedsDriver'
  <2>1. CASE StepIdle
    BY <1>1, <1>2, <2>1 DEF StepIdle, Step, OperatingNeedsDriver, w
  <2>2. CASE StepWaiting
    <3> DEFINE c == process_waiting_states(w)
    <3>1. ctl.state \in scsWaitingForInternalSafety .. scsWaitingForPrechargeActivation
      BY <2>2 DEF StepWaiting, Step
    <3>2. Keeps(ctl, c)
          /\ c.state \in scsWaitingForInternalSafety .. scsWaitingForPrechargeActivation
      BY <1>2, <3>1, ProcessWaitingShape DEF Keeps
    <3>3. ctl' = IF enable THEN transition_state(c, scsLatchingError)
                 ELSE IF Healthy THEN transition_state(c, scsWaitingForPrechargeActivation)
                 ELSE c
      BY <2>2 DEF StepWaiting, Step, w
    <3> HIDE DEF c
    <3>4. /\ Keeps(ctl, transition_state(c, scsLatchingError))
          /\ Keeps(ctl, transition_state(c, scsWaitingForPrechargeActivation))
          /\ transition_state(c, scsWaitingForPrechargeActivation).state
               \in {c.state, scsWaitingForPrechargeActivation}
      BY <1>3, <1>4, <3>2
    <3>5. CASE enable
      BY <1>1, <3>3, <3>4, <3>5 DEF OperatingNeedsDriver
    <3>6. CASE ~enable
      BY <1>1, <3>2, <3>3, <3>4, <3>6 DEF OperatingNeedsDriver, OperatingStates
    <3> QED BY <3>5, <3>6
  <2>3. CASE StepReadyToPrecharge
    <3> DEFINE c == process_waiting_states(w)
    <3>1. ctl.state \in scsWaitingForInternalSafety .. scsWaitingForPrechargeActivation
      BY <2>3 DEF StepReadyToPrecharge, Step
    <3>2. Keeps(ctl, c)
          /\ c.state \in scsWaitingForInternalSafety .. scsWaitingForPrechargeActivation
      BY <1>2, <3>1, ProcessWaitingShape DEF Keeps
    <3>3. ctl' = IF Healthy /\ enable THEN transition_state(c, scsStartedPrecharge) ELSE c
      BY <2>3 DEF StepReadyToPrecharge, Step, w
    <3> HIDE DEF c
    <3>4. Keeps(ctl, transition_state(c, scsStartedPrecharge))
      BY <1>3, <1>4, <3>2
    <3>5. CASE Healthy /\ enable
      BY <1>1, <3>3, <3>4, <3>5 DEF OperatingNeedsDriver
    <3>6. CASE ~(Healthy /\ enable)
      BY <1>1, <3>2, <3>3, <3>6 DEF OperatingNeedsDriver, OperatingStates
    <3> QED BY <3>5, <3>6
  <2>4. CASE StepActivated
    <3>1. ctl.state \in OperatingStates /\ ctl' = process_activated_states(w)
      BY <2>4 DEF StepActivated, Step, OperatingStates, w
    <3>2. Keeps(ctl, process_activated_states(w))
      BY <1>2, ProcessActivatedShape DEF Keeps
    <3> QED BY <1>1, <3>1, <3>2 DEF OperatingNeedsDriver
  <2>5. CASE StepMinimumTimeExceeded
    <3> DEFINE c == process_activated_states(w)
               s == IF PrechargeComplete THEN scsTractiveSystemRaceReady
                    ELSE scsLatchingError
    <3>1. ctl.state \in OperatingStates /\ ctl' = transition_state(c, s)
      BY <2>5 DEF StepMinimumTimeExceeded, Step, OperatingStates, w
    <3>2. Keeps(ctl, c)
      BY <1>2, ProcessActivatedShape DEF Keeps
    <3>3. s \in state_controller_state_t /\ s # scsPrechargeMinimumTimeExceeded
      BY <1>4
    <3> HIDE DEF c, s
    <3>4. Keeps(ctl, transition_state(c, s))
      BY <1>3, <3>2, <3>3
    <3> QED BY <1>1, <3>1, <3>4 DEF OperatingNeedsDriver
  <2> QED BY <2>1, <2>2, <2>3, <2>4, <2>5 DEF StateControllerThread
<1>6. TypeOK'
  BY <1>1, <1>5 DEF TypeOK, Keeps, Shape
<1> QED BY <1>1, <1>5, <1>6 DEF Keeps

(* SysTick and the timer thread.                                           *)
LEMMA TimerIInv ==
  ASSUME IInv, TimerThread \/ \E t \in Timers : TimerExpires(t)
  PROVE  IInv'
<1> USE DEF IInv
<1>1. ASSUME NEW t \in Timers, TimerExpires(t) PROVE IInv'
  <2>1. Keeps(ctl, ctl') /\ ctl'.state = ctl.state
    BY <1>1 DEF TimerExpires, Keeps, Shape, Ctl
  <2>2. TypeOK'
    <3>1. timerQ' \in Seq(Timers)
      BY <1>1 DEF TimerExpires, TypeOK
    <3> QED BY <1>1, <2>1, <3>1, Zenon DEF TimerExpires, TypeOK, Keeps, Shape
  <2>3. OperatingNeedsDriver'
    BY <1>1, <2>1 DEF TimerExpires, OperatingNeedsDriver
  <2> QED BY <1>1, <2>1, <2>2, <2>3 DEF TimerExpires, Keeps
<1>2. CASE TimerThread
  <2>1. Head(timerQ) \in Timers /\ Tail(timerQ) \in Seq(Timers)
    BY <1>2 DEF TimerThread, TypeOK
  <2>2. ctl' = Callback(ctl, Head(timerQ))
    BY <1>2 DEF TimerThread
  <2>3. /\ Keeps(ctl, ctl')
        /\ ctl'.state = ctl.state \/ {ctl.state, ctl'.state} \subseteq OperatingStates
    BY <2>1, <2>2, CallbackShape
  <2>4. TypeOK'
    BY <1>2, <2>1, <2>3 DEF TimerThread, TypeOK, Keeps, Shape
  <2>5. OperatingNeedsDriver'
    BY <1>2, <2>3 DEF TimerThread, OperatingNeedsDriver
  <2> QED BY <1>2, <2>3, <2>4, <2>5 DEF TimerThread, Keeps
<1> QED BY <1>1, <1>2

(* Every step preserves the inductive invariant.                           *)
LEMMA NextIInv == IInv /\ [Next]_vars => IInv'
<1> SUFFICES ASSUME IInv, [Next]_vars PROVE IInv'
  OBVIOUS
<1>1. CASE Boot
  BY <1>1, BootIInv
<1>2. CASE NotifyDriver \/ \E v \in BOOLEAN : PushTractiveEnable(v)
  BY <1>2, DriverIInv
<1>3. CASE StateControllerThread
  BY <1>3, StepIInv
<1>4. CASE TimerThread \/ \E t \in Timers : TimerExpires(t)
  BY <1>4, TimerIInv
<1>5. CASE Environment
  <2>1. UNCHANGED <<ctl, enable, driver, timerQ, boot>>
    BY <1>5 DEF Environment
  <2>2. pins' \in [Pins -> BOOLEAN]
    <3>1. PICK p \in ChangingPins : ChangePin(p)
      BY <1>5 DEF Environment
    <3>2. p \in Pins /\ pins \in [Pins -> BOOLEAN]
      BY ChangingPinsAssumption DEF IInv, TypeOK
    <3> DEFINE moved == ~pins[p]
    <3>3. pins' = [pins EXCEPT ![p] = moved]
      BY <3>1 DEF ChangePin
    <3>4. moved \in BOOLEAN
      BY Zenon
    <3> HIDE DEF moved
    <3> QED BY <3>2, <3>3, <3>4
  <2> QED BY <2>1, <2>2 DEF IInv, TypeOK, OperatingNeedsDriver
<1>6. CASE UNCHANGED vars
  BY <1>6 DEF vars, IInv, TypeOK, OperatingNeedsDriver
<1> QED BY <1>1, <1>2, <1>3, <1>4, <1>5, <1>6 DEF Next

(* The inductive invariant holds in every behaviour.                       *)
LEMMA IInvHolds == Spec => []IInv
BY InitIInv, NextIInv, PTL DEF Spec

(* Every variable keeps its type, in every execution: no handler, nested   *)
(* notification or callback leaves the record of controller state out of   *)
(* its ranges.                                                             *)
THEOREM TypeCorrect == Spec => []TypeOK
<1>1. IInv => TypeOK
  BY DEF IInv
<1> QED BY <1>1, IInvHolds, PTL

(* Outside precharge and run no contactor coil is driven (push_state and   *)
(* transition_state, with the boot and the nested sequence error).         *)
THEOREM SafeStatesAreOpen == Spec => []SafeStatesOpen
<1>1. IInv => SafeStatesOpen
  BY DrivenValues DEF IInv, Shape, ReachableContactor, SafeStatesOpen, OperatingStates
<1> QED BY <1>1, IInvHolds, PTL

(* The operating states and the latch need the driver's enable, up to the  *)
(* notification of its withdrawal (push_tractive_enable, notify_event).    *)
THEOREM OperatingIsDriven == Spec => []OperatingNeedsDriver
<1>1. IInv => OperatingNeedsDriver
  BY DEF IInv
<1> QED BY <1>1, IInvHolds, PTL
-----------------------------------------------------------------------------
(* Precharge, run and the latch: what a transition does to the minimum     *)
(* timer and to the contactors.                                            *)

(* Going from c to d does not lose the timer of a precharge: d is not in   *)
(* precharge, or its timer counts, or precharge goes on from c as it was.  *)
KeepsTimer(c, d) ==
  d.state = scsStartedPrecharge =>
    \/ "minimum" \in d.running
    \/ c.state = scsStartedPrecharge /\ "minimum" \notin c.running

(* Going from c to d does not close the run contactor.                     *)
KeepsRunOpen(c, d) ==
  d.contactor = hvcHighCurrentRun => c.contactor = hvcHighCurrentRun

(* A transition exhausts the stack and changes nothing else, or it pushes  *)
(* its contactor state, adjusts the timer and enters its target.           *)
LEMMA TransitionFields ==
  ASSUME NEW c, Shape(c), NEW s \in state_controller_state_t
  PROVE  \/ /\ transition_state(c, s) = ExhaustStack(c)
            /\ c.overflow \/ s # scsPrechargeMinimumTimeExceeded
         \/ /\ transition_state(c, s).state = s
            /\ transition_state(c, s).running = TimerFor(s, PushFor(c, s).running)
            /\ transition_state(c, s).contactor = PushFor(c, s).contactor
            /\ ~PushFor(c, s).overflow
<1> DEFINE p == PushFor(c, s)
<1>0. c \in Ctl
  BY DEF Shape
<1>1. CASE c.overflow \/ p.overflow
  BY <1>1 DEF transition_state, PushFor
<1>2. CASE ~(c.overflow \/ p.overflow)
  <2>1. p \in Ctl
    <3>1. CASE s = scsPrechargeMinimumTimeExceeded
      BY <1>0, <3>1 DEF PushFor
    <3>2. CASE s # scsPrechargeMinimumTimeExceeded
      <4>1. ContactorsFor(s) \in {hvcAllOpen, hvcPrecharge, hvcHighCurrentRun}
        BY DEF ContactorsFor
      <4> QED BY <1>2, <3>2, <4>1, PushFields DEF PushFor
    <3> QED BY <3>1, <3>2
  <2> HIDE DEF p
  <2>2. transition_state(c, s)
          = [p EXCEPT !.running = TimerFor(s, p.running), !.state = s]
    BY <1>2, <2>1 DEF transition_state, SetState, Ctl, p
  <2> QED BY <1>2, <2>1, <2>2 DEF Ctl, p
<1> QED BY <1>1, <1>2

(* A transition keeps the timer: into precharge it starts it.             *)
LEMMA TransitionTicks ==
  ASSUME NEW c, Shape(c), NEW s \in state_controller_state_t
  PROVE  KeepsTimer(c, transition_state(c, s))
<1>1. CASE transition_state(c, s) = ExhaustStack(c)
  <2>1. ExhaustStack(c).state = c.state /\ ExhaustStack(c).running = c.running
    BY DEF ExhaustStack, Shape, Ctl
  <2> QED BY <1>1, <2>1 DEF KeepsTimer
<1>2. CASE /\ transition_state(c, s).state = s
           /\ transition_state(c, s).running = TimerFor(s, PushFor(c, s).running)
  BY <1>2 DEF KeepsTimer, TimerFor
<1> QED BY <1>1, <1>2, TransitionFields

(* Of the transitions only that to race ready closes the run contactor,    *)
(* and only when the precharge contactor is closed.                        *)
LEMMA TransitionCloses ==
  ASSUME NEW c, Shape(c), NEW s \in state_controller_state_t
  PROVE  \/ KeepsRunOpen(c, transition_state(c, s))
         \/ s = scsTractiveSystemRaceReady /\ c.contactor = hvcPrecharge
<1> DEFINE p == PushFor(c, s)
<1>1. CASE transition_state(c, s) = ExhaustStack(c)
  BY <1>1 DEF ExhaustStack, Shape, Ctl, KeepsRunOpen
<1>2. CASE transition_state(c, s).contactor = p.contactor /\ ~p.overflow
  <2>1. CASE s = scsPrechargeMinimumTimeExceeded
    BY <1>2, <2>1 DEF PushFor, KeepsRunOpen
  <2>2. CASE s \notin {scsPrechargeMinimumTimeExceeded, scsTractiveSystemRaceReady}
    <3>1. ContactorsFor(s) \in {hvcAllOpen, hvcPrecharge}
      BY <2>2 DEF ContactorsFor
    <3>2. p.contactor \in {ContactorsFor(s), hvcInitialising, hvcAllOpen}
      BY <1>2, <2>2, <3>1, PushFields DEF PushFor
    <3> HIDE DEF p
    <3> QED BY <1>2, <3>1, <3>2 DEF KeepsRunOpen
  <2>3. CASE s = scsTractiveSystemRaceReady /\ c.contactor # hvcPrecharge
    <3> DEFINE r == notify_error(c)
    <3>1. p = push_state(c, hvcHighCurrentRun, r)
      BY <2>3 DEF PushFor, ContactorsFor
    <3>2. ~Accepts(c.contactor, hvcHighCurrentRun)
      BY <2>3 DEF Accepts
    <3>3. Shape(r)
      BY NotifyErrorShape DEF Keeps
    <3> HIDE DEF r
    <3>4. p = Sync(r, AfterRefusal(r.contactor))
      BY <1>2, <3>1, <3>2 DEF push_state
    <3>5. AfterRefusal(r.contactor) \in {hvcInitialising, hvcAllOpen}
      BY <3>3 DEF AfterRefusal, Shape, ReachableContactor
    <3>6. p.contactor \in {hvcInitialising, hvcAllOpen}
      BY <3>3, <3>4, <3>5, SyncFields DEF Shape, contactor_state_t
    <3> HIDE DEF p
    <3> QED BY <1>2, <3>6 DEF KeepsRunOpen
  <2> QED BY <2>1, <2>2, <2>3
<1> QED BY <1>1, <1>2, TransitionFields

(* What the operations other than the two last steps of a precharge do.    *)
Safely(c, d) ==
  /\ Shape(d)
  /\ KeepsTimer(c, d)
  /\ KeepsRunOpen(c, d)

(* A transition, unless it ends a precharge, loses no timer of one and     *)
(* closes no run contactor.                                                *)
LEMMA TransitionSafely ==
  ASSUME NEW c, Shape(c), NEW s \in state_controller_state_t,
         s \notin {scsPrechargeMinimumTimeExceeded, scsTractiveSystemRaceReady}
  PROVE  /\ Safely(c, transition_state(c, s))
         /\ transition_state(c, s).state \in {c.state, s}
<1>1. /\ Shape(transition_state(c, s))
      /\ transition_state(c, s).state \in {c.state, s}
  BY TransitionShape DEF Keeps
<1>2. KeepsRunOpen(c, transition_state(c, s))
  BY TransitionCloses
<1> QED BY <1>1, <1>2, TransitionTicks DEF Safely

(* Neither does setting the thread's signal or taking it.                  *)
LEMMA SignalSafely ==
  ASSUME NEW c, Shape(c)
  PROVE  /\ Safely(c, Signal(c)) /\ Signal(c).state = c.state
         /\ Safely(c, Wake(c)) /\ Wake(c).state = c.state
BY SignalShape DEF Safely, KeepsTimer, KeepsRunOpen, Keeps, Shape, Signal, Wake, Ctl

(* Two safe operations in a row are safe.                                  *)
LEMMA SafelyTransitive ==
  ASSUME NEW c, NEW d, NEW e,
         Safely(c, d), Safely(d, e)
  PROVE  Safely(c, e)
BY DEF Safely, KeepsTimer, KeepsRunOpen

(* A turn of the thread in a waiting state is safe.                        *)
LEMMA ProcessWaitingSafely ==
  ASSUME NEW c, Shape(c)
  PROVE  Safely(c, process_waiting_states(c))
<1>1. /\ WaitingTarget \in state_controller_state_t
      /\ WaitingTarget
           \notin {scsPrechargeMinimumTimeExceeded, scsTractiveSystemRaceReady}
  BY DEF WaitingTarget, state_controller_state_t
<1>2. Safely(c, transition_state(c, WaitingTarget))
  BY <1>1, TransitionSafely
<1>3. Safely(c, c)
  BY DEF Safely, KeepsTimer, KeepsRunOpen
<1> QED BY <1>2, <1>3 DEF process_waiting_states

(* The check of an activated state is safe.                                *)
LEMMA ProcessActivatedSafely ==
  ASSUME NEW c, Shape(c)
  PROVE  Safely(c, process_activated_states(c))
<1>1. /\ scsLatchingError \in state_controller_state_t
      /\ scsLatchingError
           \notin {scsPrechargeMinimumTimeExceeded, scsTractiveSystemRaceReady}
  BY DEF state_controller_state_t
<1>2. Safely(c, transition_state(c, scsLatchingError))
  BY <1>1, TransitionSafely
<1>3. Safely(c, c)
  BY DEF Safely, KeepsTimer, KeepsRunOpen
<1> QED BY <1>2, <1>3 DEF process_activated_states
------------------------------------------------------------------------------
(* The inductive invariant of this module: IInv; the enable bit is off     *)
(* while its withdrawal is notified, no other command coming in between;   *)
(* main() runs the first transition from scsInitialising, which only a     *)
(* running thread or main() leaves; and PrechargeCanFinish.                *)
PInv ==
  /\ IInv
  /\ driver = "deactivates" => ~enable
  /\ boot = 0 => ctl.state = scsInitialising /\ ~ctl.started
  /\ PrechargeCanFinish

(* What a step may do to the run contactor and to the latch.               *)
ClosesRun ==
  /\ ctl.state = scsPrechargeMinimumTimeExceeded
  /\ ctl.contactor = hvcPrecharge
  /\ PrechargeComplete /\ Healthy

StepAllowed ==
  /\ KeepsRunOpen(ctl, ctl') \/ ClosesRun
  /\ ctl.state = scsLatchingError /\ ctl'.state # scsLatchingError
       => driver = "deactivates" /\ ~enable

(* Booting preserves the precharge invariant.                              *)
LEMMA BootPInv == PInv /\ Boot => PInv' /\ StepAllowed
<1> SUFFICES ASSUME PInv, Boot PROVE PInv' /\ StepAllowed
  OBVIOUS
<1> USE DEF PInv
<1>0. IInv' /\ Shape(ctl)
  BY BootIInv DEF IInv
<1>1. CASE BootInitialiseStateController
  <2>1. scsWaitingForInternalSafety \in state_controller_state_t
    BY DEF state_controller_state_t
  <2>2. /\ Safely(ctl, ctl')
        /\ ctl'.state \in {ctl.state, scsWaitingForInternalSafety}
    BY <1>0, <1>1, <2>1, TransitionSafely DEF BootInitialiseStateController
  <2> QED BY <1>0, <1>1, <2>2 DEF BootInitialiseStateController, StepAllowed, Safely,
                                  PrechargeCanFinish
<1>2. CASE BootStartStateController
  <2>1. /\ ctl'.state = ctl.state /\ ctl'.running = ctl.running
        /\ ctl'.contactor = ctl.contactor
    BY <1>0, <1>2 DEF BootStartStateController, Shape, Ctl
  <2> QED BY <1>0, <1>2, <2>1 DEF BootStartStateController, StepAllowed, KeepsRunOpen,
                                  PrechargeCanFinish, Queued
<1>3. CASE BootInitialiseContactorController
  <2>1. /\ ctl'.state = ctl.state /\ ctl'.running = ctl.running
        /\ ctl'.contactor = hvcAllOpen
    BY <1>0, <1>3 DEF BootInitialiseContactorController, initialise_contactors, Shape, Ctl
  <2> QED BY <1>0, <1>3, <2>1 DEF BootInitialiseContactorController, StepAllowed,
                                  KeepsRunOpen, PrechargeCanFinish, Queued
<1> QED BY <1>1, <1>2, <1>3 DEF Boot

(* The driver's events preserve the precharge invariant.                   *)
LEMMA DriverPInv ==
  ASSUME PInv, NotifyDriver \/ \E v \in BOOLEAN : PushTractiveEnable(v)
  PROVE  PInv' /\ StepAllowed
<1> USE DEF PInv
<1>0. IInv' /\ Shape(ctl) /\ TypeOK
  BY DriverIInv DEF IInv
<1>1. ASSUME NEW v \in BOOLEAN, PushTractiveEnable(v) PROVE PInv' /\ StepAllowed
  <2>1. UNCHANGED <<ctl, timerQ, boot>>
    BY <1>1 DEF PushTractiveEnable
  <2>2. driver' = "deactivates" => ~enable'
    BY <1>1 DEF PushTractiveEnable
  <2> QED BY <1>0, <2>1, <2>2 DEF StepAllowed, KeepsRunOpen, PrechargeCanFinish, Queued
<1>2. CASE NotifyDriver
  <2>1. UNCHANGED <<enable, timerQ, boot>> /\ driver' \in {driver, "idle"}
    BY <1>2 DEF NotifyDriver
  <2>2. /\ Safely(ctl, ctl')
        /\ driver = "enables" => ctl'.state = ctl.state
        /\ boot = 0 => ctl'.state = ctl.state /\ ctl'.started = ctl.started
    <3>1. CASE driver = "enables"
      <4>1. ctl' = Signal(ctl)
        BY <1>2, <3>1 DEF NotifyDriver, notify_enables
      <4>2. Signal(ctl).started = ctl.started
        BY <1>0 DEF Signal, Shape, Ctl
      <4> QED BY <1>0, <4>1, <4>2, SignalSafely
    <3>2. CASE driver # "enables"
      <4> DEFINE d == IF Resettable(ctl.state)
                      THEN transition_state(ctl, scsWaitingForInternalSafety) ELSE ctl
      <4>1. ctl' = IF d.overflow THEN d ELSE Signal(d)
        BY <1>2, <3>2 DEF NotifyDriver, notify_deactivates
      <4>2. Safely(ctl, d) /\ (boot = 0 => d = ctl)
        <5>1. scsWaitingForInternalSafety \in state_controller_state_t
          BY DEF state_controller_state_t
        <5>2. Safely(ctl, transition_state(ctl, scsWaitingForInternalSafety))
          BY <1>0, <5>1, TransitionSafely
        <5>3. Safely(ctl, ctl)
          BY <1>0 DEF Safely, KeepsTimer, KeepsRunOpen
        <5>4. boot = 0 => ~Resettable(ctl.state)
          BY DEF Resettable
        <5> QED BY <5>2, <5>3, <5>4
      <4> HIDE DEF d
      <4>3. Shape(d) /\ Safely(d, Signal(d)) /\ Signal(d).state = d.state
        BY <4>2, SignalSafely DEF Safely
      <4>4. Signal(d).started = d.started
        BY <4>3 DEF Signal, Shape, Ctl
      <4>5. Safely(ctl, ctl')
        BY <4>1, <4>2, <4>3, SafelyTransitive
      <4> QED BY <3>2, <4>1, <4>2, <4>3, <4>4, <4>5
    <3> QED BY <3>1, <3>2
  <2>3. driver \in {"enables", "deactivates"}
    BY <1>0, <1>2 DEF NotifyDriver, TypeOK
  <2>4. PrechargeCanFinish'
    BY <2>1, <2>2 DEF PrechargeCanFinish, Queued, Safely, KeepsTimer
  <2>5. StepAllowed
    BY <2>2, <2>3 DEF StepAllowed, Safely
  <2> QED BY <1>0, <2>1, <2>2, <2>4, <2>5
<1> QED BY <1>1, <1>2

(* The StateController thread, which runs only after boot = 0.  The run    *)
(* contactor may close in its last case alone: there a fault would have    *)
(* opened the precharge contactor before the transition to race ready.     *)
LEMMA StepPInv == PInv /\ StateControllerThread => PInv' /\ StepAllowed
<1> SUFFICES ASSUME PInv, StateControllerThread PROVE PInv' /\ StepAllowed
  OBVIOUS
<1> USE DEF PInv
<1>0. IInv' /\ Shape(ctl)
  BY StepIInv DEF IInv
<1>1. UNCHANGED <<enable, driver, timerQ, boot>> /\ boot # 0
  BY DEF StateControllerThread, StepIdle, StepWaiting, StepReadyToPrecharge,
         StepActivated, StepMinimumTimeExceeded, Step
<1> DEFINE w == Wake(ctl)
<1>2. Safely(ctl, w) /\ Shape(w) /\ w.state = ctl.state
  BY <1>0, SignalSafely DEF Safely
<1>3. \A c, s : /\ Safely(ctl, c) /\ s \in state_controller_state_t
                /\ s \notin {scsPrechargeMinimumTimeExceeded, scsTractiveSystemRaceReady}
                => Safely(ctl, transition_state(c, s))
  BY TransitionSafely, SafelyTransitive DEF Safely
<1> DEFINE waiting == process_waiting_states(w)
           activated == process_activated_states(w)
<1>4. Safely(ctl, waiting) /\ Safely(ctl, activated)
  BY <1>2, ProcessWaitingSafely, ProcessActivatedSafely, SafelyTransitive
<1>5. /\ scsLatchingError \in state_controller_state_t
      /\ scsWaitingForPrechargeActivation \in state_controller_state_t
      /\ scsStartedPrecharge \in state_controller_state_t
      /\ scsTractiveSystemRaceReady \in state_controller_state_t
  BY DEF state_controller_state_t
<1>6. CASE StepMinimumTimeExceeded
  <2> DEFINE s == IF PrechargeComplete THEN scsTractiveSystemRaceReady
                  ELSE scsLatchingError
  <2>1. ctl.state = scsPrechargeMinimumTimeExceeded /\ ctl' = transition_state(activated, s)
    BY <1>6 DEF StepMinimumTimeExceeded, Step
  <2>2. activated = IF Healthy THEN w ELSE transition_state(w, scsLatchingError)
    BY DEF process_activated_states
  <2>3. w.contactor = ctl.contactor
    BY <1>0 DEF Wake, Shape, Ctl
  <2>4. s \in {scsTractiveSystemRaceReady, scsLatchingError} /\ s \in state_controller_state_t
    BY <1>5
  <2>5. s = scsTractiveSystemRaceReady => PrechargeComplete
    OBVIOUS
  <2> HIDE DEF w, activated, s
  <2>6. Shape(activated) /\ Safely(ctl, activated)
    BY <1>4 DEF Safely
  <2>7. KeepsTimer(ctl, ctl')
    <3>1. KeepsTimer(activated, ctl')
      BY <2>1, <2>4, <2>6, TransitionTicks
    <3> QED BY <2>1, <2>6, <3>1 DEF KeepsTimer, Safely
  <2>8. KeepsRunOpen(ctl, ctl') \/ ClosesRun
    <3>1. \/ KeepsRunOpen(activated, ctl')
          \/ s = scsTractiveSystemRaceReady /\ activated.contactor = hvcPrecharge
      BY <2>1, <2>4, <2>6, TransitionCloses
    <3>2. CASE KeepsRunOpen(activated, ctl')
      BY <2>6, <3>2 DEF Safely, KeepsRunOpen
    <3>3. CASE s = scsTractiveSystemRaceReady /\ activated.contactor = hvcPrecharge
      <4>1. CASE Healthy
        BY <2>1, <2>2, <2>3, <2>5, <3>3, <4>1 DEF ClosesRun
      <4>2. CASE ~Healthy
        <5>1. activated.state = scsLatchingError \/ activated.overflow
          BY <1>2, <1>5, <2>2, <4>2, TransitionShape
        <5>2. activated.overflow
          BY <2>6, <3>3, <5>1 DEF Shape
        <5>3. ctl' = ExhaustStack(activated)
          BY <2>1, <5>2 DEF transition_state
        <5>4. KeepsRunOpen(activated, ctl')
          BY <2>6, <5>3 DEF ExhaustStack, KeepsRunOpen, Shape, Ctl
        <5> QED BY <2>6, <5>4 DEF Safely, KeepsRunOpen
      <4> QED BY <4>1, <4>2
    <3> QED BY <3>1, <3>2, <3>3
  <2> QED BY <1>0, <1>1, <2>1, <2>7, <2>8 DEF StepAllowed, KeepsTimer, PrechargeCanFinish,
                                             Queued
<1>7. CASE StepIdle \/ StepWaiting \/ StepReadyToPrecharge \/ StepActivated
  <2>1. Safely(ctl, ctl') /\ (ctl.state = scsLatchingError => ctl'.state = ctl.state)
    <3>1. CASE StepIdle
      BY <1>2, <3>1 DEF StepIdle, Step
    <3>2. CASE StepWaiting
      <4>1. /\ ctl.state # scsLatchingError
            /\ ctl' = IF enable THEN transition_state(waiting, scsLatchingError)
                      ELSE IF Healthy
                      THEN transition_state(waiting, scsWaitingForPrechargeActivation)
                      ELSE waiting
        BY <3>2 DEF StepWaiting, Step
      <4> HIDE DEF waiting
      <4> QED BY <1>3, <1>4, <1>5, <4>1
    <3>3. CASE StepReadyToPrecharge
      <4>1. /\ ctl.state # scsLatchingError
            /\ ctl' = IF Healthy /\ enable THEN transition_state(waiting, scsStartedPrecharge)
                      ELSE waiting
        BY <3>3 DEF StepReadyToPrecharge, Step
      <4> HIDE DEF waiting
      <4> QED BY <1>3, <1>4, <1>5, <4>1
    <3>4. CASE StepActivated
      <4>1. ctl.state # scsLatchingError /\ ctl' = activated
        BY <3>4 DEF StepActivated, Step
      <4> QED BY <1>4, <4>1
    <3> QED BY <1>7, <3>1, <3>2, <3>3, <3>4
  <2> QED BY <1>0, <1>1, <2>1 DEF StepAllowed, Safely, KeepsTimer, PrechargeCanFinish, Queued
<1> QED BY <1>6, <1>7 DEF StateControllerThread

(* SysTick and the timer thread: an expiry of the minimum timer is queued  *)
(* before it stops counting, and its callback ends scsStartedPrecharge.    *)
LEMMA TimerPInv ==
  ASSUME PInv, TimerThread \/ \E t \in Timers : TimerExpires(t)
  PROVE  PInv' /\ StepAllowed
<1> USE DEF PInv
<1>0. IInv' /\ Shape(ctl) /\ timerQ \in Seq(Timers)
  BY TimerIInv DEF IInv, TypeOK
<1>1. ASSUME NEW t \in Timers, TimerExpires(t) PROVE PInv' /\ StepAllowed
  <2>1. /\ UNCHANGED <<enable, driver, boot>>
        /\ timerQ' = Append(timerQ, t)
    BY <1>1 DEF TimerExpires
  <2>2. /\ ctl'.running = ctl.running \ {t}
        /\ ctl'.state = ctl.state /\ ctl'.contactor = ctl.contactor
        /\ ctl'.started = ctl.started
    BY <1>0, <1>1 DEF TimerExpires, Shape, Ctl
  <2>3. Queued("minimum") \/ t = "minimum" => Queued("minimum")'
    BY <1>0, <2>1 DEF Queued
  <2>4. PrechargeCanFinish'
    BY <2>2, <2>3 DEF PrechargeCanFinish
  <2> QED BY <1>0, <2>1, <2>2, <2>4 DEF StepAllowed, KeepsRunOpen
<1>2. CASE TimerThread
  <2>1. /\ UNCHANGED <<enable, driver, boot>>
        /\ timerQ # << >> /\ timerQ' = Tail(timerQ)
        /\ ctl' = Callback(ctl, Head(timerQ)) /\ ~ctl.overflow
    BY <1>2 DEF TimerThread, Alive
  <2>2. Queued("minimum") => Queued("minimum")' \/ Head(timerQ) = "minimum"
    <3> SUFFICES ASSUME NEW i \in 1 .. Len(timerQ), timerQ[i] = "minimum",
                        Head(timerQ) # "minimum"
                 PROVE  Queued("minimum")'
      BY DEF Queued
    <3>1. i # 1 /\ i - 1 \in 1 .. Len(Tail(timerQ)) /\ Tail(timerQ)[i - 1] = timerQ[i]
      BY <1>0, <2>1
    <3> QED BY <2>1, <3>1 DEF Queued
  <2>3. CASE Head(timerQ) = "minimum" /\ ctl.state = scsStartedPrecharge
    <3>1. scsPrechargeMinimumTimeExceeded \in state_controller_state_t
      BY DEF state_controller_state_t
    <3>2. ctl' = transition_state(ctl, scsPrechargeMinimumTimeExceeded)
      BY <2>1, <2>3 DEF Callback, precharge_timer_fire
    <3>3. ctl'.state = scsPrechargeMinimumTimeExceeded
      BY <1>0, <2>1, <3>1, <3>2, TransitionFields
    <3>4. KeepsRunOpen(ctl, ctl')
      BY <1>0, <3>1, <3>2, TransitionCloses
    <3> QED BY <1>0, <2>1, <2>3, <3>3, <3>4 DEF StepAllowed, PrechargeCanFinish
  <2>4. CASE Head(timerQ) # "minimum" \/ ctl.state # scsStartedPrecharge
    <3>1. /\ ctl'.state = ctl.state /\ ctl'.running = ctl.running
          /\ ctl'.contactor = ctl.contactor /\ ctl'.started = ctl.started
      BY <1>0, <2>1, <2>4 DEF Callback, precharge_timer_fire, toggle_cb, Shape, Ctl
    <3>2. PrechargeCanFinish'
      BY <2>2, <2>4, <3>1 DEF PrechargeCanFinish
    <3> QED BY <1>0, <2>1, <3>1, <3>2 DEF StepAllowed, KeepsRunOpen
  <2> QED BY <2>3, <2>4
<1> QED BY <1>1, <1>2
------------------------------------------------------------------------------
(* The initial states satisfy the precharge invariant.                     *)
LEMMA InitPInv == Init => PInv
BY InitIInv DEF PInv, Init, PrechargeCanFinish

(* Every step preserves the precharge invariant.                           *)
LEMMA NextPInv == PInv /\ [Next]_vars => PInv' /\ StepAllowed
<1> SUFFICES ASSUME PInv, [Next]_vars PROVE PInv' /\ StepAllowed
  OBVIOUS
<1>1. IInv'
  BY NextIInv DEF PInv
<1>2. CASE Boot
  BY <1>2, BootPInv
<1>3. CASE NotifyDriver \/ \E v \in BOOLEAN : PushTractiveEnable(v)
  BY <1>3, DriverPInv
<1>4. CASE StateControllerThread
  BY <1>4, StepPInv
<1>5. CASE TimerThread \/ \E t \in Timers : TimerExpires(t)
  BY <1>5, TimerPInv
<1>6. CASE Environment \/ UNCHANGED vars
  <2>1. UNCHANGED <<ctl, enable, driver, timerQ, boot>>
    BY <1>6 DEF Environment, vars
  <2> QED BY <1>1, <2>1 DEF PInv, PrechargeCanFinish, Queued, StepAllowed, KeepsRunOpen
<1> QED BY <1>2, <1>3, <1>4, <1>5, <1>6 DEF Next

(* The precharge invariant holds in every behaviour.                       *)
LEMMA PInvHolds == Spec => []PInv /\ [][StepAllowed]_vars
BY InitPInv, NextPInv, PTL DEF Spec

(* While precharge is in progress its timer counts or its expiry is queued *)
(* (transition_state, precharge_timer_fire), whatever stops and restarts   *)
(* the timer.                                                              *)
THEOREM PrechargeNeverStuck == Spec => []PrechargeCanFinish
<1>1. PInv => PrechargeCanFinish
  BY DEF PInv
<1> QED BY <1>1, PInvHolds, PTL

(* The run coil goes on from the end of a healthy, complete precharge with *)
(* the precharge coil driven (state_machine_process_step, push_state).     *)
THEOREM RunClosesHealthy == Spec => RunClosesOnlyWhenHealthy
<1>1. PInv /\ PInv' /\ [Next]_vars
        => ("run" \in ctl'.coils \ ctl.coils =>
              /\ ctl.state = scsPrechargeMinimumTimeExceeded
              /\ "precharge" \in ctl.coils
              /\ PrechargeComplete /\ Healthy)
  <2> SUFFICES ASSUME PInv, PInv', [Next]_vars, "run" \in ctl'.coils \ ctl.coils
               PROVE  /\ ctl.state = scsPrechargeMinimumTimeExceeded
                      /\ "precharge" \in ctl.coils
                      /\ PrechargeComplete /\ Healthy
    OBVIOUS
  <2>1. Shape(ctl) /\ Shape(ctl)'
    BY DEF PInv, IInv
  <2>2. ctl'.contactor = hvcHighCurrentRun
    BY <2>1, DrivenValues DEF Shape, ReachableContactor
  <2>3. ctl.contactor # hvcHighCurrentRun
    BY <2>1, DrivenValues DEF Shape
  <2>4. ClosesRun
    BY <2>2, <2>3, NextPInv DEF StepAllowed, KeepsRunOpen
  <2> QED BY <2>1, <2>4, DrivenValues DEF ClosesRun, Shape
<1> QED BY <1>1, PInvHolds, PTL DEF Spec, RunClosesOnlyWhenHealthy

(* A latched error is left through the notification of a withdrawal only,  *)
(* with the enable bit off (notify_event, push_tractive_enable).           *)
THEOREM LatchIsResetByDriver == Spec => LatchResetByDriver
<1>1. StepAllowed => (ctl.state = scsLatchingError /\ ctl'.state # scsLatchingError
                        => driver = "deactivates" /\ ~enable)
  BY DEF StepAllowed
<1> QED BY <1>1, PInvHolds, PTL DEF LatchResetByDriver
=============================================================================
