--------------------------- MODULE StateController ---------------------------
(***************************************************************************)
(* The tractive-system state machine of src/controller/StateController.cpp *)
(* with the contactor controller it drives and the threads that call it:   *)
(*   - the StateController thread, woken by a signal or every 100 ms;      *)
(*   - the CAN thread, which changes tractive_power_enable_bit under one   *)
(*     lock and notifies the state machine under another;                  *)
(*   - the RTX timer thread, which runs the callbacks of expired timers in *)
(*     the order the SysTick handler queued them;                          *)
(*   - main(), which starts the tasks one after the other.                 *)
(*                                                                         *)
(* What a thread does while it holds current_state_lock is one action: the *)
(* state is read and written under that lock, and contactor and coils      *)
(* under it and the contactor controller's.  What goes without it is one   *)
(* variable at a time: the timers SysTick stops, a flag set by a toggle    *)
(* callback, a signal, the start of the thread, and the contactor state    *)
(* that ContactorController::initialise assigns.  A step reads each input  *)
(* and the enable bit at most once, so reading them all in one action      *)
(* gives the same outcomes as reading them one after the other while they  *)
(* change.                                                                 *)
(***************************************************************************)
EXTENDS ContactorController, SafetyInputs, TractiveStates, Sequences

VARIABLES
  ctl,      \* the record of controller state (see ContactorController), with
            \*   state     current_state of the state controller
            \*   signal    SIGNAL_STATE_CONTROLLER_INTERRUPT of its thread
            \*   started   its thread exists
  enable,   \* tractive_power_enable_bit
  driver,   \* the event the CAN thread has still to notify, or "idle"
  timerQ,   \* osTimerMessageQ: expired timers whose callback has not run
  boot      \* how far main() has come

vars == <<ctl, enable, driver, timerQ, boot, pins>>

Timers == Contactors \cup {"minimum"}     \* "minimum" is precharge_timer

(* main() is about to run StateController::initialise (0), to start its    *)
(* thread (1), to run ContactorController::initialise (2); or has (3).     *)
BootSteps == 0 .. 3
------------------------------------------------------------------------------
(* Operators on the record c of controller state.                          *)

(* Definitions whose name has an underscore and a capital after it, such   *)
(* as TimerFor_NotStarted, are plausible errors in the definition they     *)
(* precede.  No definition uses them; the README says which property       *)
(* rejects each.                                                           *)

(* m_thread.signal_set: lost while the thread does not exist.              *)
Signal(c) == [c EXCEPT !.signal = c.started]

(* signal_wait returns, by the signal or by its timeout, and clears it.    *)
Wake(c) == [c EXCEPT !.signal = FALSE]

ExhaustStack(c) == [c EXCEPT !.overflow = TRUE]

SetState(c, s) == [c EXCEPT !.state = s]

ContactorsFor_FallsThrough(s) ==
  IF s = scsTractiveSystemRaceReady THEN hvcHighCurrentRun
  ELSE IF s \in {scsLatchingError, scsStartedPrecharge} THEN hvcPrecharge ELSE hvcAllOpen

(* What a transition to s asks of the contactors, and does to the timer.   *)
ContactorsFor(s) ==
  CASE s = scsStartedPrecharge        -> hvcPrecharge
    [] s = scsTractiveSystemRaceReady -> hvcHighCurrentRun
    [] OTHER                          -> hvcAllOpen

OpensContactors(s) == s <= scsWaitingForPrechargeActivation

TimerFor_NotStarted(s, running) ==
  IF OpensContactors(s) THEN running \ {"minimum"} ELSE running

TimerFor(s, running) ==
  IF s = scsStartedPrecharge THEN running \cup {"minimum"}
  ELSE IF OpensContactors(s) THEN running \ {"minimum"}
  ELSE running

(* transition_state(s) for an s that opens the contactors, when the        *)
(* contactor controller accepts that.                                      *)
Enter(c, s) ==
  LET opened == Sync(c, hvcAllOpen)
  IN  SetState([opened EXCEPT !.running = TimerFor(s, @)], s)

(* notify_event of an error.  Past scsWaitingForInternalSafety it makes a  *)
(* transition, whose push_state(hvcAllOpen), if refused, makes the same    *)
(* call again with nothing changed: the recursion never ends.              *)
notify_error(c) ==
  IF c.state <= scsWaitingForInternalSafety THEN Signal(c)
  ELSE IF ~Accepts(c.contactor, hvcAllOpen) THEN ExhaustStack(c)
  ELSE Signal(Enter(c, scsWaitingForInternalSafety))

PushFor(c, s) ==
  IF s = scsPrechargeMinimumTimeExceeded THEN c
  ELSE push_state(c, ContactorsFor(s), notify_error(c))

transition_state(c, s) ==
  IF c.overflow \/ PushFor(c, s).overflow THEN ExhaustStack(c)
  ELSE SetState([PushFor(c, s) EXCEPT !.running = TimerFor(s, @)], s)

notify_enables_Silent(c) == c

(* notify_event(sceDriverEnablesTractiveSystem).                           *)
notify_enables(c) == Signal(c)

Resettable_LatchOnly(s) == s = scsLatchingError

Resettable_NotLatched(s) == s >= scsWaitingForInternalSafety

(* notify_event(sceDriverDeactivatesTractiveSystem).                       *)
Resettable(s) == s = scsLatchingError \/ s >= scsWaitingForInternalSafety

notify_deactivates(c) ==
  LET d == IF Resettable(c.state)
           THEN transition_state(c, scsWaitingForInternalSafety) ELSE c
  IN  IF d.overflow THEN d ELSE Signal(d)

(* The conditions of process_waiting_states and process_activated_states,  *)
(* in the order they are checked.                                          *)
InternalSafety == bms_status /\ is_plausible
TractiveLoop   == imd_status /\ disconnects_status
Healthy        == InternalSafety /\ TractiveLoop /\ contactor_power_status

WaitingTarget ==
  IF ~InternalSafety THEN scsWaitingForInternalSafety
  ELSE IF ~TractiveLoop THEN scsWaitingForTractiveLoop
  ELSE scsWaitingForShutdownCircuit

process_waiting_states(c) ==
  IF Healthy THEN c ELSE transition_state(c, WaitingTarget)

process_activated_states_Unchecked(c) == c

process_activated_states_Retries(c) ==
  IF Healthy THEN c ELSE transition_state(c, scsWaitingForPrechargeActivation)

process_activated_states(c) ==
  IF Healthy THEN c ELSE transition_state(c, scsLatchingError)

PrechargeComplete == precharge_99_status /\ precharge_oor_status

precharge_timer_fire_AnyState(c) ==
  transition_state(c, scsPrechargeMinimumTimeExceeded)

(* precharge_timer_fire.                                                   *)
precharge_timer_fire(c) ==
  IF c.state = scsStartedPrecharge
  THEN transition_state(c, scsPrechargeMinimumTimeExceeded) ELSE c
------------------------------------------------------------------------------
(* main(): each create() calls initialise() and starts the thread.         *)

Alive == ~ctl.overflow

BootInitialiseStateController ==
  /\ Alive /\ boot = 0
  /\ ctl' = transition_state(ctl, scsWaitingForInternalSafety)
  /\ boot' = 1
  /\ UNCHANGED <<enable, driver, timerQ, pins>>

BootStartStateController ==
  /\ Alive /\ boot = 1
  /\ ctl' = [ctl EXCEPT !.started = TRUE]
  /\ boot' = 2
  /\ UNCHANGED <<enable, driver, timerQ, pins>>

BootInitialiseContactorController ==
  /\ Alive /\ boot = 2
  /\ ctl' = initialise_contactors(ctl)
  /\ boot' = 3
  /\ UNCHANGED <<enable, driver, timerQ, pins>>

Boot == \/ BootInitialiseStateController
        \/ BootStartStateController
        \/ BootInitialiseContactorController
------------------------------------------------------------------------------
(* push_tractive_enable, called by the CAN thread: first the bit, under    *)
(* tractive_power_enable_lock, then the event.                             *)

PushTractiveEnable(new_val) ==
  /\ Alive /\ driver = "idle"
  /\ new_val # enable
  /\ enable' = new_val
  /\ driver' = IF new_val THEN "enables" ELSE "deactivates"
  /\ UNCHANGED <<ctl, timerQ, boot, pins>>

NotifyDriver ==
  /\ Alive /\ driver # "idle"
  /\ ctl' = IF driver = "enables" THEN notify_enables(ctl) ELSE notify_deactivates(ctl)
  /\ driver' = IF ctl'.overflow THEN driver ELSE "idle"
  /\ UNCHANGED <<enable, timerQ, boot, pins>>
------------------------------------------------------------------------------
(* One turn of the StateController thread: signal_wait and                 *)
(* state_machine_process_step, by the state it finds.                      *)

Step(states, next) ==
  /\ Alive /\ ctl.started
  /\ ctl.state \in states
  /\ ctl' = next
  /\ UNCHANGED <<enable, driver, timerQ, boot, pins>>

StepIdle ==
  Step({scsInitialising, scsNonResettableLatchingError, scsLatchingError}, Wake(ctl))

StepWaiting ==
  Step({scsWaitingForInternalSafety, scsWaitingForTractiveLoop,
        scsWaitingForShutdownCircuit},
       LET c == process_waiting_states(Wake(ctl))
       IN  IF enable THEN transition_state(c, scsLatchingError)
           ELSE IF Healthy THEN transition_state(c, scsWaitingForPrechargeActivation)
           ELSE c)

StepReadyToPrecharge ==
  Step({scsWaitingForPrechargeActivation},
       LET c == process_waiting_states(Wake(ctl))
       IN  IF Healthy /\ enable THEN transition_state(c, scsStartedPrecharge) ELSE c)

(* In scsStartedPrecharge the timer callback, not this step, goes on.      *)
StepActivated ==
  Step({scsStartedPrecharge, scsTractiveSystemRaceReady},
       process_activated_states(Wake(ctl)))

(* The result of process_activated_states() is not looked at.              *)
StepMinimumTimeExceeded ==
  Step({scsPrechargeMinimumTimeExceeded},
       transition_state(process_activated_states(Wake(ctl)),
                        IF PrechargeComplete THEN scsTractiveSystemRaceReady
                        ELSE scsLatchingError))

StateControllerThread ==
  StepIdle \/ StepWaiting \/ StepReadyToPrecharge \/ StepActivated
    \/ StepMinimumTimeExceeded
------------------------------------------------------------------------------
(* RTX timers.  The SysTick handler queues an expired timer, the timer     *)
(* thread runs its callback.  A timer is not modelled to expire again      *)
(* while its previous expiry is still queued: its period is at least       *)
(* 300 ms and the timer thread is only below the two realtime threads.     *)

Queued(t) == \E i \in 1 .. Len(timerQ) : timerQ[i] = t

TimerExpires(t) ==
  /\ Alive
  /\ t \in ctl.running /\ ~Queued(t)
  /\ ctl' = [ctl EXCEPT !.running = @ \ {t}]
  /\ timerQ' = Append(timerQ, t)
  /\ UNCHANGED <<enable, driver, boot, pins>>

Callback(c, t) == IF t = "minimum" THEN precharge_timer_fire(c) ELSE toggle_cb(c, t)

TimerThread ==
  /\ Alive /\ timerQ # << >>
  /\ ctl' = Callback(ctl, Head(timerQ))
  /\ timerQ' = Tail(timerQ)
  /\ UNCHANGED <<enable, driver, boot, pins>>
------------------------------------------------------------------------------
Init ==
  /\ ctl = [state |-> scsInitialising, contactor |-> hvcInitialising, coils |-> {},
            running |-> {}, fireonce |-> {}, signal |-> FALSE, started |-> FALSE,
            overflow |-> FALSE]
  /\ enable = FALSE
  /\ driver = "idle"
  /\ timerQ = << >>
  /\ boot = 0
  /\ InitPins

Environment ==
  \E p \in ChangingPins : ChangePin(p) /\ UNCHANGED <<ctl, enable, driver, timerQ, boot>>

Next ==
  \/ Boot
  \/ \E v \in BOOLEAN : PushTractiveEnable(v)
  \/ NotifyDriver
  \/ StateControllerThread
  \/ \E t \in Timers : TimerExpires(t)
  \/ TimerThread
  \/ Environment

Spec == Init /\ [][Next]_vars

(* main() returns from every create(); the StateController thread has the  *)
(* highest priority and wakes at least every 100 ms; a thread that has set *)
(* the enable bit goes on to notify; precharge_timer, which nobody         *)
(* restarts while it runs, expires; the timer thread is above every thread *)
(* but two that sleep most of the time.  The inputs and the driver may     *)
(* stay as they are for ever.                                              *)
Fairness ==
  /\ WF_vars(Boot)
  /\ WF_vars(StateControllerThread)
  /\ WF_vars(NotifyDriver)
  /\ WF_vars(TimerExpires("minimum"))
  /\ WF_vars(TimerThread)

FairSpec == Spec /\ Fairness
------------------------------------------------------------------------------
(* Properties.                                                             *)

Ctl == [state : state_controller_state_t, contactor : contactor_state_t,
        coils : SUBSET Contactors, running : SUBSET Timers,
        fireonce : SUBSET Contactors, signal : BOOLEAN, started : BOOLEAN,
        overflow : BOOLEAN]

(* The type of the state: every variable has the range its C type and its  *)
(* writers give it.                                                        *)
TypeOK ==
  /\ ctl \in Ctl
  /\ enable \in BOOLEAN
  /\ driver \in {"idle", "enables", "deactivates"}
  /\ timerQ \in Seq(Timers)
  /\ boot \in BootSteps
  /\ pins \in [Pins -> BOOLEAN]

OperatingStates ==
  {scsStartedPrecharge, scsPrechargeMinimumTimeExceeded, scsTractiveSystemRaceReady}

(* Outside precharge and run no contactor coil is driven, whatever order   *)
(* the driver's commands, the faults, the timer and the boot come in:      *)
(* transition_state asks push_state for hvcAllOpen and may be refused.     *)
SafeStatesOpen == ctl.state \notin OperatingStates => ctl.coils = {}

(* The contactors are driven, or the latch is held, only while the driver  *)
(* asks for power, or has just withdrawn it and the CAN thread is between  *)
(* clearing tractive_power_enable_bit and notify_event.                    *)
OperatingNeedsDriver ==
  ctl.state \in OperatingStates \cup {scsLatchingError}
    => enable \/ driver = "deactivates"

(* Precharge is never left waiting for a callback that will not come:      *)
(* while it is in progress precharge_timer runs or its expiry is queued,   *)
(* though stop() and start() race with the timer thread.                   *)
PrechargeCanFinish ==
  ctl.state = scsStartedPrecharge => "minimum" \in ctl.running \/ Queued("minimum")

(* An enable command that finds the system ready is acted on at once, not  *)
(* at the next 100 ms poll: no turn of the thread swallows the signal that *)
(* announces it.                                                           *)
PromptPrecharge ==
  ctl.state = scsWaitingForPrechargeActivation /\ enable /\ driver = "idle"
      /\ ctl.started /\ Alive
    => ctl.signal

(* The run contactor is closed onto a precharged bus only: its coil goes   *)
(* on from the end of precharge, with the precharge coil driven, with the  *)
(* precharge inputs asserted and with no fault on the other inputs,        *)
(* although the step ignores what process_activated_states() returns.      *)
RunClosesOnlyWhenHealthy ==
  [][ "run" \in ctl'.coils \ ctl.coils =>
        /\ ctl.state = scsPrechargeMinimumTimeExceeded
        /\ "precharge" \in ctl.coils
        /\ PrechargeComplete /\ Healthy ]_vars

(* A latched error is reset by the driver alone: it is left only through   *)
(* a deactivation, with the enable bit off.                                *)
LatchResetByDriver ==
  [][ ctl.state = scsLatchingError /\ ctl'.state # scsLatchingError
        => driver = "deactivates" /\ ~enable ]_vars

(* The threads, timers, faults and nested calls together do no more than   *)
(* TractiveSystem allows: no order of them skips a check, closes out of    *)
(* turn, or leaves the latch without the driver.                           *)
Tractive ==
  INSTANCE TractiveSystem
    WITH state <- ctl.state, coils <- ctl.coils, withdrawn <- (driver = "deactivates")

ImplementsTractiveSystem == Tractive!TractiveSpec

(* Withdrawing the enable opens the contactors, unless the driver asks     *)
(* for power again first.                                                  *)
DisableOpens == ~enable ~> ctl.coils = {} \/ enable

(* A fault on any input the state machine watches opens the contactors,    *)
(* unless it goes away first.                                              *)
FaultOpens == ~Healthy ~> ctl.coils = {} \/ Healthy

(* "Deactivating the TS removes a re-settable latching error and restarts  *)
(* the checking process" (StateController.cpp:73): once the inputs stay    *)
(* good and the driver keeps power off, the system gets ready for          *)
(* precharge and stays so, from wherever it was.                           *)
BecomesReady ==
  <>[](Healthy /\ ~enable)
    => <>[](ctl.state = scsWaitingForPrechargeActivation \/ ctl.overflow)

(* Once every input stays good and the driver keeps power on, the system   *)
(* comes to rest: race ready, or latched until the driver cycles enable.   *)
(* It is never stuck in precharge.                                         *)
ComesToRest ==
  <>[](Healthy /\ PrechargeComplete /\ enable)
    => <>[](ctl.state \in {scsLatchingError, scsTractiveSystemRaceReady} \/ ctl.overflow)
=============================================================================
