--------------------------- MODULE TractiveSystem ---------------------------
(***************************************************************************)
(* What the accumulator promises the rest of the car, without its timers,  *)
(* inputs, locks and nested calls: which coils are driven in which state,  *)
(* and which change of state is possible for which driver.  A fault or an  *)
(* input decides, unseen here, which of the possible changes happens.      *)
(***************************************************************************)
EXTENDS TractiveStates

VARIABLES
  state,      \* StateController::current_state
  coils,      \* the contactors whose coil is driven
  enable,     \* tractive_power_enable_bit
  withdrawn   \* the bit has been cleared and the state machine not told yet

tractiveVars == <<state, coils, enable, withdrawn>>

TractiveInit ==
  state = scsInitialising /\ coils = {} /\ enable = FALSE /\ withdrawn = FALSE

Goto(s, driven) == state' = s /\ coils' = driven

Start == state = scsInitialising /\ Goto(scsWaitingForInternalSafety, {})

Check ==
  \/ /\ state \in scsWaitingForInternalSafety .. scsWaitingForPrechargeActivation
     /\ \E s \in scsWaitingForInternalSafety .. scsWaitingForPrechargeActivation : Goto(s, {})
  \/ /\ state \in scsWaitingForInternalSafety .. scsWaitingForShutdownCircuit
     /\ enable
     /\ Goto(scsLatchingError, {})

BeginPrecharge ==
  /\ state = scsWaitingForPrechargeActivation /\ enable
  /\ Goto(scsStartedPrecharge, {"precharge"})

MinimumTime ==
  state = scsStartedPrecharge /\ Goto(scsPrechargeMinimumTimeExceeded, coils)

Close ==
  /\ state = scsPrechargeMinimumTimeExceeded
  /\ Goto(scsTractiveSystemRaceReady, {"precharge", "run"})

(* A fault and complete precharge seen in one step.                        *)
ReadyButOpen ==
  state = scsPrechargeMinimumTimeExceeded /\ Goto(scsTractiveSystemRaceReady, {})

Latch ==
  /\ state \in scsStartedPrecharge .. scsTractiveSystemRaceReady
  /\ Goto(scsLatchingError, {})

StateStep ==
  /\ Start \/ Check \/ BeginPrecharge \/ MinimumTime \/ Close \/ ReadyButOpen \/ Latch
  /\ UNCHANGED <<enable, withdrawn>>

Command(v) ==
  /\ ~withdrawn /\ v # enable
  /\ enable' = v /\ withdrawn' = ~v
  /\ UNCHANGED <<state, coils>>

Withdraw ==
  /\ withdrawn /\ withdrawn' = FALSE
  /\ IF state = scsInitialising THEN UNCHANGED <<state, coils>>
     ELSE Goto(scsWaitingForInternalSafety, {})
  /\ UNCHANGED enable

TractiveNext == StateStep \/ Withdraw \/ \E v \in BOOLEAN : Command(v)

TractiveSpec == TractiveInit /\ [][TractiveNext]_tractiveVars
=============================================================================
