--------------------------- MODULE TractiveStates ---------------------------
(* The states of the state machine in StateController.hpp.                 *)
EXTENDS Naturals

scsNonResettableLatchingError    == 0
scsLatchingError                 == 1
scsInitialising                  == 2
scsWaitingForInternalSafety      == 3
scsWaitingForTractiveLoop        == 4
scsWaitingForShutdownCircuit     == 5
scsWaitingForPrechargeActivation == 6
scsStartedPrecharge              == 7
scsPrechargeMinimumTimeExceeded  == 8
scsTractiveSystemRaceReady       == 9

state_controller_state_t == 0 .. 9
=============================================================================
