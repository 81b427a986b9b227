-------------------------- MODULE MCStateController --------------------------
(* StateController for TLC: which inputs change in which run.              *)
EXTENDS StateController

(* Every input the state machine reads.                                    *)
AllPins == Pins \ {"battery_undervoltage", "battery_overvoltage"}

(* One input of each stage of process_waiting_states, and precharge_99.    *)
OnePerStage == {"bmsOk", "service_disconnects", "contactor_power", "precharge_99"}

(* A fault input and a precharge input.                                    *)
FaultAndPrecharge == {"imd_signal", "precharge_99"}

(* RTX thread priorities, as an action constraint.  A timer whose callback *)
(* is queued makes the timer thread ready; main() and the CAN thread, of   *)
(* lower priority, then wait, while SysTick and the realtime               *)
(* StateController thread go on.                                           *)
TimerThreadFirst == timerQ # << >> => UNCHANGED <<enable, driver, boot>>

(* "Throws error if the program does not close the contactors in the order *)
(* expected" (ContactorController.hpp:26): when the state machine says it  *)
(* is race ready, the contactors it asked for are closed.                  *)
ReadyMeansClosed ==
  ctl.state = scsTractiveSystemRaceReady => ctl.contactor = hvcHighCurrentRun

(* "If the system is initialising ... we don't want to clear it at this    *)
(* point accidentally, so we must check" (ContactorController.cpp:126): a  *)
(* push_state refused because the contactor controller is initialising     *)
(* gets as far as that check.                                              *)
RefusedPushReturns == ~ctl.overflow

(* "Callback: XXX time after precharge coil changes state"                 *)
(* (ContactorController.cpp:68, :75): a fireonce flag says that the time   *)
(* since the last change of its coil is over, so that coil's error timer   *)
(* is not counting.                                                        *)
FireonceMeansElapsed == ctl.fireonce \cap ctl.running = {}
==============================================================================
