----------------------------- MODULE EnableCycle -----------------------------
(***************************************************************************)
(* StateController with an observer of the driver's commands: cycled says  *)
(* that the enable bit has been off since the contactors last began to     *)
(* close.                                                                  *)
(***************************************************************************)
EXTENDS MCStateController

VARIABLE cycled

PrechargeBegins == "precharge" \in ctl'.coils \ ctl.coils

InitObserved == Init /\ cycled = TRUE

NextObserved ==
  /\ Next
  /\ cycled' = (~PrechargeBegins /\ (cycled \/ ~enable'))

SpecObserved == InitObserved /\ [][NextObserved]_<<vars, cycled>>

(* "soft error, out of sequence CAN messages, etc, enable cycle resets"    *)
(* (StateController.hpp:15): however a precharge or a run ended - a fault  *)
(* that has gone away since, a sequence error, an incomplete precharge -   *)
(* the contactors do not begin to close again unless the driver has        *)
(* withdrawn the enable in between.                                        *)
NoRestartWithoutEnableCycle == [][PrechargeBegins => cycled]_<<vars, cycled>>
==============================================================================
