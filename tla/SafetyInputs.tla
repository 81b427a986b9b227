---------------------------- MODULE SafetyInputs ----------------------------
(***************************************************************************)
(* The digital inputs the firmware reads, and the status functions of      *)
(* BMSController, InsulationMonitoringDevice and StackPlausibility that    *)
(* read them.  pins holds electrical levels (TRUE is high); the polarity   *)
(* is applied by the status functions, as in the source.                   *)
(***************************************************************************)

CONSTANT ChangingPins   \* the inputs whose level may change; the others stay good

VARIABLE pins

Pins == {"bmsOk", "imd_signal", "service_disconnects", "contactor_power",
         "precharge_99", "precharge_oor", "battery_undervoltage", "battery_overvoltage"}

ASSUME ChangingPinsAssumption == ChangingPins \subseteq Pins

ActiveLow == {"imd_signal", "service_disconnects", "contactor_power"}

bms_status             == pins["bmsOk"]
imd_status             == ~pins["imd_signal"]
disconnects_status     == ~pins["service_disconnects"]
contactor_power_status == ~pins["contactor_power"]
precharge_99_status    == pins["precharge_99"]
precharge_oor_status   == pins["precharge_oor"]
undervoltage_status    == pins["battery_undervoltage"]
overvoltage_status     == pins["battery_overvoltage"]

(* StackPlausibility::is_plausible: its body is commented out.             *)
is_plausible == TRUE

InitPins == pins \in {f \in [Pins -> BOOLEAN] :
                        \A p \in Pins \ ChangingPins : f[p] = (p \notin ActiveLow)}

(* The environment moves one input.                                        *)
ChangePin(p) == pins' = [pins EXCEPT ![p] = ~@]
=============================================================================
