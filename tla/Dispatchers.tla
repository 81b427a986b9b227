----------------------------- MODULE Dispatchers -----------------------------
(***************************************************************************)
(* The three cyclic tasks that report over CAN: StatusDispatcher,          *)
(* ContactorInfoDispatcher and HeartbeatDispatcher, with the message       *)
(* services they fill and a listener on the bus.                           *)
(*                                                                         *)
(* A task reads what it reports field by field, without a lock, while      *)
(* every other thread goes on changing it; the frame may find no buffer,   *)
(* and buffers may be sent in any order (see TransmitBuffers, implemented  *)
(* by CANTransmit).                                                        *)
(***************************************************************************)
EXTENDS TractiveStates, TransmitBuffers, Integers, Sequences

CONSTANTS
  Created,       \* the sets of tasks a behaviour may run
  Changing,      \* the reported fields that change
  States,        \* the values current_state takes besides scsInitialising
  CounterSize,   \* the values of heartbeat_counter, a uint16_t: 2^16
  BeatCycle      \* bound: the number beats wraps at, a multiple of CounterSize

ASSUME CounterAssumption ==
  /\ CounterSize \in Nat \ {0} /\ BeatCycle \in Nat \ {0}
  /\ BeatCycle % CounterSize = 0

VARIABLES
  tasks,              \* the tasks that run; it stays as it is
  world,              \* the value of every reported field
  read,               \* what each task has read since its cycle began
  changed,            \* (history) the fields changed since the cycle began
  heartbeat_counter,
  beats,              \* (history) heartbeats produced, modulo BeatCycle
  heard               \* the last frame of each kind the listener has received

taskVars == <<tasks, read, changed, heartbeat_counter, beats>>
vars     == <<world, taskVars, tx, heard>>

(* The status functions, applied to the levels a cycle has read.           *)
Seen(levels) == INSTANCE SafetyInputs WITH pins <- levels, ChangingPins <- {}

Pins == Seen(<< >>)!Pins

(* The arguments of ContactorInfoMessageService::send.                     *)
Info == {"neg_driven", "neg_feedback", "neg_hwerr", "pos_driven", "pos_feedback", "pos_hwerr"}

(* StatusDispatcher::generate_status_mask reads the inputs in this order,  *)
(* procedure() then the state.                                             *)
StatusReads == <<"imd_signal", "battery_undervoltage", "battery_overvoltage",
                 "service_disconnects", "precharge_oor", "precharge_99",
                 "contactor_power", "bmsOk", "state">>

Reported(t) == CASE t = "status" -> Pins \cup {"state"} [] t = "contactors" -> Info
                 [] t = "heartbeat" -> {}

Tasks == {"status", "contactors", "heartbeat"}

ASSUME CreatedAssumption == Created \subseteq SUBSET Tasks
------------------------------------------------------------------------------
(* The status mask, as the set of its bit numbers.                         *)

STATUS_ERROR_INSULATION_FAULT    == 0
STATUS_ERROR_AMS                 == 1
STATUS_ERROR_STACK_UNDERVOLTAGE  == 2
STATUS_ERROR_STACK_OVERVOLTAGE   == 3
STATUS_ERROR_SERVICE_DISCONNECTS_SharesBit == 3
STATUS_ERROR_SERVICE_DISCONNECTS == 4
STATUS_INFO_PRECHARGE_OUTOFRANGE == 12
STATUS_INFO_PRECHARGE_99         == 13
STATUS_INFO_AIR_POWER_AVAILABLE  == 14

(* Cell over- and undervoltage, over- and undertemperature, open circuit.  *)
STATUS_BMS_CELL == 7 .. 11

RawMask(s) ==
  {b \in {STATUS_ERROR_INSULATION_FAULT}    : ~Seen(s)!imd_status}
  \cup {b \in {STATUS_ERROR_STACK_UNDERVOLTAGE}  : ~Seen(s)!undervoltage_status}
  \cup {b \in {STATUS_ERROR_STACK_OVERVOLTAGE}   : ~Seen(s)!overvoltage_status}
  \cup {b \in {STATUS_ERROR_SERVICE_DISCONNECTS} : ~Seen(s)!disconnects_status}
  \cup {b \in {STATUS_INFO_PRECHARGE_OUTOFRANGE} : Seen(s)!precharge_oor_status}
  \cup {b \in {STATUS_INFO_PRECHARGE_99}         : Seen(s)!precharge_99_status}
  \cup {b \in {STATUS_INFO_AIR_POWER_AVAILABLE}  : Seen(s)!contactor_power_status}
  \cup {b \in STATUS_BMS_CELL                    : ~Seen(s)!bms_status}

(* What lights the AMS error: bits 2 to 5 and the cells'.                  *)
AmsErrors == 2 .. 5 \cup STATUS_BMS_CELL

generate_status_mask(s) ==
  RawMask(s) \cup {b \in {STATUS_ERROR_AMS} : RawMask(s) \cap AmsErrors # {}}
------------------------------------------------------------------------------
Nothing == << >>      \* the function with no fields

(* The fields a task has still to read and may read next: a C++ compiler   *)
(* chooses the order in which it evaluates the arguments of a call.        *)
ToRead(t) ==
  CASE t = "status" ->
         {StatusReads[i] : i \in {j \in 1 .. Len(StatusReads) :
            {StatusReads[k] : k \in 1 .. j - 1} = DOMAIN read[t]}}
    [] t = "contactors" -> Info \ DOMAIN read[t]
    [] t = "heartbeat"  -> {}

Sample(t) ==
  /\ \E f \in ToRead(t) :
       read' = [read EXCEPT ![t] = [g \in DOMAIN @ \cup {f} |-> IF g = f THEN world[f] ELSE @[g]]]
  /\ UNCHANGED <<world, tasks, changed, heartbeat_counter, beats, tx, heard>>

Frame_SwapsArguments(t) ==
  CASE t = "status" -> [id |-> t, status_mask |-> generate_status_mask(read[t]),
                        current_state |-> read[t]["state"]]
    [] t = "contactors" ->
         [id |-> t, info |-> [read[t] EXCEPT !["neg_driven"] = read[t]["pos_driven"],
                                             !["pos_driven"] = read[t]["neg_driven"]]]
    [] t = "heartbeat"  -> [id |-> t, counter |-> heartbeat_counter, beat |-> beats]

Frame(t) ==
  CASE t = "status" -> [id |-> t, status_mask |-> generate_status_mask(read[t]),
                        current_state |-> read[t]["state"]]
    [] t = "contactors" -> [id |-> t, info |-> read[t]]
    [] t = "heartbeat"  -> [id |-> t, counter |-> heartbeat_counter, beat |-> beats]

(* HeartbeatDispatcher: "heartbeat_counter++", whatever became of the frame. *)
CountBeat_IfAccepted(t) ==
  LET n == IF t = "heartbeat" /\ tx' # tx THEN 1 ELSE 0
  IN  /\ heartbeat_counter' = (heartbeat_counter + n) % CounterSize
      /\ beats' = (beats + (IF t = "heartbeat" THEN 1 ELSE 0)) % BeatCycle

CountBeat(t) ==
  LET n == IF t = "heartbeat" THEN 1 ELSE 0
  IN  /\ heartbeat_counter' = (heartbeat_counter + n) % CounterSize
      /\ beats' = (beats + n) % BeatCycle

Finish_ReadsOnce(t, write) ==
  /\ ToRead(t) = {}
  /\ write
  /\ CountBeat(t)
  /\ changed' = [changed EXCEPT ![t] = {}]
  /\ UNCHANGED <<world, tasks, read, heard>>

(* The end of procedure(): send, and sleep until the next cycle.           *)
Finish(t, write) ==
  /\ ToRead(t) = {}
  /\ write
  /\ CountBeat(t)
  /\ read' = [read EXCEPT ![t] = Nothing]
  /\ changed' = [changed EXCEPT ![t] = {}]
  /\ UNCHANGED <<world, tasks, heard>>

Send(t)   == Finish(t, Accept(Frame(t)))
Unsent(t) == Finish(t, Refuse)

(* A frame goes over the bus to the listener.                              *)
Deliver(b) ==
  /\ Transmit(b)
  /\ heard' = [heard EXCEPT ![tx[b].id] = tx[b]]
  /\ UNCHANGED <<world, taskVars>>

(* The threads and the hardware change what is reported.                   *)
WorldChanges ==
  /\ \E f \in Changing \cap UNION {Reported(t) : t \in tasks} :
       /\ \E v \in IF f = "state" THEN States \cup {scsInitialising} ELSE BOOLEAN :
            v # world[f] /\ world' = [world EXCEPT ![f] = v]
       /\ changed' = [t \in Tasks |-> IF read[t] = Nothing THEN {} ELSE changed[t] \cup {f}]
  /\ UNCHANGED <<tasks, read, heartbeat_counter, beats, tx, heard>>

Init ==
  /\ tasks \in Created
  /\ world = [f \in Pins \cup Info \cup {"state"} |->
                IF f = "state" THEN scsInitialising ELSE FALSE]
  /\ read = [t \in Tasks |-> Nothing]
  /\ changed = [t \in Tasks |-> {}]
  /\ heartbeat_counter = 0 /\ beats = 0
  /\ TxInit
  /\ heard = [t \in Tasks |-> NULL]

Next ==
  \/ \E t \in tasks : Sample(t) \/ Send(t) \/ Unsent(t)
  \/ \E b \in TxBuffers : Deliver(b)
  \/ WorldChanges

(* The tasks run in turn; the bus takes 0.3 ms for a frame that is due     *)
(* every 75 ms or more, so each buffer is sent and a task finds one empty  *)
(* again and again.                                                        *)
Spec ==
  /\ Init /\ [][Next]_vars
  /\ \A t \in Tasks : /\ WF_vars(t \in tasks /\ Sample(t))
                      /\ WF_vars(t \in tasks /\ Unsent(t))
                      /\ SF_vars(t \in tasks /\ Send(t))
  /\ \A b \in TxBuffers : WF_vars(Deliver(b))
------------------------------------------------------------------------------
(* Properties.                                                             *)

(* What a frame says about a field, stated without the code's operators:   *)
(* for an input, the level that explains its bit.                          *)
Bit == [imd_signal |-> 0, battery_undervoltage |-> 2, battery_overvoltage |-> 3,
        service_disconnects |-> 4, precharge_oor |-> 12, precharge_99 |-> 13,
        contactor_power |-> 14, bmsOk |-> 7]

BitWhenHigh == {"imd_signal", "service_disconnects", "precharge_oor", "precharge_99"}

Says(frame, f) ==
  CASE f = "state"  -> frame.current_state
    [] f \in Info   -> frame.info[f]
    [] f \in Pins   -> (Bit[f] \in frame.status_mask) = (f \in BitWhenHigh)

(* A frame that is about to be written is wrong only about what has        *)
(* changed while it was being read: no field is left over from an earlier  *)
(* cycle, whatever changes between two reads (StatusDispatcher.cpp:77,     *)
(* ContactorInfoDispatcher.cpp:19).                                        *)
WrongOnlyAboutChanges ==
  \A t \in tasks : read[t] # Nothing /\ ToRead(t) = {} =>
    \A f \in Reported(t) : Says(Frame(t), f) # world[f] => f \in changed[t]

(* For all 256 combinations of the inputs the mask tells each from its own *)
(* bit, and "AMS error light is a union of many error kinds"               *)
(* (StatusDispatcher.cpp:68): it is off when stack, service disconnects    *)
(* and cells are all good and on when one of them is not.  (Stated for a   *)
(* cycle before the first frame; the mask depends on nothing but levels.)  *)
MaskExplainsInputs ==
  "status" \in tasks /\ read["status"] = Nothing /\ heard["status"] = NULL =>
  \A levels \in [Pins -> BOOLEAN] :
    LET frame == [status_mask |-> generate_status_mask(levels)]
        good  == {"battery_undervoltage", "battery_overvoltage", "bmsOk"}
    IN  /\ \A f \in Pins : Says(frame, f) = levels[f]
        /\ STATUS_ERROR_AMS \in frame.status_mask
             <=> (\E f \in good : ~levels[f]) \/ levels["service_disconnects"]

(* Two heartbeats heard one after the other, in the order they were sent,  *)
(* tell how many are missing between them, across the wrap of the counter  *)
(* and although a refused frame leaves no trace, while fewer than          *)
(* CounterSize are.                                                        *)
GapCountsLost ==
  [][ LET old == heard["heartbeat"]   new == heard'["heartbeat"]
          n   == (new.beat - old.beat) % BeatCycle
      IN  old # NULL /\ new # old /\ n < CounterSize =>
            (new.counter - old.counter) % CounterSize = n ]_vars

(* What stays as it is gets known: once the reported fields no longer      *)
(* change, the listener's last frame is right about each for good,         *)
(* although frames are refused, are delayed in their buffers and overtake  *)
(* each other.                                                             *)
Knows(t, f) == heard[t] # NULL /\ Says(heard[t], f) = world[f]

LastingValueReported ==
  (<>[][UNCHANGED world]_vars)
    => <>[](\A t \in tasks : \A f \in Reported(t) : Knows(t, f))
=============================================================================
