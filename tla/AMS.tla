--------------------------------- MODULE AMS ---------------------------------
(***************************************************************************)
(* The firmware from the mailbox to the outputs: the CAN thread that acts  *)
(* on commands (CommandChannel, which CANTransceiver implements), the      *)
(* state machine it calls (StateController), and BMSController with its    *)
(* two outputs, which main() creates between the state machine's thread    *)
(* and the contactor controller.                                           *)
(***************************************************************************)
EXTENDS StateController

CONSTANTS
  Frames, Capacity,   \* see CommandChannel
  NoCommand,
  ExpiringTimers      \* bound: the timers that expire

ASSUME FramesAssumption ==
  Frames \subseteq [command : BOOLEAN, en_tr : BOOLEAN, dis_cnv : BOOLEAN]

(* The callback of a contactor's own timer only sets fireonce, which       *)
(* nothing here reads; precharge_timer's is part of the state machine.     *)
ASSUME ExpiringTimersAssumption ==
  ExpiringTimers \subseteq Timers /\ "minimum" \in ExpiringTimers

VARIABLES
  queue, half,   \* accepted frames, and how far the first is acted on (CommandChannel)
  conversions,   \* BMSController::performConversions
  amsOk,         \* BMSController::amsOk
  bms_started,   \* BMSController::initialise has run
  latest         \* (history) the last command accepted since then, or NoCommand

allVars == <<vars, queue, half, conversions, amsOk, bms_started, latest>>

Channel == INSTANCE CommandChannel WITH tractive <- enable

(* AMS-OK is constructed with PullDown (3) as its initial value, so it is  *)
(* driven high until initialise; performConversions starts low.            *)
InitAMS ==
  /\ Init
  /\ Channel!ChanInit
  /\ amsOk = TRUE /\ bms_started = FALSE
  /\ latest = NoCommand
------------------------------------------------------------------------------
AcceptFrame(f) ==
  /\ Channel!Accept(f)
  /\ latest' = IF bms_started /\ f.command THEN f ELSE latest
  /\ UNCHANGED <<vars, amsOk, bms_started>>

IgnoreFrame ==
  /\ Alive /\ Channel!Ignore
  /\ UNCHANGED <<vars, amsOk, bms_started, latest>>

DispatchEnable_MissesEdge ==
  /\ Alive /\ Channel!PassEnable
  /\ UNCHANGED <<ctl, driver, timerQ, boot, pins, amsOk, bms_started, latest>>

(* dispatch_message calls push_tractive_enable, which notifies the state   *)
(* machine (NotifyDriver) only of a change ...                             *)
DispatchEnable ==
  /\ Alive /\ Channel!PassEnable
  /\ IF Head(queue).en_tr # enable THEN PushTractiveEnable(Head(queue).en_tr)
     ELSE UNCHANGED vars
  /\ UNCHANGED <<amsOk, bms_started, latest>>

(* ... and has returned when it calls set_conversions_enable.              *)
DispatchConversions ==
  /\ Alive /\ driver = "idle" /\ Channel!PassConversions
  /\ UNCHANGED <<vars, amsOk, bms_started, latest>>

CANThread ==
  \/ IgnoreFrame \/ DispatchEnable \/ DispatchConversions
  \/ NotifyDriver /\ UNCHANGED <<queue, half, conversions, amsOk, bms_started, latest>>

(* BMSController::initialise.                                              *)
InitialiseBMS ==
  /\ Alive /\ boot = 2 /\ ~bms_started
  /\ amsOk' = FALSE /\ Channel!StartConversions
  /\ bms_started' = TRUE
  /\ UNCHANGED <<vars, latest>>

BMSProcedure_Sticky ==
  /\ Alive /\ bms_started
  /\ amsOk' = (amsOk \/ bms_status)
  /\ UNCHANGED <<vars, queue, half, conversions, bms_started, latest>>

(* Its realtime thread, every 100 ms.                                      *)
BMSProcedure ==
  /\ Alive /\ bms_started
  /\ amsOk' = bms_status
  /\ UNCHANGED <<vars, queue, half, conversions, bms_started, latest>>

BootAMS_AnyOrder ==
  \/ InitialiseBMS
  \/ Boot /\ UNCHANGED <<queue, half, conversions, amsOk, bms_started, latest>>

(* main() creates BMSController before the ContactorController.            *)
BootAMS ==
  \/ InitialiseBMS
  \/ /\ boot = 2 => bms_started
     /\ Boot
     /\ UNCHANGED <<queue, half, conversions, amsOk, bms_started, latest>>

StateMachine ==
  /\ StateControllerThread \/ TimerThread \/ \E t \in ExpiringTimers : TimerExpires(t)
  /\ UNCHANGED <<queue, half, conversions, amsOk, bms_started, latest>>

NextAMS ==
  \/ \E f \in Frames : AcceptFrame(f)
  \/ CANThread \/ BMSProcedure \/ BootAMS \/ StateMachine
  \/ Environment /\ UNCHANGED <<queue, half, conversions, amsOk, bms_started, latest>>

SpecAMS == InitAMS /\ [][NextAMS]_allVars

(* The fairness of StateController; and the CAN thread and the BMS thread  *)
(* run when they have something to do.                                     *)
FairAMS ==
  /\ SpecAMS
  /\ WF_allVars(BootAMS) /\ WF_allVars(CANThread) /\ WF_allVars(BMSProcedure)
  /\ WF_vars(StateControllerThread)
  /\ WF_vars(TimerExpires("minimum"))
  /\ WF_vars(TimerThread)
------------------------------------------------------------------------------
(* Properties.                                                             *)

(* AMS-OK is high from static initialisation, whatever the BMS says, until *)
(* BMSController::initialise.  No contactor coil is driven in that time,   *)
(* although the CAN thread and the state machine may be running: the power *)
(* path is not closed behind an AMS-OK that reports nothing.               *)
ClosesAfterBMSStart == ctl.coils # {} => bms_started

(* The last command accepted after the boot gets through to both outputs,  *)
(* in whatever state it finds the system, and stays in force: the enable   *)
(* and the conversions it asks for, and if it withdraws power open         *)
(* contactors.  (A command acted on before BMSController's own initialise  *)
(* has its conversions overwritten, BMSController.cpp:17.)                 *)
Obeyed(f) ==
  /\ enable = f.en_tr
  /\ conversions = ~f.dis_cnv
  /\ ~f.en_tr => ctl.coils = {}

LastCommandObeyed ==
  (<>[][UNCHANGED latest]_allVars)
    => <>[](latest = NoCommand \/ Obeyed(latest) \/ ctl.overflow)

(* A lasting BMS fault takes both ways out of the controller: the AMS-OK   *)
(* output drops and the contactors are open, for good.                     *)
BMSFaultShutsDown ==
  (<>[]~bms_status) => <>[]((~amsOk /\ ctl.coils = {}) \/ ctl.overflow)
=============================================================================
