--------------------------- MODULE PrechargeTiming ---------------------------
(***************************************************************************)
(* StateController with the time of precharge_timer in SysTick ticks, and  *)
(* with the thread priorities the minimum precharge time depends on.       *)
(*                                                                         *)
(* An expiry of precharge_timer that is queued cannot be taken back: stop  *)
(* and start leave osTimerMessageQ as it is, and the callback looks at     *)
(* current_state only.  If a second precharge began before the callback of *)
(* the first ran, it would end at once.                                    *)
(***************************************************************************)
EXTENDS StateController

CONSTANT MinimumTicks   \* PRECHARGE_MINIMUM_TIME_MILLISEC: 5000

ASSUME MinimumTicksAssumption == MinimumTicks \in Nat \ {0}

VARIABLES
  left,   \* ticks until precharge_timer expires
  age     \* (history) ticks since the precharge coil was driven, at most MinimumTicks

timedVars == <<vars, left, age>>

CANThreadPriority_Realtime == TRUE

(* A queued expiry makes the timer thread (osPriorityHigh) ready, and the  *)
(* CAN thread (osPriorityAboveNormal) and main() (osPriorityNormal) wait   *)
(* for it: no new command is taken.  Only SysTick, the realtime            *)
(* StateController thread, and a CAN thread that had the state lock        *)
(* already and inherits that thread's priority, go on.                     *)
CANThreadPriority == timerQ # << >> => UNCHANGED <<enable, boot>>

PrechargeStarts == ctl.state # scsStartedPrecharge /\ ctl'.state = scsStartedPrecharge

(* A step of a thread: no tick passes; precharge_timer.start sets the time.*)
ThreadStep ==
  /\ \/ Boot \/ NotifyDriver \/ StateControllerThread \/ TimerThread \/ Environment
     \/ \E v \in BOOLEAN : PushTractiveEnable(v)
     \/ \E t \in Contactors : TimerExpires(t)
  /\ CANThreadPriority
  /\ left' = IF PrechargeStarts THEN MinimumTicks ELSE left
  /\ age' = IF "precharge" \in ctl'.coils \ ctl.coils THEN 0 ELSE age

(* SysTick: precharge_timer counts, and expires when its count is over.    *)
Tick ==
  /\ age' = IF age < MinimumTicks THEN age + 1 ELSE age
  /\ IF "minimum" \in ctl.running THEN left' = left - 1 ELSE UNCHANGED left
  /\ IF "minimum" \in ctl.running /\ left = 1 THEN TimerExpires("minimum") ELSE UNCHANGED vars

InitTimed == Init /\ left = 0 /\ age = 0

SpecTimed == InitTimed /\ [][ThreadStep \/ Tick]_timedVars

(* Precharge lasts PRECHARGE_MINIMUM_TIME_MILLISEC before the run          *)
(* contactor closes, whatever stops and restarts precharge in between      *)
(* (StateController.cpp:107).                                              *)
RunAfterMinimumTime ==
  [][ "run" \in ctl'.coils \ ctl.coils => age = MinimumTicks ]_timedVars

(* A fault, and a precharge input.                                         *)
FaultAndInput == {"bmsOk", "precharge_99"}
==============================================================================
