---------------------------- MODULE TimerService ----------------------------
(***************************************************************************)
(* What the kernel's timers promise a caller of RtosTimer: a started timer *)
(* expires once after its number of ticks (a periodic one again and again) *)
(* unless it is stopped or started again before; its callback is called    *)
(* once for every expiry, in the order of the expiries, and is not taken   *)
(* back by a later stop.  Only if more than QueueSize expiries wait for    *)
(* the timer thread may the kernel give up.                                *)
(***************************************************************************)
EXTENDS Naturals, SequencesExt

CONSTANTS
  Timers, Periodic,   \* the timers, and those of type osTimerPeriodic
  MaxTicks,           \* bound: the longest time a timer is started with
  QueueSize           \* OS_TIMERCBQS: 4

VARIABLES
  exists,   \* the timers that have been created
  due,      \* ticks until a timer expires, 0 if it is stopped
  period,   \* ticks between the expiries of a periodic timer
  queue,    \* expired timers, in order, whose callback is still to be called
  halted    \* os_error has stopped the system

serviceVars == <<exists, due, period, queue, halted>>

ServiceInit ==
  /\ exists = {}
  /\ due = [t \in Timers |-> 0] /\ period = [t \in Timers |-> 0]
  /\ queue = << >> /\ halted = FALSE

Create(t) ==
  /\ t \notin exists /\ exists' = exists \cup {t}
  /\ UNCHANGED <<due, period, queue, halted>>

(* Started while it runs, a timer keeps the period it was started with.    *)
Start(t, n) ==
  /\ t \in exists
  /\ due' = [due EXCEPT ![t] = n]
  /\ period' = [period EXCEPT ![t] = IF due[t] = 0 THEN n ELSE @]
  /\ UNCHANGED <<exists, queue, halted>>

Stop(t) ==
  /\ t \in exists /\ due' = [due EXCEPT ![t] = 0]
  /\ UNCHANGED <<exists, period, queue, halted>>

Delete(t) ==
  /\ exists' = exists \ {t} /\ due' = [due EXCEPT ![t] = 0]
  /\ UNCHANGED <<period, queue, halted>>

Expiring == {t \in Timers : due[t] = 1}

Tick ==
  /\ due' = [t \in Timers |-> IF t \in Expiring THEN IF t \in Periodic THEN period[t] ELSE 0
                              ELSE IF due[t] > 1 THEN due[t] - 1 ELSE 0]
  /\ \E o \in SetToSeqs(Expiring) : queue' = queue \o o
  /\ UNCHANGED <<exists, period, halted>>

Call ==
  /\ queue # << >> /\ queue' = Tail(queue)
  /\ UNCHANGED <<exists, due, period, halted>>

GiveUp ==
  /\ Len(queue) + Cardinality(Expiring) > QueueSize
  /\ halted' = TRUE
  /\ UNCHANGED <<exists, due, period, queue>>

ServiceNext ==
  /\ ~halted
  /\ \/ \E t \in Timers : Create(t) \/ Stop(t) \/ Delete(t) \/ \E n \in 1 .. MaxTicks : Start(t, n)
     \/ Tick \/ Call \/ GiveUp

ServiceSpec == ServiceInit /\ [][ServiceNext]_serviceVars

CallsGoOn == WF_serviceVars(~halted /\ Call)
=============================================================================
