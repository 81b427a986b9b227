------------------------------ MODULE RTXTimers ------------------------------
(***************************************************************************)
(* The kernel's timers (rt_CMSIS.c) with the message queue they expire     *)
(* into (rt_Mailbox.c, rt_List.c, rt_System.c).  Running timers form a     *)
(* list in which each holds the ticks between its predecessor's expiry and *)
(* its own.  SysTick posts an expiry to os_psq; PendSV, before any thread  *)
(* goes on, passes it to the waiting timer thread or stores it in          *)
(* osTimerMessageQ, whose ring buffer is a sequence here.                  *)
(***************************************************************************)
EXTENDS Naturals, SequencesExt

CONSTANTS Timers, Periodic, MaxTicks, QueueSize   \* see TimerService

ASSUME PeriodicAssumption == Periodic \subseteq Timers
ASSUME MaxTicksAssumption == MaxTicks \in Nat
ASSUME QueueSizeAssumption == QueueSize \in Nat \ {0}

VARIABLES
  list,     \* from os_timer_head: running timers, each with its tcnt
  state,    \* os_timer_cb.state of each timer
  icnt,     \* os_timer_cb.icnt of each timer
  os_psq,   \* expiries SysTick has posted
  msg,      \* the messages stored in osTimerMessageQ
  thread,   \* osTimerThread: it runs, or waits for a message (p_lnk)
  handed,   \* the message it was handed while waiting
  failed    \* os_error was called, and does not return

timerVars  == <<list, state, icnt>>
threadVars == <<msg, thread, handed>>
vars       == <<timerVars, os_psq, threadVars, failed>>

Init ==
  /\ list = << >> /\ state = [t \in Timers |-> "osTimerInvalid"]
  /\ icnt = [t \in Timers |-> 0]
  /\ os_psq = << >> /\ msg = << >> /\ handed = << >>
  /\ thread = "runs" /\ failed = FALSE
------------------------------------------------------------------------------
(* When each timer of a list expires; position 0 stands for now.           *)
Expiries(lst) ==
  LET at[i \in 0 .. Len(lst)] == IF i = 0 THEN 0 ELSE at[i - 1] + lst[i].tcnt IN at

(* The first position whose timer expires later than in tcnt ticks.        *)
Later(lst, tcnt) == Min({i \in DOMAIN lst : tcnt < Expiries(lst)[i]} \cup {Len(lst) + 1})

rt_timer_insert_KeepsNext(lst, t, tcnt) ==
  LET p == Later(lst, tcnt)
  IN  InsertAt(lst, p, [timer |-> t, tcnt |-> tcnt - Expiries(lst)[p - 1]])

rt_timer_insert(lst, t, tcnt) ==
  LET p     == Later(lst, tcnt)
      delta == tcnt - Expiries(lst)[p - 1]
      next  == IF p > Len(lst) THEN lst ELSE [lst EXCEPT ![p].tcnt = @ - delta]
  IN  InsertAt(next, p, [timer |-> t, tcnt |-> delta])

rt_timer_remove_KeepsDelta(lst, t) == SelectSeq(lst, LAMBDA e : e.timer # t)

rt_timer_remove(lst, t) ==
  LET i == CHOOSE i \in DOMAIN lst : lst[i].timer = t
  IN  RemoveAt(IF i = Len(lst) THEN lst ELSE [lst EXCEPT ![i + 1].tcnt = @ + lst[i].tcnt], i)

svcTimerCreate(t) ==
  /\ state[t] = "osTimerInvalid"
  /\ state' = [state EXCEPT ![t] = "osTimerStopped"]
  /\ UNCHANGED <<list, icnt>>

svcTimerStart(t, tcnt) ==
  \/ /\ state[t] = "osTimerRunning"
     /\ list' = rt_timer_insert(rt_timer_remove(list, t), t, tcnt)
     /\ UNCHANGED <<state, icnt>>
  \/ /\ state[t] = "osTimerStopped"
     /\ state' = [state EXCEPT ![t] = "osTimerRunning"]
     /\ icnt' = [icnt EXCEPT ![t] = tcnt]
     /\ list' = rt_timer_insert(list, t, tcnt)

svcTimerStop(t) ==
  /\ state[t] = "osTimerRunning"
  /\ state' = [state EXCEPT ![t] = "osTimerStopped"]
  /\ list' = rt_timer_remove(list, t)
  /\ UNCHANGED icnt

(* An expiry that is queued stays so: its callback is still called.        *)
svcTimerDelete(t) ==
  /\ state[t] # "osTimerInvalid"
  /\ state' = [state EXCEPT ![t] = "osTimerInvalid"]
  /\ list' = IF state[t] = "osTimerRunning" THEN rt_timer_remove(list, t) ELSE list
  /\ UNCHANGED icnt

(* A thread's supervisor call; PendSV comes first.                         *)
Call(t) ==
  /\ os_psq = << >>
  /\ \/ svcTimerCreate(t) \/ svcTimerStop(t) \/ svcTimerDelete(t)
     \/ \E n \in 1 .. MaxTicks : svcTimerStart(t, n)
  /\ UNCHANGED <<os_psq, threadVars, failed>>

os_error == failed' = TRUE /\ UNCHANGED <<timerVars, os_psq, threadVars>>

(* The periodic ones of the timers ts go back into the list.               *)
Restarted(lst, ts) ==
  LET after[i \in 0 .. Len(ts)] ==
        IF i = 0 THEN lst
        ELSE IF ts[i] \in Periodic THEN rt_timer_insert(after[i - 1], ts[i], icnt[ts[i]])
        ELSE after[i - 1]
  IN  after[Len(ts)]

(* isrMessagePut looks for space in the queue only: what is in os_psq      *)
(* already is not counted.                                                 *)
sysTimerTick ==
  /\ list # << >> /\ os_psq = << >>
  /\ LET counted == [list EXCEPT ![1].tcnt = @ - 1]
         p       == Later(counted, 0)
         expired == [i \in 1 .. p - 1 |-> counted[i].timer]
     IN  IF p > 1 /\ Len(msg) = QueueSize THEN os_error
         ELSE /\ list' = Restarted(SubSeq(counted, p, Len(counted)), expired)
              /\ state' = [t \in Timers |-> IF t \in Range(expired) \ Periodic
                                            THEN "osTimerStopped" ELSE state[t]]
              /\ os_psq' = expired
              /\ UNCHANGED <<icnt, threadVars, failed>>
------------------------------------------------------------------------------
(* rt_pop_req takes the entries of os_psq one by one.                      *)
Stored ==
  /\ Len(msg) < QueueSize
  /\ msg' = Append(msg, Head(os_psq)) /\ os_psq' = Tail(os_psq)
  /\ UNCHANGED <<timerVars, thread, handed, failed>>

rt_mbx_psh_NeverHands ==
  /\ os_psq # << >>
  /\ Stored \/ (Len(msg) = QueueSize /\ os_error)

rt_mbx_psh ==
  /\ os_psq # << >>
  /\ \/ /\ thread = "waits"
        /\ thread' = "runs" /\ handed' = <<Head(os_psq)>> /\ os_psq' = Tail(os_psq)
        /\ UNCHANGED <<timerVars, msg, failed>>
     \/ thread = "runs" /\ Stored
     \/ thread = "runs" /\ Len(msg) = QueueSize /\ os_error

(* osMessageGet, and with a message its callback.                          *)
rt_mbx_wait ==
  IF msg = << >> THEN thread' = "waits" /\ UNCHANGED <<msg, handed>>
  ELSE msg' = Tail(msg) /\ UNCHANGED <<thread, handed>>

osTimerThread ==
  /\ os_psq = << >> /\ thread = "runs"
  /\ IF handed # << >> THEN handed' = << >> /\ UNCHANGED <<msg, thread>> ELSE rt_mbx_wait
  /\ UNCHANGED <<timerVars, os_psq, failed>>

Next ==
  /\ ~failed
  /\ (\E t \in Timers : Call(t)) \/ sysTimerTick \/ rt_mbx_psh \/ osTimerThread

(* PendSV runs, and so does the timer thread.                              *)
Spec == Init /\ [][Next]_vars /\ WF_vars(~failed /\ rt_mbx_psh) /\ SF_vars(~failed /\ osTimerThread)
------------------------------------------------------------------------------
(* Properties.                                                             *)

TypeOK ==
  /\ list \in Seq([timer : Timers, tcnt : 0 .. MaxTicks])
  /\ state \in [Timers -> {"osTimerInvalid", "osTimerStopped", "osTimerRunning"}]
  /\ icnt \in [Timers -> 0 .. MaxTicks]
  /\ os_psq \in Seq(Timers)
  /\ msg \in Seq(Timers) /\ Len(msg) <= QueueSize
  /\ thread \in {"runs", "waits"} /\ handed \in Seq(Timers) /\ Len(handed) <= 1
  /\ failed \in BOOLEAN

(* Differences in a list that threads insert into and remove from between  *)
(* ticks, expiries on their way through os_psq, the queue or straight to   *)
(* the thread: a caller sees timers that count on their own and a queue.   *)
Due(lst, t) ==
  LET at == {i \in DOMAIN lst : lst[i].timer = t}
  IN  IF at = {} THEN 0 ELSE Expiries(lst)[CHOOSE i \in at : TRUE]

exists == {t \in Timers : state[t] # "osTimerInvalid"}
due    == [t \in Timers |-> Due(list, t)]
queue  == handed \o msg \o os_psq

Service == INSTANCE TimerService WITH period <- icnt, halted <- failed

ImplementsTimerService == Service!ServiceSpec

(* No message stays behind with the thread asleep: as long as callbacks    *)
(* are to be called they are, also if os_psq and the queue filled while    *)
(* the thread was about to wait.                                           *)
CallbacksAreCalled == Service!CallsGoOn
==============================================================================
