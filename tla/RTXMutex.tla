------------------------------- MODULE RTXMutex -------------------------------
(***************************************************************************)
(* The kernel's mutexes (rt_Mutex.c) over its task lists (rt_List.c,       *)
(* rt_Task.c), which the firmware's threads share.  The ready list and the *)
(* list of those that wait for a mutex are ordered by priority; the holder *)
(* of a mutex inherits the priority of a task that starts to wait for it.  *)
(* SysTick ends timed waits in between any two calls.                      *)
(***************************************************************************)
EXTENDS Naturals, SequencesExt

CONSTANTS
  Tasks, Idle,     \* the threads; os_idle_demon is always ready or running
  prio_base,       \* priority each task was created with
  Mutexes,
  MaxLevel         \* bound on the level of a mutex

ASSUME TasksAssumption ==
  IsFiniteSet(Tasks) /\ prio_base \in [Tasks -> 0 .. 255]   \* a U8
ASSUME IdleAssumption ==
  Idle \in Tasks /\ \A t \in Tasks \ {Idle} : prio_base[t] > prio_base[Idle]
ASSUME MaxLevelAssumption == MaxLevel \in Nat \ {0}

VARIABLES
  run,       \* os_tsk.run
  os_rdy,    \* the ready list
  os_dly,    \* the tasks that sleep or wait with a time-out
  prio,      \* current priority of each task
  wait,      \* the list of tasks that wait for each mutex (p_lnk)
  level,     \* level of each mutex
  held,      \* the mutexes on each task's owner list (p_mlnk)
  depth      \* osOK answers each task has had from osMutexWait less its releases

lists == <<run, os_rdy, os_dly, wait>>
vars  == <<lists, prio, level, held, depth>>

Init ==
  /\ \E s \in SetToSeqs(Tasks) :
       /\ \A i, j \in DOMAIN s : i < j => prio_base[s[i]] >= prio_base[s[j]]
       /\ run = Head(s) /\ os_rdy = Tail(s)
  /\ os_dly = {} /\ wait = [m \in Mutexes |-> << >>]
  /\ prio = prio_base
  /\ level = [m \in Mutexes |-> 0] /\ held = [t \in Tasks |-> {}]
  /\ depth = [t \in Tasks |-> [m \in Mutexes |-> 0]]

Owner(m) == CHOOSE t \in Tasks : m \in held[t]
-------------------------------------------------------------------------------
(* Lists under the priorities p.                                           *)

rt_put_prio_BeforeEquals(lst, t, p) ==
  LET i == SelectInSeq(lst, LAMBDA u : p[u] <= p[t])
  IN  IF i = 0 THEN Append(lst, t) ELSE InsertAt(lst, i, t)

rt_put_prio(lst, t, p) ==
  LET i == SelectInSeq(lst, LAMBDA u : p[u] < p[t])
  IN  IF i = 0 THEN Append(lst, t) ELSE InsertAt(lst, i, t)

rt_resort_prio_Skips(lst, t, p) == lst

rt_resort_prio(lst, t, p) ==
  IF Contains(lst, t) THEN rt_put_prio(RemoveFirst(lst, t), t, p) ELSE lst

(* rt_dispatch(NULL): the highest ready task runs.                         *)
SwitchTo(ready) == run' = Head(ready) /\ os_rdy' = Tail(ready)

(* The running task, of priority p[run], makes way for a higher one.       *)
Yield(p) ==
  IF p[Head(os_rdy)] > p[run] THEN SwitchTo(rt_put_prio(os_rdy, run, p))
  ELSE UNCHANGED <<run, os_rdy>>

HandOver_ToEqual(w, p) ==
  IF p[run] < p[Head(os_rdy)]
  THEN SwitchTo(rt_put_prio(rt_put_prio(os_rdy, run, p), w, p))
  ELSE IF p[w] >= p[run] THEN SwitchTo(<<w, run>> \o os_rdy)
  ELSE os_rdy' = rt_put_prio(os_rdy, w, p) /\ UNCHANGED run

(* Which of the running task and the one that became the owner goes on.    *)
HandOver(w, p) ==
  IF p[run] < p[Head(os_rdy)]
  THEN SwitchTo(rt_put_prio(rt_put_prio(os_rdy, run, p), w, p))
  ELSE IF p[w] > p[run] THEN SwitchTo(<<w, run>> \o os_rdy)
  ELSE os_rdy' = rt_put_prio(os_rdy, w, p) /\ UNCHANGED run
-------------------------------------------------------------------------------
Raised_Not(o) == prio

Raised(o) == [prio EXCEPT ![o] = IF @ < prio[run] THEN prio[run] ELSE @]

(* A task keeps the priority of the first waiter of what it still holds.   *)
Restored_Raised(t, left) == prio[t]

Restored(t, left) ==
  LET firsts == {prio[Head(wait[m])] : m \in {n \in left : wait[n] # << >>}}
  IN  CHOOSE p \in firsts \cup {prio_base[t]} : \A q \in firsts \cup {prio_base[t]} : p >= q

(* rt_mut_wait: the mutex is free, the caller has it already, or it waits. *)
TakeFree(m) ==
  /\ level[m] = 0
  /\ held' = [held EXCEPT ![run] = @ \cup {m}]
  /\ level' = [level EXCEPT ![m] = 1]
  /\ depth' = [depth EXCEPT ![run][m] = @ + 1]
  /\ UNCHANGED <<lists, prio>>

TakeAgain(m) ==
  /\ m \in held[run] /\ level[m] < MaxLevel
  /\ level' = [level EXCEPT ![m] = @ + 1]
  /\ depth' = [depth EXCEPT ![run][m] = @ + 1]
  /\ UNCHANGED <<lists, prio, held>>

WaitFor(m, timed) ==
  /\ level[m] > 0 /\ m \notin held[run]
  /\ LET o       == Owner(m)
         p       == Raised(o)
         lst(l)  == IF p = prio THEN l ELSE rt_resort_prio(l, o, p)
     IN  /\ prio' = p
         /\ wait' = [n \in Mutexes |-> IF n = m THEN rt_put_prio(wait[n], run, p)
                                       ELSE lst(wait[n])]
         /\ SwitchTo(lst(os_rdy))
  /\ os_dly' = IF timed THEN os_dly \cup {run} ELSE os_dly
  /\ UNCHANGED <<level, held, depth>>

rt_mut_wait(m, timed) == TakeFree(m) \/ TakeAgain(m) \/ WaitFor(m, timed)

(* rt_mut_release: not the last release, one that nobody waits for, or one *)
(* that hands the mutex to the first that waits.                           *)
ReleaseLevel(m) ==
  /\ level[m] > 1
  /\ level' = [level EXCEPT ![m] = @ - 1]
  /\ depth' = [depth EXCEPT ![run][m] = @ - 1]
  /\ UNCHANGED <<lists, prio, held>>

ReleaseFree(m) ==
  /\ level[m] = 1 /\ wait[m] = << >>
  /\ prio' = [prio EXCEPT ![run] = Restored(run, held[run] \ {m})]
  /\ level' = [level EXCEPT ![m] = 0]
  /\ held' = [held EXCEPT ![run] = @ \ {m}]
  /\ depth' = [depth EXCEPT ![run][m] = @ - 1]
  /\ Yield(prio')
  /\ UNCHANGED <<os_dly, wait>>

ReleaseTo(m, w) ==
  /\ level[m] = 1 /\ wait[m] # << >> /\ w = Head(wait[m])
  /\ prio' = [prio EXCEPT ![run] = Restored(run, held[run] \ {m})]
  /\ wait' = [wait EXCEPT ![m] = Tail(@)]
  /\ os_dly' = os_dly \ {w}
  /\ held' = [held EXCEPT ![run] = @ \ {m}, ![w] = @ \cup {m}]
  /\ depth' = [depth EXCEPT ![run][m] = @ - 1, ![w][m] = @ + 1]
  /\ HandOver(w, prio')
  /\ UNCHANGED level

rt_mut_release(m) ==
  /\ m \in held[run]
  /\ ReleaseLevel(m) \/ ReleaseFree(m) \/ \E w \in Tasks : ReleaseTo(m, w)

(* osDelay, or a wait for anything else.                                   *)
rt_dly_wait ==
  /\ os_dly' = os_dly \cup {run}
  /\ SwitchTo(os_rdy)
  /\ UNCHANGED <<wait, prio, level, held, depth>>

(* Within rt_systick the running task is first in the ready list.  A tick  *)
(* that passes the turn and ends several waits leads where several ticks   *)
(* lead that do one of these each, without a call in between; so each is   *)
(* a tick of its own here.                                                 *)
rt_chk_robin ==
  /\ SwitchTo(rt_put_prio(os_rdy, run, prio))
  /\ UNCHANGED <<os_dly, wait, prio, level, held, depth>>

Without_Keeps(lst, t) == lst

(* Taken out of the list of the mutex it waits for, if any.                *)
Without(lst, t) == RemoveFirst(lst, t)

rt_dec_dly(t) ==
  /\ t \in os_dly /\ os_dly' = os_dly \ {t}
  /\ SwitchTo(rt_put_prio(<<run>> \o os_rdy, t, prio))
  /\ wait' = [m \in Mutexes |-> Without(wait[m], t)]
  /\ UNCHANGED <<prio, level, held, depth>>

rt_systick == rt_chk_robin \/ \E t \in Tasks : rt_dec_dly(t)

Next ==
  \/ /\ run # Idle
     /\ \/ \E m \in Mutexes : rt_mut_release(m) \/ \E timed \in BOOLEAN : rt_mut_wait(m, timed)
        \/ rt_dly_wait
  \/ rt_systick

Spec == Init /\ [][Next]_vars
-------------------------------------------------------------------------------
(* Properties.                                                             *)

Waiting(t) == {m \in Mutexes : Contains(wait[m], t)}

IsOrdered(lst) ==
  /\ IsInjective(lst)
  /\ \A i, j \in DOMAIN lst : i < j => prio[lst[i]] >= prio[lst[j]]

(* Every task is in the one place its state says, lists are ordered by the *)
(* priorities of the moment, and a mutex has an owner while it has a level *)
TypeOK ==
  /\ run \in Tasks /\ os_rdy \in Seq(Tasks) /\ os_dly \subseteq Tasks
  /\ wait \in [Mutexes -> Seq(Tasks)]
  /\ prio \in [Tasks -> {prio_base[t] : t \in Tasks}]
  /\ level \in [Mutexes -> 0 .. MaxLevel] /\ held \in [Tasks -> SUBSET Mutexes]
  /\ IsOrdered(<<run>> \o os_rdy) /\ \A m \in Mutexes : IsOrdered(wait[m])
  /\ \A t \in Tasks : IF t \in {run} \cup ToSet(os_rdy) THEN t \notin os_dly /\ Waiting(t) = {}
                      ELSE t \in os_dly \/ Waiting(t) # {}
  /\ \A t \in Tasks : \A m, n \in Waiting(t) : m = n
  /\ \A m \in Mutexes : level[m] = 0 <=> \A t \in Tasks : m \notin held[t]
  /\ \A t, u \in Tasks : t # u => held[t] \cap held[u] = {}

(* A holder that can run is not kept waiting by a task less urgent than    *)
(* one that waits for it: rt_mut_wait raises and re-sorts it, and releases *)
(* of other mutexes, time-outs and the round robin must not undo that.     *)
NoInversion ==
  \A m \in Mutexes : \A w \in ToSet(wait[m]) :
    Owner(m) \in {run} \cup ToSet(os_rdy) => prio[run] >= prio_base[w]

(* A ready task is not put off: while it waits for the processor only a    *)
(* task of a higher priority gets ahead of it, whether that is woken, is   *)
(* handed a mutex, inherits a priority or is preempted.                    *)
Ahead(t, lst) == {u \in ToSet(lst) : \E i, j \in DOMAIN lst : i < j /\ lst[i] = u /\ lst[j] = t}

ReadyInTurn ==
  [][\A t \in ToSet(os_rdy) :
       \A u \in Ahead(t, <<run'>> \o os_rdy') \ Ahead(t, <<run>> \o os_rdy) :
         prio'[u] > prio'[t]]_vars

(* An inherited priority is not kept, even if the wait it came from ended  *)
(* with a time-out or mutexes are released in another order than taken.    *)
PriorityReturned == \A t \in Tasks : held[t] = {} => prio[t] = prio_base[t]

(* Only a task of a higher priority gets ahead of one that waits already:  *)
(* senders of the same priority are served in the order of their calls,    *)
(* also when inheritance or a time-out re-sorts the list around them.      *)
NoOvertaking ==
  [][\A m \in Mutexes : \A t \in ToSet(wait[m]) :
       \A u \in Ahead(t, wait'[m]) \ Ahead(t, wait[m]) : prio'[u] > prio'[t]]_vars

(* What callers are told is a lock with at most one holder, and a waiter   *)
(* that is told osOK has it, however time-outs and releases interleave.    *)
Service == INSTANCE MutexService WITH waiting <- [t \in Tasks |-> Waiting(t)]

ImplementsMutexService == Service!MutexSpec
===============================================================================
