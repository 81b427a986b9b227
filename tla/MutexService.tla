----------------------------- MODULE MutexService -----------------------------
(***************************************************************************)
(* What osMutexWait and osMutexRelease promise their callers, without the  *)
(* kernel's lists and priorities: a mutex has at most one holder, who may  *)
(* take it again; a release gives it straight to one of those that wait,   *)
(* so that nobody can slip in between; a wait ends with the mutex or, if   *)
(* it was given a time, without it.                                        *)
(***************************************************************************)
EXTENDS Naturals

CONSTANTS
  Tasks, Mutexes,
  MaxLevel          \* bound: how often a holder takes a mutex again

VARIABLES
  depth,     \* how often each task holds each mutex, as its calls told it
  waiting    \* the mutexes each task waits for: one or none

mutexVars == <<depth, waiting>>

MutexInit ==
  /\ depth = [t \in Tasks |-> [m \in Mutexes |-> 0]]
  /\ waiting = [t \in Tasks |-> {}]

Free(m) == \A t \in Tasks : depth[t][m] = 0

Acquire(t, m) ==
  /\ waiting[t] = {}
  /\ Free(m) \/ depth[t][m] \in 1 .. MaxLevel - 1
  /\ depth' = [depth EXCEPT ![t][m] = @ + 1]
  /\ UNCHANGED waiting

AwaitMutex(t, m) ==
  /\ waiting[t] = {} /\ ~Free(m) /\ depth[t][m] = 0
  /\ waiting' = [waiting EXCEPT ![t] = {m}]
  /\ UNCHANGED depth

TimeOut(t) == waiting' = [waiting EXCEPT ![t] = {}] /\ UNCHANGED depth

ReleaseOnce(t, m) ==
  /\ waiting[t] = {} /\ depth[t][m] > 0
  /\ depth[t][m] = 1 => \A w \in Tasks : m \notin waiting[w]
  /\ depth' = [depth EXCEPT ![t][m] = @ - 1]
  /\ UNCHANGED waiting

HandOver(t, m, w) ==
  /\ waiting[t] = {} /\ depth[t][m] = 1
  /\ waiting[w] = {m}
  /\ depth' = [depth EXCEPT ![t][m] = 0, ![w][m] = 1]
  /\ waiting' = [waiting EXCEPT ![w] = {}]

MutexNext ==
  \/ \E t \in Tasks, m \in Mutexes : Acquire(t, m) \/ AwaitMutex(t, m) \/ ReleaseOnce(t, m)
  \/ \E t, w \in Tasks, m \in Mutexes : HandOver(t, m, w)
  \/ \E t \in Tasks : TimeOut(t)

MutexSpec == MutexInit /\ [][MutexNext]_mutexVars
===============================================================================
