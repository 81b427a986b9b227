------------------------------ MODULE MCRTXMutex ------------------------------
(* RTXMutex for TLC: two tasks of the same priority, one less and one more *)
(* urgent, the idle task, and two mutexes.                                 *)
EXTENDS RTXMutex

CONSTANTS idle, low, normal1, normal2, high, driver, can

FiveTasks == {idle, low, normal1, normal2, high}
TwoMutexes == {driver, can}
Priorities ==
  [t \in FiveTasks |-> CASE t = idle -> 0 [] t = low -> 1 [] t = high -> 3 [] OTHER -> 2]

(* Tasks of the same priority, and mutexes, differ in nothing.             *)
Interchangeable == Permutations({normal1, normal2}) \cup Permutations(TwoMutexes)
===============================================================================
