----------------------------- MODULE MCRTXTimers -----------------------------
(* RTXTimers for TLC: two one-shot timers and a periodic one; a queue of   *)
(* two, which all three together fill.                                     *)
EXTENDS RTXTimers

CONSTANTS once1, once2, again

ThreeTimers == {once1, once2, again}
OnePeriodic == {again}
==============================================================================
