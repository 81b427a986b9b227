---------------------------- MODULE MCDispatchers ----------------------------
(* Dispatchers for TLC: one of the three tasks is created, and meets full  *)
(* buffers by its own earlier frames.                                      *)
EXTENDS Dispatchers

CONSTANTS f1

TwoBuffers == 1 .. 2
AnyFrame   == {f1}      \* a name for the frames, which Dispatchers makes itself

EachAlone == {{"status"}, {"contactors"}, {"heartbeat"}}

CellsStateAndCoils == {"bmsOk", "state", "neg_driven", "pos_driven"}

RaceReady == {scsTractiveSystemRaceReady}
=============================================================================
