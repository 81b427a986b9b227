-------------------------- MODULE MCCANTransceiver --------------------------
(* CANTransceiver for TLC: a pool of three blocks instead of 32, two       *)
(* opposite commands and a frame of another kind.                          *)
EXTENDS CANTransceiver

CONSTANTS b1, b2, b3

ThreeBlocks == {b1, b2, b3}

EnableFrame  == [command |-> TRUE, en_tr |-> TRUE, dis_cnv |-> TRUE]
DisableFrame == [command |-> TRUE, en_tr |-> FALSE, dis_cnv |-> FALSE]

CommandsAndOther == {EnableFrame, DisableFrame, Blank}
==============================================================================
