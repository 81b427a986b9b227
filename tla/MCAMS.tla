-------------------------------- MODULE MCAMS --------------------------------
(* AMS for TLC: an enable that silences the conversions, its opposite, and *)
(* two frames may wait while one is acted on.                              *)
EXTENDS AMS

EnableFrame  == [command |-> TRUE, en_tr |-> TRUE, dis_cnv |-> TRUE]
DisableFrame == [command |-> TRUE, en_tr |-> FALSE, dis_cnv |-> FALSE]
OtherFrame   == [command |-> FALSE, en_tr |-> TRUE, dis_cnv |-> TRUE]

EveryFrame == {EnableFrame, DisableFrame, OtherFrame}

BMSPin == {"bmsOk"}

MinimumTimer == {"minimum"}
=============================================================================
