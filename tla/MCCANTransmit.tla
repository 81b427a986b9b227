---------------------------- MODULE MCCANTransmit ----------------------------
(* CANTransmit for TLC: the three dispatchers and the three buffers of the *)
(* LPC1768.                                                                *)
EXTENDS CANTransmit

Dispatchers  == {"heartbeat", "status", "contactors"}
ThreeBuffers == 1 .. 3
=============================================================================
