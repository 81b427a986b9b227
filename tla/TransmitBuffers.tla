--------------------------- MODULE TransmitBuffers ---------------------------
(***************************************************************************)
(* The transmit buffers of the CAN controller, as a sender sees them: a    *)
(* frame is put into an empty buffer or, when there is none, refused; the  *)
(* controller sends the frames in any order (by identifier and buffer      *)
(* number, with arbitration on the bus in between).                        *)
(***************************************************************************)
CONSTANTS NULL, TxBuffers, TxFrames

ASSUME NullAssumption == NULL \notin TxFrames

VARIABLE tx     \* the frame pending in each buffer, or NULL

EmptyBuffers == {b \in TxBuffers : tx[b] = NULL}

TxInit == tx = [b \in TxBuffers |-> NULL]

(* can_write returns 1 ...                                                 *)
Accept(f) == \E b \in EmptyBuffers : tx' = [tx EXCEPT ![b] = f]

(* ... or 0, which no caller looks at.                                     *)
Refuse == EmptyBuffers = {} /\ UNCHANGED tx

Transmit(b) == tx[b] # NULL /\ tx' = [tx EXCEPT ![b] = NULL]

TxNext == (\E f \in TxFrames : Accept(f)) \/ (\E b \in TxBuffers : Transmit(b))

TxSpec == TxInit /\ [][TxNext]_tx
=============================================================================
