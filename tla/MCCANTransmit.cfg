SPECIFICATION Spec
CONSTANTS
  NULL = NULL
  Senders <- Dispatchers
  Heartbeat = "heartbeat"
  TxBuffers <- ThreeBuffers
INVARIANT TypeOK
PROPERTIES ImplementsBuffers WritesReturn
