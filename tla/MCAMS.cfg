SPECIFICATION FairAMS
CONSTANTS
  NoCommand = NoCommand
  Capacity = 3
  Frames <- EveryFrame
  ExpiringTimers <- MinimumTimer
  ChangingPins <- BMSPin
INVARIANT ClosesAfterBMSStart
PROPERTIES LastCommandObeyed BMSFaultShutsDown
CHECK_DEADLOCK FALSE
