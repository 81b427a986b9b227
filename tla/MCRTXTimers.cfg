SPECIFICATION Spec
CONSTANTS
  once1 = once1
  once2 = once2
  again = again
  Timers <- ThreeTimers
  Periodic <- OnePeriodic
  MaxTicks = 2
  QueueSize = 2
INVARIANT TypeOK
PROPERTY ImplementsTimerService CallbacksAreCalled
CHECK_DEADLOCK FALSE
