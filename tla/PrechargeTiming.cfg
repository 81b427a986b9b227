SPECIFICATION SpecTimed
CONSTANTS
  MinimumTicks = 3
  ChangingPins <- FaultAndInput
PROPERTY RunAfterMinimumTime
