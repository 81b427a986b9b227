SPECIFICATION Spec
CONSTANT ChangingPins <- OnePerStage
INVARIANT FireonceMeansElapsed
ACTION_CONSTRAINT TimerThreadFirst
