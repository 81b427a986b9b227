SPECIFICATION Spec
CONSTANT ChangingPins <- OnePerStage
INVARIANT ReadyMeansClosed
