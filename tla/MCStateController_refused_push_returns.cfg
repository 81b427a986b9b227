SPECIFICATION Spec
CONSTANT ChangingPins <- OnePerStage
INVARIANT RefusedPushReturns
