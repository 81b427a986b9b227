SPECIFICATION SpecObserved
CONSTANT ChangingPins <- AllPins
INVARIANTS TypeOK SafeStatesOpen OperatingNeedsDriver PrechargeCanFinish PromptPrecharge
PROPERTIES ImplementsTractiveSystem RunClosesOnlyWhenHealthy LatchResetByDriver NoRestartWithoutEnableCycle
