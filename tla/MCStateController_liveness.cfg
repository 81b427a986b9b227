SPECIFICATION FairSpec
CONSTANT ChangingPins <- FaultAndPrecharge
PROPERTIES DisableOpens FaultOpens BecomesReady ComesToRest
