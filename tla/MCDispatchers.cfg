SPECIFICATION Spec
CONSTANTS
  NULL = NULL
  f1 = f1
  TxFrames <- AnyFrame
  TxBuffers <- TwoBuffers
  Created <- EachAlone
  Changing <- CellsStateAndCoils
  States <- RaceReady
  CounterSize = 4
  BeatCycle = 12
INVARIANTS WrongOnlyAboutChanges MaskExplainsInputs
PROPERTIES GapCountsLost LastingValueReported
