SPECIFICATION FairSpec
CONSTANTS
  b1 = b1
  b2 = b2
  b3 = b3
  NULL = NULL
  Blocks <- ThreeBlocks
  HwDepth = 1
  Frames <- CommandsAndOther
INVARIANTS TypeOK BlocksAccounted
PROPERTIES LostOnlyWhenFull ImplementsChannel EveryMailFreed
