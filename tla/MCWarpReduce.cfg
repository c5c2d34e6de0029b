SPECIFICATION FairSpec
CONSTANTS
  gridDim = 2
  BLOCK_SIZE = 8
  warpSize = 4
  n = 21
INVARIANTS
  TypeOK
  WarpSumComplete
  BlockSumsReady
PROPERTIES
  ImplementsReduction
  Terminates
CHECK_DEADLOCK FALSE
