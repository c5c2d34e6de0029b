SPECIFICATION FairSpec
CONSTANTS
  gridDim = 2
  blockDim = 4
INVARIANTS
  TypeOK
  NoRace
  StageComplete
PROPERTIES
  ImplementsReduction
  Terminates
CHECK_DEADLOCK FALSE
