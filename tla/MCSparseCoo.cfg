SPECIFICATION FairSpec
CONSTANTS
  N = 2
  nnz = 3
  rowIdx <- MCrowIdx
  TX = 3
  TY = 2
  flat_threads = 2
INVARIANTS
  TypeOK
  NothingLost
  VerifiesCorrect
PROPERTIES
  Terminates
CHECK_DEADLOCK FALSE
