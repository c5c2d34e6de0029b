CONSTANTS
  TILE_SIZE = 2
  rowsA = 3
  colsA = 5
  colsB = 3
  blockIdxX = 1
  blockIdxY = 1
SPECIFICATION FairSpec
INVARIANTS
  TypeOK
  NoRace
  TileComplete
  LoadsInBounds
PROPERTIES
  Terminates
  ImplementsMatMul
CHECK_DEADLOCK FALSE
