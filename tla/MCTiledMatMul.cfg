CONSTANTS
  TILE_SIZE = 2
  rowsA = 3
  colsA = 5
  colsB = 3
  blockIdxX = 1
  blockIdxY = 0
SPECIFICATION TiledFairSpec
INVARIANTS
  TiledTypeOK
  TiledNoRace
  TiledTileComplete
PROPERTIES
  Terminates
  ImplementsMatMul
CHECK_DEADLOCK FALSE
