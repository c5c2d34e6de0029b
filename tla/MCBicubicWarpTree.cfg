SPECIFICATION SpecTree
CONSTANTS
  WARP_SIZE = 4
  Jobs <- TreeJobs
INVARIANTS
  MatchesCpu
CHECK_DEADLOCK FALSE
