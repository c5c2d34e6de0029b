SPECIFICATION SpecAll
CONSTANTS
  WARP_SIZE = 4
  Jobs <- AllJobs
INVARIANTS
  MatchesCpu
CHECK_DEADLOCK FALSE
