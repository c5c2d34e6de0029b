SPECIFICATION FairSpec
CONSTANTS
  WARP_SIZE = 4
  Jobs <- AllJobs
INVARIANTS
  MemorySafe
  Conserved
PROPERTIES
  ImplementsGradient
  CallsReturn
CHECK_DEADLOCK FALSE
