SPECIFICATION FairSpec
CONSTANTS
  Jobs <- MCJobs
INVARIANTS
  MemorySafe
PROPERTIES
  ImplementsGradient
  CallsReturn
CHECK_DEADLOCK FALSE
