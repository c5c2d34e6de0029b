SPECIFICATION FairSpec
CONSTANTS
  Plans <- MCPlans
INVARIANTS
  MemorySafe
PROPERTIES
  ImplementsFilter
  CallsReturn
CHECK_DEADLOCK FALSE
