SPECIFICATION Spec
CONSTANTS
  Plans <- MCPlans
INVARIANTS
  MemorySafe
PROPERTIES
  ImplementsMatMul
CHECK_DEADLOCK FALSE
