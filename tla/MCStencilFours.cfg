SPECIFICATION Spec
CONSTANTS
  Plans <- FoursPlans
INVARIANTS
  MatchesCpu
CHECK_DEADLOCK FALSE
