SPECIFICATION Spec
CONSTANTS
  Instances <- Routes
  Stale = {0, 6}
CHECK_DEADLOCK FALSE
INVARIANTS
  TypeOK StacksPartition SumsExact TestExact YieldsFeasible
PROPERTIES
  Lexicographic FindsBestConsidered
