SPECIFICATION Spec
CONSTANTS
  Instances <- Inserted
  Stale = {0, 6}
CHECK_DEADLOCK FALSE
INVARIANTS
  FindsBest
