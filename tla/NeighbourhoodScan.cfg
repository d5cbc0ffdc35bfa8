SPECIFICATION Spec
CONSTANTS
  Problem <- Line
  Near <- NearestThree
  Starts <- Infeasible
  EPS5 = 1
  alpha = 1
  beta = 1
  MaxMoves = 3
INVARIANTS
  CopySound YieldsNeighbourhood
PROPERTIES
  AppliesOptimalMove
CHECK_DEADLOCK FALSE
