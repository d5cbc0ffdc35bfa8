SPECIFICATION Spec
CONSTANTS
  Problem <- Cluster
  InitialSolutions <- DefaultAndDecoded
  Near <- AllNear
  lower_bound_option = 0
  k_max = 2
  i_rand = 1
  EPS5 = 1
  alpha = 1
  MaxBeta = 2
  beta_correction = TRUE
  MaxP = 2
INVARIANTS
  Ownership FeasibleBetweenPhases TriesRollBack InsertEjectSucceeds
PROPERTIES
  SqueezeEnds MinimizesRoutes
