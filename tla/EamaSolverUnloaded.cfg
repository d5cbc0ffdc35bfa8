SPECIFICATION Spec
CONSTANTS
  Problem <- Unloaded
  InitialSolutions <- Default
  Near <- AllNear
  lower_bound_option = 0
  k_max = 1
  i_rand = 0
  EPS5 = 1
  alpha = 1
  MaxBeta = 1
  beta_correction = TRUE
  MaxP = 1
INVARIANTS
  SomeRouteLeft
