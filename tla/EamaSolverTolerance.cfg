SPECIFICATION Spec
CONSTANTS
  Problem <- Tight
  InitialSolutions <- Default
  Near <- AllNear
  lower_bound_option = 0
  k_max = 1
  i_rand = 1
  EPS5 = 2
  alpha = 1
  MaxBeta = 1
  beta_correction = TRUE
  MaxP = 1
INVARIANTS
  FeasibleBetweenPhases
