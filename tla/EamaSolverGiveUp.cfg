SPECIFICATION Spec
CONSTANTS
  Problem <- Bulky
  InitialSolutions <- Default
  Near <- NearestTwo
  lower_bound_option = 0
  k_max = 0
  i_rand = 0
  EPS5 = 1
  alpha = 1
  MaxBeta = 2
  beta_correction = TRUE
  MaxP = 1
PROPERTIES
  MinimizesRoutes
