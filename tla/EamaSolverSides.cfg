SPECIFICATION Spec
CONSTANTS
  Problem <- TwoSides
  InitialSolutions <- Default
  Near <- NearestTwo
  lower_bound_option = 0
  k_max = 1
  i_rand = 2
  EPS5 = 1
  alpha = 2
  MaxBeta = 3
  beta_correction = TRUE
  MaxP = 1
INVARIANTS
  TypeOK Copies InfeasiblesExact MovesApplicable
PROPERTIES
  SqueezeDescends
