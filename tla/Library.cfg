SPECIFICATION Spec
CONSTANTS
  h1 = h1
  h2 = h2
  i1 = i1
  i2 = i2
  i3 = i3
  Heads <- MCHeads
  Items <- MCItems
  Broken = Broken
  MaxHistory = 10
  MaxSavepoints = 2
  CHAR_BIT = 2
  WordBytes = 2
  MaxBytes = 5
  Half = 8
  MaxAdds = 3
  W = 3
  Gamma = 3
  Mul1 = 5
  Mul2 = 7
  MaxSample = 4
  n_customers = 3
  MaxSolutions = 3
SYMMETRY Symmetry
INVARIANTS IteratorExact SumsExact96 DrawsFair ObjectsExact
PROPERTIES RollsBack
CHECK_DEADLOCK FALSE
