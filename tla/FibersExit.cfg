CONSTANTS
  f1 = f1
  f2 = f2
  f3 = f3
  e1 = e1
  e2 = e2
  e3 = e3
  NoError = NoError
  Sched = Sched
  NoFiber = NoFiber
  Fibers <- MCFibers
  Areas <- MCAreas
  Errors <- MCErrors
  Slabs = 2
  ExitAnywhere = TRUE
SPECIFICATION Spec
SYMMETRY Symmetry
PROPERTIES NeverDeletesItself
