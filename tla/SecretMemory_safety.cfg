SPECIFICATION Spec
CONSTANTS
  b1 = b1
  b2 = b2
  Bufs <- TwoBufs
  PageSize = 2
  NumPages = 9
  MaxUsize = 15
  LockLimit = 3
  Lens <- SomeLens
INVARIANTS TypeOK SecretsLocked LiveIntact NoStrandedPages
PROPERTIES LeavesNoCopy
SYMMETRY Symmetry
