CONSTANTS
  None = None
  Openers = {o1, o2, o3}
  Inodes = {i1, i2, i3, i4}
  MaxTries = 2
  MaxReplaced = 2
  DirStates = {"rw", "noperm", "rofs"}
  Faulty = TRUE
SPECIFICATION Spec
SYMMETRY Symmetric
INVARIANTS TypeOK HeldIsVisible NoLeakedLock EndsForAReason
PROPERTY ImplementsLock
