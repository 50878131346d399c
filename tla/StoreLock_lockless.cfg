CONSTANTS
  None = None
  Openers = {o1, o2}
  Inodes = {i1, i2, i3}
  MaxTries = 3
  MaxReplaced = 1
  DirStates = {"rw"}
  Faulty = FALSE
SPECIFICATION Spec
INVARIANT LocklessOnlyWhereUnwritable
