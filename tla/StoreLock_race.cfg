CONSTANTS
  None = None
  Openers = {o1, o2, o3}
  Inodes = {i1, i2, i3, i4}
  MaxTries = 2
  MaxReplaced = 1
  DirStates = {"rw"}
  Faulty = FALSE
SPECIFICATION FairSpec
PROPERTY SomeoneGetsIn
