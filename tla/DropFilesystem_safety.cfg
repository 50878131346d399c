SPECIFICATION Spec
CONSTANTS
  t1 = t1
  t2 = t2
  slash = slash
  a = a
  b = b
  Threads <- OneThread
  Dirs <- SomeDirs
  Slash <- slash
  NotDir = NotDir
  None = None
  MaxChanges = 4
  MaxCalls = 2
INVARIANTS TypeOK NeverOutsideRoot
PROPERTIES RootWasEmpty ErrChangesNothing
CHECK_DEADLOCK FALSE
