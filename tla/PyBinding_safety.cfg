SPECIFICATION Spec
CONSTANTS
  t1 = t1  t2 = t2  b1 = b1  m1 = m1  m2 = m2  s1 = s1  s2 = s2  p1 = p1
  None = None
  Threads <- TwoThreads
  Bufs <- OneBuf
  Masters <- TwoMasters
  Stores <- TwoStores
  Paths <- OnePath
  MaxGen = 3
  MaxCalls = 2
  MaxNamed = 3
  Builds = {1}
INVARIANTS TypeOK MasterOutlivesStore LockFollowsStore NeverStale
PROPERTIES EveryCallReturns
