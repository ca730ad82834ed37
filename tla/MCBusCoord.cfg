CONSTANTS
  t1 = t1
  t2 = t2
  t3 = t3
  t4 = t4
  tcp = tcp
  pa = pa
  pb = pb
  pc = pc
  NoThread = NoThread
  NoPath = NoPath
  Threads <- MCThreads
  Paths <- MCPaths
  PathOf <- MCPathOf
  MaxBuses = 2
  MaxDepth = 2
SPECIFICATION Spec
INVARIANT TypeOK
INVARIANT MutualExclusion
INVARIANT DepthIsOwned
INVARIANT NoLostWakeup
INVARIANT UniqueSlots
INVARIANT NoLateCoordination
