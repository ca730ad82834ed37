CONSTANTS
  inv = inv
  ups = ups
  solo = solo
  p = p
  q = q
  NoThread = NoThread
  NoPath = NoPath
  Units <- Both
  Configurations <- OnlyBoth
  Kind <- Kinds
  Paths <- SharedPath
  PathOf <- SharedPaths
  MaxBuses = 1
  Segments = 1
  FailThreshold <- OneFailure
  QueueCapacity = 1
  Requests <- AnyRequest
SPECIFICATION Spec
INVARIANT ScanUninterrupted
INVARIANT WireExclusive
INVARIANT BusFreeAtRest
