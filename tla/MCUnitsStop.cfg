CONSTANTS
  inv = inv
  ups = ups
  solo = solo
  p = p
  q = q
  NoThread = NoThread
  NoPath = NoPath
  Units <- All
  Configurations <- AloneOrBoth
  Kind <- AllKinds
  Paths <- TwoPaths
  PathOf <- AllPaths
  MaxBuses = 2
  Segments = 3
  FailThreshold <- Thresholds
  QueueCapacity = 1
  Requests <- SomeRequest
SPECIFICATION Spec
INVARIANT OfflineHasNoLiveData
PROPERTY LossOnlyAfterConsecutiveFailures
PROPERTY ShutdownCompletes
PROPERTY InitRequestServed
