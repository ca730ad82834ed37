SPECIFICATION Spec
CONSTANTS
  Families <- TheFamilies
  Files <- TheFiles
  Builds <- TheBuilds
  Watched <- TheWatched
  MaxUnits = 2
  MaxProfiles = 4
  FailThreshold = 2
INVARIANT EachRegisterItsOwn
INVARIANT NoUnitMissing
PROPERTY PublishedFollowsDevice
PROPERTY LossPublished
