CONSTANTS
  Uids = {1, 2}
  Requests <- Asked
  Probe <- ReadOne
  MaxTid = 4
  MaxLag = 1
  FailThreshold = 2
  NoRequest = NoRequest
SPECIFICATION LinkSpec
PROPERTY AcceptedFits
PROPERTY NothingFromBefore
PROPERTY LinkRecovers
