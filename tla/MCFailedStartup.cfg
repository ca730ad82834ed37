CONSTANTS
  Faults = {"module"}
  MaxSignals = 0
SPECIFICATION ProcSpec
PROPERTY FailedStartupExits
