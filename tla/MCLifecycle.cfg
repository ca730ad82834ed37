CONSTANTS
  Faults <- AnyFault
  MaxSignals = 2
SPECIFICATION ProcSpec
INVARIANT NothingLeftBehind
INVARIANT MonitorHasModules
PROPERTY OrderlyShutdownEnds
