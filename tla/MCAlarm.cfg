CONSTANTS
  unit1 = unit1
  unit2 = unit2
  log = log
  bits = bits
  level = level
  mode = mode
  absent = absent
  Configured <- MCConfigured
  Table <- MCTable
  Sink <- MCSink
  Registers <- MCRegisters
  Values = {0, 65535}
  MaxCtxs = 2
  MaxDbs = 2
  MaxRows = 2
  MaxClock = 2
  MaxMiscounts = 1
SPECIFICATION Spec
INVARIANT EventsTellState
INVARIANT NewestKept
INVARIANT OneSlotPerLog
INVARIANT ClosedForGood
PROPERTY LastingConditionReported
