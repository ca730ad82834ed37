CONSTANTS
  frequency_cmd = frequency_cmd
  fault_cmd = fault_cmd
  AUTO = AUTO
  Addrs <- MCAddrs
  MergeAddrs <- MCMergeAddrs
  Counts = {1, 2}
  Values = {0, 1}
  Modes <- MCModes
  Capacity = 3
SPECIFICATION Spec
INVARIANT OnePerMergeableKey
INVARIANT LastWriteWins
PROPERTY ImplementsFifo
