CONSTANTS
  Upper = 5990
  Lower = 1780
  Duties = {0, 5050, 20000}
  Frequencies = {0, 5990}
  Capacity = 2
SPECIFICATION Spec
INVARIANT LastCommandStands
PROPERTY FrequencyWithinLimits
PROPERTY EveryCommandTaken
