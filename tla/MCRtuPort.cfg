CONSTANTS
  u1 = u1
  u2 = u2
  u3 = u3
  u4 = u4
  u5 = u5
  pa = pa
  pb = pb
  pc1 = pc1
  NoUnit = NoUnit
  NoPath = NoPath
  Units <- MCUnits
  Paths <- MCPaths
  PathOf <- MCPathOf
  BaudOf <- MCBaudOf
  MaxBuses = 2
  SilenceMs = 2
SPECIFICATION Spec
SYMMETRY Alike
INVARIANT RefcountExact
INVARIANT NoStaleDescriptor
PROPERTY HandoffSilence
INVARIANT ReconnectsOnSoundLock
