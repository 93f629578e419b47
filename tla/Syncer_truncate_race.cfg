SPECIFICATION Spec
CONSTANTS
  MaxHead = 6
  MinFrames = 1
  TruncateFrames = 2
  Timed = FALSE
  LargeSnapshots = FALSE
  WindowWrites = TRUE
  Faults = {}
  MaxFaults = 0
INVARIANT ChainComplete
