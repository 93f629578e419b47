SPECIFICATION Spec
CONSTANTS
  MaxHead = 6
  MinFrames = 2
  TruncateFrames = 9
  Timed = FALSE
  LargeSnapshots = FALSE
  WindowWrites = TRUE
  Faults = {"upload_sync", "ckpt_locked"}
  MaxFaults = 2
INVARIANT ChainComplete
