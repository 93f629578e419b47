SPECIFICATION Spec
CONSTANTS
  MaxHead = 6
  MinFrames = 2
  TruncateFrames = 3
  Timed = TRUE
  LargeSnapshots = FALSE
  WindowWrites = FALSE
  Faults = {"app_checkpoint", "upload_sync", "ckpt_locked"}
  MaxFaults = 1
INVARIANT ChainComplete
INVARIANT SkipIsComplete
