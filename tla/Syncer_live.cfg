SPECIFICATION FairSpec
CONSTANTS
  MaxHead = 5
  MinFrames = 2
  TruncateFrames = 3
  Timed = TRUE
  LargeSnapshots = FALSE
  WindowWrites = FALSE
  Faults = {"crash", "upload_sync", "ckpt_locked"}
  MaxFaults = 2
INVARIANT ChainComplete
INVARIANT NoSelfEquivocation
PROPERTY EventuallyReplicated
PROPERTY RefinesReplica
