SPECIFICATION Spec
CONSTANTS
  MaxHead = 4
  MinFrames = 1
  TruncateFrames = 2
  Timed = TRUE
  LargeSnapshots = TRUE
  WindowWrites = TRUE
  Faults = {"crash", "upload_sync", "upload_ckpt", "upload_lost_ack", "bump_busy", "ckpt_locked", "app_checkpoint", "gap_checkpoint", "down_checkpoint"}
  MaxFaults = 2
INVARIANT TypeOK
INVARIANT SnapshotConsistent
INVARIANT ResumeAgrees
INVARIANT PinKeepsFrames
INVARIANT OneRestartWhilePinned
PROPERTY PublishedIsFinal
