SPECIFICATION MCSpec
CONSTANTS
  Levels <- TwoLevels
  SnapshotInterval = 8
  RetentionInterval = 8
  CheckpointInterval = 2
  MinFrames = 2
  TruncateFrames = 4
  Start = 28
  MaxNow = 41
  MaxGap = 1
  MaxCommits = 4
  Faults = {"reader", "job_fails", "sync_fails", "checkpoint_fails", "refused", "clock_back"}
  MaxFaults = 2
  LogTicks = 6
CHECK_DEADLOCK FALSE
INVARIANT TypeOK
INVARIANT NotStarved
INVARIANT OncePerBoundary
 
INVARIANT FoldedInTime
