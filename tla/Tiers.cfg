SPECIFICATION Spec
CONSTANTS
  MaxLevel = 2
  Styles = {{"compact"}, {"l0_retention"}}
  MaxTxid = 4
  Faults = {"crash", "put_lost_ack", "delete_fails", "delete_lost_ack"}
  MaxFaults = 1
CHECK_DEADLOCK FALSE
INVARIANT TypeOK
INVARIANT Restorable
INVARIANT FilesHoldTheirRange
INVARIANT ResumeStateKept
INVARIANT SnapshotNeverFails
INVARIANT RestoreIsComplete
