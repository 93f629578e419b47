SPECIFICATION Spec
CONSTANTS
  LockPgno = 2
  MaxPgno = 3
  MaxFrames = 3
  MaxGens = 2
  MaxTx = 3
  MaxTxid = 3
  LosesCaptured = FALSE
CHECK_DEADLOCK FALSE
INVARIANT CapturedIsCommitted
INVARIANT EncoderAccepts
PROPERTY SyncReaches
