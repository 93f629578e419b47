SPECIFICATION Spec
CONSTANTS
  MaxTxid = 4
CHECK_DEADLOCK FALSE
INVARIANT PlanReaches
INVARIANT PlanMinimal
INVARIANT ImageExact
INVARIANT TimestampSnaps
INVARIANT MergeIsLatest
