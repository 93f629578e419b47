SPECIFICATION Spec
CONSTANTS
  Hosts = {h1, h2}
  Procs = {p1, p2}
  MaxCommits = 3
  MaxTxid = 3
  MaxFaults = 2
SYMMETRY Symmetry
CHECK_DEADLOCK FALSE
INVARIANT OneHistory
INVARIANT NeverConflicts
INVARIANT AcknowledgedIsKept
