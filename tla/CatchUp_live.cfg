SPECIFICATION FairCatchUpSpec
CONSTANTS
  MaxLevel = 1
  Styles = {{"l0_retention"}, {}}
  MaxTxid = 2
  Faults = {}
  MaxFaults = 0
  ReaderFaults = {"crash", "touched", "recorded"}
  MaxReaderFaults = 1
INVARIANT CleanMarkerIsTrue
PROPERTY EventuallyCurrent
