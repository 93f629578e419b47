SPECIFICATION CatchUpSpec
CONSTANTS
  MaxLevel = 1
  Styles = {{"l0_retention"}}
  MaxTxid = 3
  Faults = {}
  MaxFaults = 0
  ReaderFaults = {}
  MaxReaderFaults = 0
INVARIANT CurrentIfQuiet
