SPECIFICATION FairSpec
CONSTANTS
  Holds = {TRUE, FALSE}
  TxDepth = 3
  MaxAlen = 2
  MaxLen = 3
  MaxCalls = 2
  MaxSetups = 1
  Freqs <- MCFreqs
INVARIANTS
  TypeOK
  ReadExact
  WriteComplete
  HoldsOneTransfer
  SclBounded
PROPERTIES
  CallsReturn
  PromiseSpec
CHECK_DEADLOCK FALSE
