SPECIFICATION Spec
CONSTANTS
  Holds = {FALSE}
  TxDepth = 3
  MaxAlen = 2
  MaxLen = 3
  MaxCalls = 1
  MaxSetups = 0
  Freqs <- MCFreqs
INVARIANT WriteIsOneTransfer
CHECK_DEADLOCK FALSE
