SPECIFICATION Spec
CONSTANTS
  Holds = {FALSE}
  TxDepth = 3
  MaxAlen = 2
  MaxLen = 3
  MaxCalls = 0
  MaxSetups = 2
  Freqs <- MCFreqs
INVARIANT SpeedSelected
CHECK_DEADLOCK FALSE
