SPECIFICATION FairSpec
CONSTANTS
  Socket = {0}
  Socket0 = 0
  PcPerSocket = 2
  PcActsAsMc = TRUE
  McActsAsPc = FALSE
  BistOn = TRUE
  Preloaded = FALSE
  Core <- MCCore
  SocketOf <- MCSocketOf
  McOf <- MCMcOf
  LeaderOf <- MCLeaderOf
PROPERTY AllHartsReachOpenSbi
CHECK_DEADLOCK FALSE
