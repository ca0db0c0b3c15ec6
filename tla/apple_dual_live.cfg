SPECIFICATION FairSpec
CONSTANTS
  Socket = {0, 1}
  Socket0 = 0
  PcPerSocket = 1
  PcActsAsMc = FALSE
  McActsAsPc = FALSE
  BistOn = FALSE
  Preloaded = FALSE
  Core <- MCCore
  SocketOf <- MCSocketOf
  McOf <- MCMcOf
  LeaderOf <- MCLeaderOf
PROPERTY AllHartsReachOpenSbi
CHECK_DEADLOCK FALSE
