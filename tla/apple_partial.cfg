SPECIFICATION FairSpec
CONSTANTS
  Socket = {0}
  Socket0 = 0
  PcPerSocket = 2
  PcActsAsMc = FALSE
  McActsAsPc = FALSE
  BistOn = FALSE
  Preloaded = FALSE
  Core <- MCCore
  SocketOf <- MCSocketOf
  McOf <- MCMcOf
  LeaderOf <- MCLeaderOf
PROPERTY ChiplinkConfigured
CHECK_DEADLOCK FALSE
