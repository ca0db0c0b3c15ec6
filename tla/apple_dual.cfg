SPECIFICATION FairSpec
CONSTANTS
  Socket = {0, 1}
  Socket0 = 0
  PcPerSocket = 2
  PcActsAsMc = FALSE
  McActsAsPc = FALSE
  BistOn = FALSE
  Preloaded = FALSE
  Core <- MCCore
  SocketOf <- MCSocketOf
  McOf <- MCMcOf
  LeaderOf <- MCLeaderOf
INVARIANTS
  NoWildJump
  BarrierSound
  StorageExclusive
  DdrBeforeUse
PROPERTIES
  StageMonotonic
  PromiseSpec
  Socket0Arrives
CHECK_DEADLOCK FALSE
