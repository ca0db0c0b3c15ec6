SPECIFICATION FairSpec
CONSTANTS
  Socket = {0}
  Socket0 = 0
  PcPerSocket = 4
  PcActsAsMc = TRUE
  McActsAsPc = FALSE
  BistOn = TRUE
  Preloaded = FALSE
  Core <- MCCore
  SocketOf <- MCSocketOf
  McOf <- MCMcOf
  LeaderOf <- MCLeaderOf
INVARIANTS
  TypeOK
  NoWildJump
  BarrierSound
  StorageExclusive
  DdrBeforeUse
PROPERTIES
  StageMonotonic
  PromiseSpec
  Socket0Arrives
CHECK_DEADLOCK FALSE
