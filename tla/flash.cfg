SPECIFICATION FairSpec
CONSTANTS
  Depth = 3
  AppleSteps = {0, 1, 14}
  GrapeSteps = {0, 1, 2, 4, 6}
  BananaSteps = {1, 4, 7}
  Sizes = {0, 1, 7, 13}
  Low = 8
  Offset = 1
  PollMax = 4
INVARIANTS
  TypeOK
  FlashExact
  IdentityWhole
PROPERTY ReadReturns
CHECK_DEADLOCK FALSE
