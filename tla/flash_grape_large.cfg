SPECIFICATION Spec
CONSTANTS
  Depth = 3
  AppleSteps = {}
  GrapeSteps = {12}
  BananaSteps = {12}
  Sizes = {0, 1, 7, 13}
  Low = 8
  Offset = 1
  PollMax = 4
INVARIANT FlashExact
CHECK_DEADLOCK FALSE
