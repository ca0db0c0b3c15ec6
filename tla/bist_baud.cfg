SPECIFICATION Spec
CONSTANTS
  Builds <- QuietGrape
  WorkModes = {{"BIST"}}
  StoragesBc = {"FLASH"}
  FlashConf <- MCFlashConf
  Disks <- MCDisks
INVARIANTS
  ConsoleReadable
CHECK_DEADLOCK FALSE
