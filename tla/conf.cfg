SPECIFICATION Spec
CONSTANTS
  Builds <- MCBuilds
  WorkModes = {{}}
  StoragesBc = {"FLASH", "ROM_ONCHIP"}
  FlashConf <- MCFlashConf
  Disks <- MCDisks
INVARIANTS
  TypeOK
  ConsoleReadable
  FlashClocked
  SocketFromPins
  DebugKeepsFsbl
  ImageWhole
  ConfLostExactly
  HandOffAgrees
CHECK_DEADLOCK FALSE
