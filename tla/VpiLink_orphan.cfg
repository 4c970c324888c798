SPECIFICATION FairSpec
CONSTANTS
  Adr <- MCAdr
  Half = 1
  IdCode = 7
  NpcAdr = 0
  R1Adr = 1
  WbLen = {4}
  CpuLen = {4}
  StorageWords = 2
  SimMayFinish = FALSE
  ServerMayDie = TRUE
PROPERTY GetEndsWithServer
CHECK_DEADLOCK FALSE
