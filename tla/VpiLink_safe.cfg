SPECIFICATION FairSpec
CONSTANTS
  Adr <- MCAdr
  Half = 1
  IdCode = 7
  NpcAdr = 0
  R1Adr = 1
  WbLen = {8}
  CpuLen = {8}
  StorageWords = 2
  SimMayFinish = TRUE
  ServerMayDie = TRUE
INVARIANTS TypeOK Framed Quiet Delivered RightModule Inductive
PROPERTIES WordAccess CommandCompletes ServerStarts ServerFollows
CHECK_DEADLOCK FALSE
