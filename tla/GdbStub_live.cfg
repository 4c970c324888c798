SPECIFICATION FairSpec
CONSTANTS
    Adr <- MCAdr
    StartAddr = 1
    Kinds <- RunKinds
    MaxAsked = 3
    MaxEtx = 2
    MaxClients = 2
    MayGo = TRUE
CHECK_DEADLOCK FALSE
INVARIANT TrapRolledBack
PROPERTIES Answered StopDelivered
