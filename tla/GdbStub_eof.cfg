SPECIFICATION FairSpec
CONSTANTS
    Adr <- MCAdr
    StartAddr = 1
    Kinds <- RunKinds
    MaxAsked = 1
    MaxEtx = 0
    MaxClients = 2
    MayGo = TRUE
CHECK_DEADLOCK FALSE
PROPERTY EofNoticed
