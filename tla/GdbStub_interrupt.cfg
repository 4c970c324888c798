SPECIFICATION FairSpec
CONSTANTS
    Adr <- MCAdr
    StartAddr = 1
    Kinds <- RunKinds
    MaxAsked = 2
    MaxEtx = 2
    MaxClients = 1
    MayGo = FALSE
CHECK_DEADLOCK FALSE
PROPERTY InterruptServed
