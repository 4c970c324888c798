SPECIFICATION Spec
CONSTANTS
    Adr <- MCAdr
    StartAddr = 1
    Kinds <- RunKinds
    MaxAsked = 3
    MaxEtx = 1
    MaxClients = 1
    MayGo = FALSE
CHECK_DEADLOCK FALSE
INVARIANT RolledBack
