SPECIFICATION Spec
CONSTANTS
    Adr <- MCAdr
    StartAddr = 1
    Kinds <- AllKinds
    MaxAsked = 3
    MaxEtx = 2
    MaxClients = 2
    MayGo = TRUE
CHECK_DEADLOCK FALSE
INVARIANTS
    TypeOK
    StallKnown
    SignalKnown
    BreakpointsExact
    RequestsSafe
    Matched
    StopOwed
    NpcKnown
    Dialogue
