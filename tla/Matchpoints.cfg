SPECIFICATION Spec
CONSTANTS
    NPairs = 3
    Present = {1, 2}
    Adr <- MCAdr
    Value = {0, 1}
    Half = 512
INVARIANT TypeOK
PROPERTIES BreakpointsServed ReasonFresh
