SPECIFICATION FairSpec
CONSTANTS
    ByteBits = 2
    tck_period = 5
    XFERT_MAX_SIZE = 2
    TmsBuffers <- McTms
    ScanBuffers <- McScans
    MaxQueue = 1
    MaxParts = 1
INVARIANT TypeOK
PROPERTIES PortServed SetupHeld ScanAnswered LeftReset
