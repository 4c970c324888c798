SPECIFICATION Spec
CONSTANTS
    Size = 8
    GDB_BUF_MAX = 13
    Image <- MCImage
    Payloads <- MCPayloads
    MaxAsked = 2
INVARIANTS TypeOK 
PROPERTIES  StoresInside
CHECK_DEADLOCK FALSE
