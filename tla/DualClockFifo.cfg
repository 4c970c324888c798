SPECIFICATION FairSpec
CONSTANTS
    ADDR_WIDTH = 3
    MaxWords = 12
INVARIANTS TypeOK FlagsSafe
PROPERTIES QueueImplemented Drained FullClears
