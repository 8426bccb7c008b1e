SPECIFICATION FairSpec
CONSTANTS
    RB_LEN = 3
    ChunkLens <- MCChunkLens
    max_send_len = 2
    MaxBytes = 11
INVARIANTS
    TypeOK
    CountsExactly
    InOrderUntilOverflow
PROPERTIES
    ImplementsQueue
    Drains
CHECK_DEADLOCK FALSE
