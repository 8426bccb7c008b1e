SPECIFICATION Spec
CONSTANTS
    RB_LEN = 3
    ChunkLens <- MCChunkLens
    max_send_len = 2
    MaxBytes = 11
INVARIANT OverflowKeepsNewest
CHECK_DEADLOCK FALSE
