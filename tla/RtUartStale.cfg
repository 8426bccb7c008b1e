SPECIFICATION Spec
CONSTANTS
    MAX_RT_BUF_LEN = 3
    spi_num = 2
    BB_READ_MAX_LEN = 4
    UINT8_MAX = 7
    ChunkLens <- MCChunkLens
    MaxBytes = 6
INVARIANT OnlyReceivedData
CHECK_DEADLOCK FALSE
