SPECIFICATION Spec
CONSTANTS
    max_wr_counter = 4
    Gap = 2
    fifo_size = 3
    MsgLens <- MCMsgLens
    max_wir_len = 5
    UINT32 = 16
    MaxBytes = 11
INVARIANT FullIsRefused
CHECK_DEADLOCK FALSE
