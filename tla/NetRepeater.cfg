SPECIFICATION FairSpec
CONSTANTS
    short = short
    long = long
    oversized = oversized
    Torn = Torn
    Frames <- MCFrames
    FrameSize <- MCFrameSize
    MAX_BUFFER = 4
    MaxSize = 2
    MaxFrames = 9
INVARIANTS
    TypeOK
    WithinBlock
    DeliveredInOrder
PROPERTY ImplementsChannel
