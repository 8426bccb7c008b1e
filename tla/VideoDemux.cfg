SPECIFICATION FairSpec
CONSTANTS
    UINT8_MAX = 87
    Payloads <- MCPayloads
    Junk <- MCJunk
    ChunkLens <- MCChunkLens
    MaxUnits = 2
    MaxPlugOuts = 1
INVARIANTS
    TypeOK
    InStep
    ReachesChannel
    EnabledUnlessOvertaken
PROPERTY AllHandedOver
CHECK_DEADLOCK FALSE
