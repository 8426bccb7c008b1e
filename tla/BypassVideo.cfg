SPECIFICATION FairSpec
CONSTANTS
    Channels <- MCChannels
    FileChunks = 2
    MaxCommands = 5
    MaxPlugs = 2
INVARIANTS
    TypeOK
    FileInStep
    WritesEnabled
PROPERTIES
    FollowsChannel
CHECK_DEADLOCK FALSE
