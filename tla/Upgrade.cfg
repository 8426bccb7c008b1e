SPECIFICATION FairSpec
CONSTANTS
    Files <- MCFiles
    Size <- MCSize
    Good <- MCGood
    UPGRADE_DATACHUNK_SIZE = 2
    UPGRADE_MAX_BLOCKARRAYSIZE = 1
    UINT16 = 2
    Leftovers = {"large"}
    MaxUploads = 2
    MaxOther = 1
    MaxLosses = 1
    MaxAcks = 1
INVARIANTS
    TypeOK
    BlocksInPlace
PROPERTIES
    OkMeansComplete
    UploadEnds
CHECK_DEADLOCK FALSE
