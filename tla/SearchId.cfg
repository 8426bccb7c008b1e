SPECIFICATION FairSearchSpec
CONSTANTS
    MaxRequests = 3
    MaxQueue = 3
INVARIANTS
    SearchTypeOK
    FullTime
    FlagIsTrue
PROPERTY SearchEnds
CHECK_DEADLOCK FALSE
