SPECIFICATION FairSpec
CONSTANTS
    Platforms = {"mobile"}
    PageSize = 1
    MaxLast = 1
    MaxMoves = 0
    MaxFailures = 0
    MaxSessions = 1
PROPERTIES
    CatchesUp
CHECK_DEADLOCK FALSE
