SPECIFICATION FairSpec
CONSTANTS
    Platforms = {"desktop"}
    PageSize = 1
    MaxLast = 3
    MaxMoves = 0
    MaxFailures = 0
    MaxSessions = 1
PROPERTY CatchesUp
CHECK_DEADLOCK FALSE
