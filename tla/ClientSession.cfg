SPECIFICATION FairSpec
CONSTANTS
    Platforms = {"desktop", "mobile"}
    PageSize = 1
    MaxLast = 2
    MaxMoves = 2
    MaxFailures = 1
    MaxSessions = 1
INVARIANTS
    QuietWhenSuspended
    StaysConnected
    PresenceFollows
PROPERTIES
    SilenceIsNoticed
    SocketCatchesUp
CHECK_DEADLOCK FALSE
