SPECIFICATION FairSpec
CONSTANTS
    MaxLast = 2
    ChannelCapacity = 1
    PageSize = 1
    TornSync = TRUE
    MaxDecryptRetries = 2
    MaxDrops = 1
    MaxFailures = 0
INVARIANTS
    NoLostWakeup
PROPERTIES
    InFlightArrives
    CatchesUpAfterDrop
CHECK_DEADLOCK FALSE
