SPECIFICATION Spec
CONSTANTS
    MaxLast = 2
    ChannelCapacity = 2
    PageSize = 2
    TornSync = TRUE
    MaxDecryptRetries = 2
    MaxDrops = 0
    MaxFailures = 0
INVARIANTS
    NoEventSkipped
CHECK_DEADLOCK FALSE
