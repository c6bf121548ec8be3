SPECIFICATION Spec
CONSTANTS
    MaxLast = 3
    ChannelCapacity = 3
    PageSize = 2
    TornSync = FALSE
    MaxDecryptRetries = 2
    MaxDrops = 1
    MaxFailures = 2
INVARIANTS
    NoEventSkipped
CHECK_DEADLOCK FALSE
