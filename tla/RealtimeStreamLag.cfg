SPECIFICATION Spec
CONSTANTS
    MaxLast = 4
    ChannelCapacity = 1
    PageSize = 2
    TornSync = FALSE
    MaxDecryptRetries = 2
    MaxDrops = 0
    MaxFailures = 0
INVARIANTS
    NoEventSkipped
CHECK_DEADLOCK FALSE
