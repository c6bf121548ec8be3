SPECIFICATION FairSpec
CONSTANTS
    MaxLast = 2
    ChannelCapacity = 2
    PageSize = 2
    TornSync = FALSE
    MaxDecryptRetries = 2
    MaxDrops = 0
    MaxFailures = 1
PROPERTIES
    FailedIsRetried
CHECK_DEADLOCK FALSE
