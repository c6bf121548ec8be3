SPECIFICATION Spec
CONSTANTS
    Platforms = {"desktop"}
    Limits = {2}
    MemoryLimit = 2
    MaxLast = 2
    MaxWrites = 2
    MaxRuns = 2
    MaxClears = 1
    MaxPending = 2
INVARIANT ClearedStaysAway
CHECK_DEADLOCK FALSE
