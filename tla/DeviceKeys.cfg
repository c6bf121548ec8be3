SPECIFICATION FairSpec
CONSTANTS
    d1 = d1
    d2 = d2
    Devices = {d1, d2}
    Peer = Peer
    Account = Account
    Phones = {d2}
    MaxRetries = 2
    MaxMessages = 2
    MaxLog = 2
    MaxSessions = 2
    MaxFaults = 1
INVARIANTS PassedOnlyAfterRetries
PROPERTIES StuckOnlyOnMixed
CHECK_DEADLOCK FALSE
