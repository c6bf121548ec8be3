SPECIFICATION Spec
CONSTANTS
    a1 = a1
    a2 = a2
    s1 = s1
    s2 = s2
    s3 = s3
    s4 = s4
    Accounts <- OneAccount
    Sessions <- TwoSessions
    MaxConnections = 3
    MaxPerAccount = 2
INVARIANTS
    OnlineUntilLastCloses
