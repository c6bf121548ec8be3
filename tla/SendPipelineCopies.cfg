SPECIFICATION Spec
CONSTANTS
    h1 = h1
    h2 = h2
    p1 = p1
    p2 = p2
    o1 = o1
    o2 = o2
    Attempts <- TwoAttempts
    PeerKeys <- NoKeys
    OwnKeys <- TwoOwnKeys
    Device = o1
    Batches <- ToFavorites
    Urls = 1
    MaxChanges = 0
INVARIANTS
    EveryCopyIsKept
CHECK_DEADLOCK FALSE
