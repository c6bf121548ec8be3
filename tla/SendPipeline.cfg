SPECIFICATION Spec
CONSTANTS
    h1 = h1
    h2 = h2
    p1 = p1
    p2 = p2
    o1 = o1
    o2 = o2
    Attempts <- TwoAttempts
    PeerKeys <- TwoPeerKeys
    OwnKeys <- OneOwnKey
    Device = o1
    Batches <- ToThePeer
    Urls = 2
    MaxChanges = 2
SYMMETRY Symmetry
INVARIANTS
    AcceptedIsDelivered
    PeerNeverAhead
    BlockedGetsNothing
    RevokedIsLeftOut
CHECK_DEADLOCK FALSE
