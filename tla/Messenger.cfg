SPECIFICATION Spec
CONSTANTS
    a = a
    b = b
    a1 = a1
    a2 = a2
    b1 = b1
    None = None
    Profiles <- TwoProfiles
    Chats <- ThreeChats
    Owner <- OwnerOf
    MaxCalls <- CallsAtOnce
    Entries <- ThreeEntries
    Current = 1
    Limit <- OneMessage
    Servers <- TwoServers
    MaxSearches = 2
    MaxChanges = 3
    MaxEdits = 3
    MaxFaults = 1
    MaxReads = 1
    MaxOthers = 1
    MaxEvents = 3
    MaxSyncs = 1
    MaxUnread = 1
    Calls = {1, 2}
    MaxKeys = 4
    MaxOutages = 2
    MaxSends = 4
    MaxForwards = 2
    MaxRuns = 3
    MaxPages = 2
    MaxAsked = 4
    Limits = {0, 1, 2}
    MemoryLimit = 2
    MaxLast = 3
    MaxWrites = 2
    MaxStarts = 3
    MaxClears = 1
    MaxPending = 2
INVARIANTS
    QuoteStaysInChat
    SettledIsTrue
    EditsAgree
    KeyStays
    OnlyTheLastRunShows
    ComposerWaits
    PageIsHonest
    KeepsWhatItHasSeen
    ClearedIsGone
PROPERTIES
    SearchNeverGoesBack
    NoAnswerUndoesAChoice
CHECK_DEADLOCK FALSE
