CONSTANTS
    alice = alice
    bob = bob
    remote = remote
    m1 = m1
    m2 = m2
    m3 = m3
    Accounts <- MCAccounts
    RemotePeers <- MCRemotePeers
    Messages = {m1, m2, m3}
    SenderOf <- MCSenderOf
    Keys = {k1}
    Times = {1, 2}
    MaxSyncEvents = 1
    MaxEvents = 2
    MaxConversations = 6
SPECIFICATION Spec
INVARIANTS LogMirrorsRows DeliveredOnceAndTruly ReadReceiptsGoForward ReadReceiptsAreTrue PagesDoNotSkip
PROPERTY ImplementsEventLog
CONSTRAINT BoundedLog
\* Every account may be deleted, and then nothing happens any more.
CHECK_DEADLOCK FALSE
