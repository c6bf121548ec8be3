SPECIFICATION FairSpec
CONSTANTS
    t1 = t1
    t2 = t2
    m1 = m1
    m2 = m2
    None = None
    Tabs <- TwoTabs
    Messages <- TwoMessages
    SessionViews <- Views
    OpenTabs <- OneTab
    MaxEntries = 2
    Files <- OnlyM2
    Limits <- SmallLimits
PROPERTY SentOnceBack
CHECK_DEADLOCK FALSE
