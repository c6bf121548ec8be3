SPECIFICATION Spec
CONSTANTS
    t1 = t1
    t2 = t2
    m1 = m1
    m2 = m2
    None = None
    Tabs <- TwoTabs
    Messages <- TwoMessages
    SessionViews <- Views
    OpenTabs <- OneOrTwo
    MaxEntries = 2
    Files <- OnlyM2
    Limits <- SmallLimits
PROPERTY SavedIsKept
CHECK_DEADLOCK FALSE
