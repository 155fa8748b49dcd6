SPECIFICATION Spec
CONSTANTS
    e1 = e1
    e2 = e2
    e3 = e3
    c1 = c1
    c2 = c2
    Events = {e1, e2}
    Clients = {c1, c2}
    ChanCap = 1
    RecentLimit = 1
    SockCap = 1
    None = None
PROPERTIES MapStableWhileRanged FeedIsKept
INVARIANTS TypeOK NoGap WritesOnlyToMembers
SYMMETRY Symmetric
CHECK_DEADLOCK FALSE
