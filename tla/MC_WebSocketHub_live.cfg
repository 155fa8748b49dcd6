SPECIFICATION DrainSpec
CONSTANTS
    e1 = e1
    e2 = e2
    e3 = e3
    c1 = c1
    c2 = c2
    Events = {e1, e2}
    Clients = {c1}
    ChanCap = 1
    RecentLimit = 1
    SockCap = 1
    None = None
PROPERTIES EveryEventIsBroadcast GoneClientIsRemoved EveryClientIsGreeted
CHECK_DEADLOCK FALSE
