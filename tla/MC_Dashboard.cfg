SPECIFICATION FairSpec
CONSTANTS
    e1 = e1
    e2 = e2
    e3 = e3
    Events = {e1, e2, e3}
    Row <- MCRow
    Early = {e1, e2}
    Levels = {3}
    All = All
    Limit = 2
    MaxFetches = 2
    MaxChanges = 1
    None = None
INVARIANTS TypeOK NewestAreShown TableShowsList SessionsAreRight
PROPERTIES EveryEventIsShown
CHECK_DEADLOCK FALSE
