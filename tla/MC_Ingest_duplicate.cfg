SPECIFICATION Spec
CONSTANTS
    r1 = r1
    r2 = r2
    Reqs = {r1, r2}
    Event <- TwoFiles
    NoRow = NoRow
    StoreLimit = 2
    ChanCap = 1
PROPERTIES DuplicateIsTheSameEvent
