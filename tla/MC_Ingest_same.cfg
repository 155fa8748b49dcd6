SPECIFICATION FairSpec
CONSTANTS
    r1 = r1
    r2 = r2
    Reqs = {r1, r2}
    Event <- SameEvent
    NoRow = NoRow
    StoreLimit = 1
    ChanCap = 1
INVARIANTS TypeOK AnsweredIsRecorded MixedRowNeedsRace StoreIsRecentHistory ExactlyOnceFeed
PROPERTIES NoSerialReprocessing EveryRequestEnds
