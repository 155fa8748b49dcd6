SPECIFICATION FairSpec
CONSTANTS
    e1 = e1
    e2 = e2
    e4 = e4
    e5 = e5
    Events = {e1, e2, e4, e5}
    SelfEvents = {e4}
    Whitelisted = {e5}
    RingCap = 2
    MaxSends = 1
INVARIANTS TypeOK SlotsAreOfSenders RecordedAtMostOnce NoFeedback RingIsBuffered
PROPERTIES EveryEventEnds DeliversAtMostOnce
CHECK_DEADLOCK FALSE
