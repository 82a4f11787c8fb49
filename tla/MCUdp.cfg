SPECIFICATION FairSpec
CONSTANTS
    Queries = {q1, q2, q3}
    Threads = {w1, w2}
    NoCall = NoCall
    Orphan = Orphan
    max_inflight = 2
    timeout_s = 2
    MaxQueue = 3
    MaxTime = 4
INVARIANTS
    SlotsAreExact
    OnePlace
    LimitedIsTimely
PROPERTIES
    EveryQueryEnds
    ClosedSendsNothing
CHECK_DEADLOCK FALSE
