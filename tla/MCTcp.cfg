SPECIFICATION FairSpec
CONSTANTS
    Queries = {q1, q2, q3}
    Conns = {s1, s2}
    NoConn = NoConn
    Closer = Closer
    max_inflight = 2
    pool_max_conns = 1
    pool_idle_timeout_s = 1
    MaxOwed = 2
    MaxTime = 2
INVARIANTS
    InflightExact
    OneUser
    NoLeakedConnection
    OneInFlightUntilStop
    ClosedPoolIsEmpty
PROPERTIES
    OnlyCancelForgets
    EveryQueryEnds
CHECK_DEADLOCK FALSE
