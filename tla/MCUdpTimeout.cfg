SPECIFICATION Spec
CONSTANTS
    Queries = {q1, q2}
    Threads = {w1}
    NoCall = NoCall
    Orphan = Orphan
    max_inflight = 0
    timeout_s = 1
    MaxQueue = 3
    MaxTime = 3
INVARIANTS
    CallsAreTimely
CHECK_DEADLOCK FALSE
