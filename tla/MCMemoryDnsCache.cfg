SPECIFICATION LoopSpec
CONSTANTS
    Keys = {k1, k2, k3}
    Responses <- MCResponses
    NoEntry = NoEntry
    serve_stale_max_s = 1
    negative_ttl_s = 2
    max_entries = 2
    HIT_CAP = 2
    MaxTime = 5
SYMMETRY Symmetry
INVARIANTS
    CapacityBound
    OrderIsRecency
PROPERTIES
    ServableOutlivesDead
    PutIsKept
    LoopsImplementPut
