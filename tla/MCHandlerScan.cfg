SPECIFICATION Spec
CONSTANTS
    Clients = {c1}
    Workers = {w1, w2}
    Keys = {k1, k2}
    Responses <- ShortAnswer
    NoEntry = NoEntry
    serve_stale_max_s = 1
    negative_ttl_s = 1
    max_entries = 1
    HIT_CAP = 1
    MaxTime = 2
    Tasks = {t1, t2}
    NoTask = NoTask
    NoKey = NoKey
    None = None
    Cancelled = Cancelled
    refresh_enabled = TRUE
    refresh_queue_max = 1
    refresh_ahead_seconds = 1
    refresh_popularity_threshold = 1
    refresh_popularity_decay_seconds = 1
    refresh_batch_size = 1
    Warmup <- OneWarmup
SYMMETRY Symmetry
INVARIANTS
    WaitersAttached
    MarksAreBacked
PROPERTIES
    StaleIsRevalidated
    ImplementsCache
    ImplementsSingleFlight
