SPECIFICATION PromptSpec
CONSTANTS
    Clients = {c1, c2}
    Workers = {w1}
    Keys = {k1}
    Responses <- OneAnswer
    NoEntry = NoEntry
    serve_stale_max_s = 1
    negative_ttl_s = 1
    max_entries = 0
    HIT_CAP = 1
    MaxTime = 6
    Tasks = {t1, t2, t3}
    NoTask = NoTask
    NoKey = NoKey
    None = None
    Cancelled = Cancelled
    refresh_enabled = FALSE
    refresh_queue_max = 2
    refresh_ahead_seconds = 1
    refresh_popularity_threshold = 1
    refresh_popularity_decay_seconds = 0
    refresh_batch_size = 1
    Warmup <- NoWarmup
PROPERTIES
    ServfailOnlyWithoutAnswer
