SPECIFICATION FairSpec
CONSTANTS
    Servers = {"udp", "tcp", "metrics"}
    Datagrams = {d1, d2}
    Conns = {c1}
    Flights = {t1, t2}
    NoFlight = NoFlight
    NoAnswer = NoAnswer
    NoConfig = NoConfig
    max_inflight = 1
    waits = TRUE
    Args <- MCArgs
    refresh_enabled = TRUE
    refresh_warmup_enabled = TRUE
    relay_checked = TRUE
CHECK_DEADLOCK FALSE
INVARIANTS
    InflightBound
    WaitsAreBacked
    ReadyOnlyAfterListeners
    UpstreamClosedLast
    ExitClosesUpstream
    NothingAsksTheClosed
PROPERTIES
    StartupEnds
    EveryRequestEnds
    StopLeadsToExit
