SPECIFICATION Spec
CONSTANTS
    Calls = {i1, i2}
    Infos <- MCInfos
    NoInfo = NoInfo
    Replies <- MCReplies
    WireSizes = {0, 1, 3, 4, 6}
    Envelope = 2
    client <- MCClient
    NoLimits = NoLimits
    api_version = 1
    MaxRequests = 2
CHECK_DEADLOCK FALSE
INVARIANTS
    EveryPostIsAccountedFor
    PostsFitTheRelay
