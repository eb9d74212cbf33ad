SPECIFICATION FairSpec
CONSTANTS
    p1 = p1
    p2 = p2
    a1 = a1
    r1 = r1
    v1 = v1
    Nil = Nil
    Peers = {p1, p2}
    Addresses = {a1}
    Routes = {r1}
    Views = {v1}
    MaxNeighbors = 2
    MaxImported = 1
    MaxExported = 1
    Worlds <- FineOnly
    Identities = {1}
    Heartbeats = {2}
    DefaultHeartbeat = 2
    CollectMax = 0
    EnsureAttempts = 2
    MayDisable = TRUE
    MayStop = TRUE
    ApiFaults = FALSE
    LostReplies = FALSE
    RpcFaults = {}
    Lag = FALSE
INVARIANTS StoppedIsMarked ChangeIsPublished
PROPERTIES CancelStops
