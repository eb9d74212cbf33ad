SPECIFICATION Spec
CONSTANTS
    p1 = p1
    p2 = p2
    a1 = a1
    r1 = r1
    v1 = v1
    Nil = Nil
    Peers = {p1, p2}
    Addresses = {a1}
    Routes = {r1}
    Views = {v1}
    MaxNeighbors = 2
    MaxImported = 1
    MaxExported = 1
    Worlds <- DownOnly
    Identities = {1, 2}
    Heartbeats = {2, 3}
    DefaultHeartbeat = 2
    CollectMax = 1
    EnsureAttempts = 2
    MayDisable = FALSE
    MayStop = FALSE
    ApiFaults = FALSE
    LostReplies = FALSE
    RpcFaults = {"neighbors"}
    Lag = TRUE
INVARIANTS MemoryIsPublished ChangeIsPublished
