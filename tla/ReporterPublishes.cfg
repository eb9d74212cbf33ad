SPECIFICATION Spec
CONSTANTS
    p1 = p1
    p2 = p2
    a1 = a1
    r1 = r1
    v1 = v1
    Nil = Nil
    Peers = {p1, p2}
    Addresses = {a1}
    Routes = {r1}
    Views = {v1}
    MaxNeighbors = 2
    MaxImported = 1
    MaxExported = 1
    Worlds <- ExportWorlds
    Identities = {1}
    Heartbeats = {4}
    DefaultHeartbeat = 4
    CollectMax = 1
    EnsureAttempts = 2
    MayDisable = FALSE
    MayStop = FALSE
    ApiFaults = TRUE
    LostReplies = TRUE
    RpcFaults = {}
    Lag = TRUE
INVARIANTS TypeOK ChangeIsPublished HeartbeatAdvances
