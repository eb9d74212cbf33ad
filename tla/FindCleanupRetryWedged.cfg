SPECIFICATION FairSpec
CONSTANTS
    set = set
    policy = policy
    vrf = vrf
    group = group
    range = range
    inGroup = inGroup
    alone = alone
    dynamic = dynamic
    None = None
    Sets = {set}
    Policies = {policy}
    Vrfs = {vrf}
    Groups = {group}
    Ranges = {range}
    Peers = {inGroup, alone, dynamic}
    Versions = {"a", "b"}
    Uses <- UsesOf
    InRange <- OnlyDynamic
    Specs <- NoPeers
    Selectable = {}
    Strict = TRUE
    BrokenStreams = FALSE
    CallFaults = FALSE
    MaxEdits = 0
    MaxFaults = 1
PROPERTIES DeletionCompletes
CHECK_DEADLOCK FALSE
