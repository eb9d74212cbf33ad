SPECIFICATION FairSpec
CONSTANTS
    set = set
    policy = policy
    vrf = vrf
    group = group
    range = range
    inGroup = inGroup
    alone = alone
    dynamic = dynamic
    None = None
    Sets = {set}
    Policies = {policy}
    Vrfs = {vrf}
    Groups = {group}
    Ranges = {range}
    Peers = {inGroup, alone, dynamic}
    Versions = {"a", "b"}
    Uses <- UsesOf
    InRange <- OnlyDynamic
    Specs <- Any
    Selectable = {inGroup}
    Strict = TRUE
    BrokenStreams = TRUE
    CallFaults = TRUE
    MaxEdits = 2
    MaxFaults = 2
INVARIANTS SuccessIsExact
PROPERTIES DynamicSessionsSurvive RightSpeaker ReleasedIsEmpty Settles PassesKeepContract
CHECK_DEADLOCK FALSE
