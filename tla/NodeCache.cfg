SPECIFICATION FairSpec
CONSTANTS
    None = None
    Labels = {l1, l2}
    AddressSets = {{}, {"internal4", "external4"}}
    Annotations = {"valid", "bad"}
    Modes = {"explicit", "external", "annotation", "auto"}
    Ones = {0, 2}
    Width = 4
    Hashes = {15}
    TTL = 1
    Deadline = 1
    MayRecreate = TRUE
    MayRestart = TRUE
    MayEvents = TRUE
    ApiFaults = TRUE
    MaxChanges = 1
    MaxEdits = 1
INVARIANTS TypeOK CopyIsRecent HashInPool IdentityIsStable
PROPERTIES LabelsTakeEffectUnlessRaced WorkerIsFreed
