SPECIFICATION MetricsSpec
CONSTANTS
    Nodes = {n1, n2}
    Configs = {1}
    Objects = {o1, o2}
    Specs = {{o1}, {o2}}
    Revisions = {{o1}, {o2}}
    Rejected = {}
    Neighbors = {}
    Ties = FALSE
    MaxCreates = 2
    MaxEdits = 1
    MaxFaults = 1
SYMMETRY Symmetry
INVARIANTS ReleaseIsClean ProgramsUnderFinalizer GoneIsSilent NotReadyIsRetried ReadyIsCurrent ReadyMeansApplied
PROPERTIES AgentsKeepUserWrites
CHECK_DEADLOCK FALSE
