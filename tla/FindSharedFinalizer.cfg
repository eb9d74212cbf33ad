SPECIFICATION Spec
CONSTANTS
    Nodes = {n1, n2}
    Configs = {1}
    Objects = {o1, o2}
    Specs = {{o1}}
    Revisions = {}
    Rejected = {}
    Neighbors = {o1, o2}
    Ties = FALSE
    MaxCreates = 1
    MaxEdits = 0
    MaxFaults = 0
INVARIANTS NothingOrphaned
CHECK_DEADLOCK FALSE
