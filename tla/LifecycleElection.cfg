SPECIFICATION Spec
CONSTANTS
    Nodes = {n1, n2}
    Configs = {1, 2}
    Objects = {o1}
    Specs = {{o1}}
    Revisions = {}
    Rejected = {}
    Neighbors = {}
    Ties = TRUE
    MaxCreates = 2
    MaxEdits = 0
    MaxFaults = 0
SYMMETRY Symmetry
INVARIANTS CleanupSparesOwner
PROPERTIES OwnershipMovesOnlyInATie
CHECK_DEADLOCK FALSE
