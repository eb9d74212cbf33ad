SPECIFICATION FairSpec
CONSTANTS
    Nodes = {n1}
    Configs = {1, 2}
    Objects = {o1, o2}
    Specs = {{o1}, {o2}}
    Revisions = {}
    Rejected = {o2}
    Neighbors = {o2}
    Ties = FALSE
    MaxCreates = 3
    MaxEdits = 0
    MaxFaults = 2
PROPERTIES GoneOnlyAfterCleanup Converges DeletionCompletes
CHECK_DEADLOCK FALSE
