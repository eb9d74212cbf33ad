SPECIFICATION Spec
CONSTANTS
    Values = {0, 1, 2}
    Nil = Nil
    Bad = Bad
    Specs <- MCSpecs
    MaxEdits = 3
    MaxFaults = 2
INVARIANTS FlagsAreTrue NetlinkAsStated NetlinkIsQuiet
CHECK_DEADLOCK FALSE
