SPECIFICATION Spec
CONSTANTS
    Values = {0, 1, 2}
    Nil = Nil
    SecretRef = SecretRef
    Specs <- PartSpecs
    MaxEdits = 2
    MaxFaults = 1
INVARIANTS TypeOK StatedTakesEffect ClearedIsReset AuthenticatedAsStated
    NothingToResend
