SPECIFICATION UserSpec
CONSTANTS
    Procs = {p1, p2}
    Names = {ann}
    Passwords = {old, new}
    Keep = Keep
    NoUser = NoUser
    Overlap = FALSE
    MaxFailures = 2
    TryBound = 2
    VersionBound = 2
SYMMETRY MCSymmetry
INVARIANTS
    EveryUserListed
PROPERTIES
    ImplementsAccounts
