SPECIFICATION Spec
CONSTANTS
    Procs = {p1, p2}
    Names = {ann}
    Passwords = {old}
    Keep = Keep
    NoUser = NoUser
    NoToken = NoToken
    RefreshIds = {r1, r2, r3}
    AccessIds = {a1, a2, a3}
    MaxFailures = 2
    TryBound = 1
    VersionBound = 1
    MayOverlap = {"login", "logoutAll"}
    Recreate = FALSE
    Endpoints = {"register", "login", "logoutAll", "me"}
SYMMETRY MCSymmetry
INVARIANT ConfirmedEndIsFinal
