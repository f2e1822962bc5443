SPECIFICATION Spec
CONSTANTS
    Procs = {p1, p2}
    Names = {ann}
    Passwords = {old}
    Keep = Keep
    NoUser = NoUser
    NoToken = NoToken
    RefreshIds = {r1, r2}
    AccessIds = {a1, a2}
    MaxFailures = 2
    TryBound = 1
    VersionBound = 1
    MayOverlap = {"login"}
    Recreate = FALSE
    Endpoints = {"register", "login", "refresh", "logout", "logoutAll", "me"}
SYMMETRY MCSymmetry
INVARIANTS
    ApiTypeOK
    ConfirmedEndIsFinal
    ExchangedIsSpent
