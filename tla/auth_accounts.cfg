SPECIFICATION Spec
CONSTANTS
    Procs = {p1, p2}
    Names = {ann}
    Passwords = {old, new}
    Keep = Keep
    NoUser = NoUser
    NoToken = NoToken
    RefreshIds = {r1, r2}
    AccessIds = {a1, a2}
    MaxFailures = 1
    TryBound = 1
    VersionBound = 2
    MayOverlap = {}
    Recreate = FALSE
    Endpoints = {"register", "login", "refresh", "changePassword", "update", "delete"}
SYMMETRY MCSymmetry
INVARIANTS
    ConfirmedEndIsFinal
    TokensFollowPassword
