SPECIFICATION ChatSpec
CONSTANTS
    Procs = {p1, p2}
    Users = {ann}
    Admins = {}
    Sessions = {s1}
    Challenges = {c1}
    MaxMessages = 1
    TurnBound = 3
    Hazards = {"overlap", "straddle", "fault"}
    Nothing = Nothing
SYMMETRY MCSymmetry
INVARIANTS
    HistoryIsBounded
    ExpiryIsComing
