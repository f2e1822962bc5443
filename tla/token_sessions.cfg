SPECIFICATION TokenSpec
CONSTANTS
    Procs = {p1, p2}
    Names = {ann}
    RefreshIds = {r1, r2}
    AccessIds = {a1}
    NoToken = NoToken
    Overlap = FALSE
    VersionBound = 0
SYMMETRY MCSymmetry
INVARIANTS
    LiveIsIndexed
    SweepIsComplete
PROPERTIES
    EndedStaysEnded
