SPECIFICATION Spec
CONSTANTS
    Workers = {w1, w2}
    Slots = {t1, t2}
    Rules = {r1}
    Keys = {k1}
    Projects = {p1, p2, p3}
    Fingerprints = {f1, f2}
    Designs = {d1, d2}
    MaxFailures = 2
    MaxReviews = 1
    MaxCheckpoints = 1
    MaxIdentities = 2
    MaxRequests = 3
    MaxCrashes = 1
SYMMETRY Symmetry
INVARIANTS
    BoardConsistent
    LogTellsState
    AttemptsGuarded
    PointersResolve
    SimilarIsFlagged
CHECK_DEADLOCK FALSE
