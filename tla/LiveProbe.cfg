SPECIFICATION MCSpec
CONSTANTS
    Workers = {w1, w2}
    Keys = {k1}
    Versions = {v1}
    Built = {v1}
    ProbeKey = k1
    MaxRequests = 3
    MaxPlain = 0
    MaxOverlaps = 1
    MaxTroubles = 0
    MaxEdits = 0
    MaxCrashes = 0
INVARIANT
    NotRequiredIsTrue
CHECK_DEADLOCK FALSE
