SPECIFICATION MCSpec
CONSTANTS
    Workers = {w1, w2}
    Keys = {k1, k2}
    Versions = {v1, v2}
    Built = {v1}
    ProbeKey = k1
    MaxRequests = 4
    MaxPlain = 3
    MaxOverlaps = 1
    MaxTroubles = 2
    MaxEdits = 2
    MaxCrashes = 1
INVARIANTS
    CandidateIsWhole
    OneSource
    LatestResolves
    ReviewLogged
    SettingsPutBack
PROPERTY
    RequestsEnd
CHECK_DEADLOCK FALSE
