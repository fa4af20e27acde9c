SPECIFICATION Spec
CONSTANTS
    Workers = {w1, w2}
    Tasks = {t1}
    Keys = {k1}
    Categories = {c1}
    NoKey = NoKey
    NoTask = NoTask
    MaxVersion = 3
    MaxAudit = 5
    MaxClock = 4
PROPERTY
    OptimisticGuard
CHECK_DEADLOCK FALSE
