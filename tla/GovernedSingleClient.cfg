SPECIFICATION Spec
CONSTANTS
    Workers = {w1}
    Tasks = {t1}
    Keys = {k1}
    Categories = {c1}
    NoKey = NoKey
    NoTask = NoTask
    MaxVersion = 4
    MaxAudit = 8
    MaxClock = 5
INVARIANT
    TaskChainIntact
PROPERTY
    ImplementsGovernedTasks
CHECK_DEADLOCK FALSE
