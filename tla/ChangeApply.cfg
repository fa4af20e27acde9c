SPECIFICATION Spec
CONSTANTS
    Plans = {q1}
    Proposals = {p1, p2}
    Implementations = {i1, i2}
    Files = {f1, f2}
    Contents = {a, b}
    Torn = Torn
    Nothing = Nothing
    MaxEdits = 1
    MaxFaults = 2
SYMMETRY Symmetry
CONSTRAINT Bounded
INVARIANTS
    BackupIsPreimage
    HumanReleased
    FlagNeverAhead
PROPERTIES
    FailedApplyRestores
    RollbackIsGuarded
CHECK_DEADLOCK FALSE
