SPECIFICATION MCSpec
CONSTANTS
    Workers = {w1, w2}
    Tools = {tool}
    MaxBinary = 2
    MaxRequests = 4
    MaxOverlaps = 1
    MaxReplacements = 1
    MaxCrashes = 1
    MaxFailures = 1
SYMMETRY Symmetry
CONSTRAINT Short
INVARIANTS
    TypeOK
    BaselineEarned
    QuarantineWithdraws
PROPERTY
    SuspensionLasts
CHECK_DEADLOCK FALSE
