SPECIFICATION Spec
CONSTANTS
    Workers = {w1}
    Tools = {tool}
    MaxBinary = 2
    MaxRequests = 5
    MaxOverlaps = 0
    MaxReplacements = 1
    MaxCrashes = 0
    MaxFailures = 0
INVARIANT
    DriftNeedsRevalidation
CHECK_DEADLOCK FALSE
