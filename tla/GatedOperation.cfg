SPECIFICATION MCSpec
CONSTANTS
    Workers = {w1, w2}
    Tasks = {t1}
    Preparable <- ScanPreparable
    GatesCreation = TRUE
    NeedsAdmission = TRUE
    MaxPin = 2
    MaxRequests = 7
    MaxOverlaps = 1
    MaxChanges = 1
    MaxCrashes = 1
SYMMETRY Symmetry
INVARIANTS
    ApprovedRuns
    ApprovalSpent
    RunAsApproved
    FilesAgree
CHECK_DEADLOCK FALSE
