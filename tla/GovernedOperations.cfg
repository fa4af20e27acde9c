SPECIFICATION Spec
CONSTANTS
    Workers = {w1, w2}
    Tasks = {t1, t2}
    Keys = {k1, k2}
    Categories = {c1}
    NoKey = NoKey
    NoTask = NoTask
    MaxVersion = 3
    MaxAudit = 5
    MaxClock = 4
SYMMETRY Symmetry
CONSTRAINTS OneTaskUnlessCreating Timely
INVARIANTS
    TypeOK
    AuditChainIntact
    ApprovalHasEvidence
    LastReviewDecides
    AuditCoversTables
    SameKeySameTask
    BoundOnceAndFirst
CHECK_DEADLOCK FALSE
