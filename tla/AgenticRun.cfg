SPECIFICATION Spec
CONSTANTS
    Runs = {1, 2, 3}
    Paths = {1, 2}
    Sizes = {1, 2}
    Directory = Directory
    Absent = Absent
    Requests <- BothRequests
    NoRun = NoRun
    MaxEdits = 2
    MaxCrashes = 1
CONSTRAINT Chained
INVARIANTS
    TypeOK
    WithinAuthority
    ResumeExtends
    InterruptedHasCheckpoint
    ResumeIsTransparent
PROPERTY
    RunEnds
CHECK_DEADLOCK FALSE
