SPECIFICATION Spec
CONSTANTS
    Plans = {q1}
    Proposals = {p1}
    Implementations = {i1}
    Files = {f1, f2}
    Contents = {a, b}
    Torn = Torn
    Nothing = Nothing
    MaxEdits = 0
    MaxFaults = 1
SYMMETRY Symmetry
INVARIANT
    RewrittenCanBeRolledBack
CHECK_DEADLOCK FALSE
