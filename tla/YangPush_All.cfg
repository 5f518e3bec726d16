CONSTANTS
    t = t
    u = u
    v1 = v1
    v2 = v2
    None = None
    Target = {t, u}
    UserOrdered = {u}
    Value = {v1, v2}
    MaxDamp = 2
    MaxCommits = 4
    MaxQueue = 2
    MaxRpcs = 1
    MaxLost = 1
    Times = {3, 7}
    Periods = {1, 3}
SPECIFICATION Spec
INVARIANTS TypeOK  PendingScheduled Dampened 
CHECK_DEADLOCK FALSE
SYMMETRY MCSymmetry
