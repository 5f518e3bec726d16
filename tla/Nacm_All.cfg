CONSTANTS
    u1 = u1
    l1 = l1
    l2 = l2
    r1 = r1
    r2 = r2
    User = {u1}
    Recovery = {}
    SystemGroups <- MCSystem
    Group = {3, 25}
    ListName = {l1, l2}
    RuleName = {r1, r2}
    Longer = {}
    Body <- MCBody
    Data <- MCData
    Key <- MCKey
    DenyAll <- MCDenyAll
    DenyWrite <- MCDenyWrite
    Module = "m"
    Operation <- MCOperation
    Diff <- MCDiff
    Star = Star
    None = None
    MaxLists = 2
    MaxRules = 2
    MaxEdits = 3
    MaxDenied = 1
SPECIFICATION Spec
INVARIANTS TypeOK    
SYMMETRY MCSymmetry
CHECK_DEADLOCK FALSE
