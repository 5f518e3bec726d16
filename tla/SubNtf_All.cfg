CONSTANTS
    s1 = s1
    s2 = s2
    m1 = m1
    m2 = m2
    f1 = f1
    None = None
    Session = {s1, s2}
    Module = {m1, m2}
    Streams = {{m1, m2}}
    Filter = {f1}
    PushFilter = {}
    MaxSubs = 2
    MaxChanges = 1
    MaxInputs = 3
    MaxEnds = 1
    MaxFaults = 1
SPECIFICATION Spec
INVARIANTS TypeOK SysrepoMatches StatusExact 
CHECK_DEADLOCK FALSE
SYMMETRY MCSymmetry
