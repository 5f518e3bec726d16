CONSTANTS
    s1 = s1
    s2 = s2
    m1 = m1
    m2 = m2
    f1 = f1
    None = None
    Session = {s1}
    Module = {m1}
    Streams = {{m1}}
    Filter = {f1}
    PushFilter = {}
    MaxSubs = 2
    MaxChanges = 1
    MaxInputs = 3
    MaxEnds = 1
    MaxFaults = 0
SPECIFICATION FairSpec
PROPERTY EveryoneReturns
CHECK_DEADLOCK FALSE
