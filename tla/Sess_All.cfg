SPECIFICATION FairSpec
CONSTANTS
    Session = {s1, s2}
    Worker = {w1, w2}
    None = none
    MaxRpcs = 2
    MaxFaults = 1
    MaxTimeouts = 1
INVARIANT TypeOK
INVARIANT RefsExact
INVARIANT WaitingIsSafe
PROPERTY EndedIsFreed
CHECK_DEADLOCK FALSE
