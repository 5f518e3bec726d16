SPECIFICATION Spec
CONSTANTS
    empty = empty
    one = one
    two = two
    NoData = empty
    Printed <- MCPrinted
    Rpc = rpc
    NoVal = noval
    Torn = torn
    NoTimer = notimer
    NoId = noid
    Modules = {m1, m2}
    Values = {empty, one}
    Timers = {t1, t2}
    Ids = {p1}
    Edit1Access = "rw"
    MaxRpcs = 2
    MaxFaults = 1
SYMMETRY MCSymmetry
INVARIANT TypeOK
INVARIANT BackupsIntact
INVARIANT RollbackComplete
PROPERTY RestoresBackup
PROPERTY KeepsPromise
