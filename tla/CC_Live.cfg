SPECIFICATION FairSpec
CONSTANTS
    empty = empty
    one = one
    two = two
    NoData = empty
    Printed <- MCPrinted
    Rpc = rpc
    NoVal = noval
    Torn = torn
    NoTimer = notimer
    NoId = noid
    Modules = {m1, m2}
    Values = {empty, one}
    Timers = {t1}
    Ids = {p1}
    Edit1Access = "rw"
    MaxRpcs = 2
    MaxFaults = 0
PROPERTY RollbackHappens
PROPERTY RpcReturns
