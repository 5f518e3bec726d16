CONSTANTS
    s1 = s1
    s2 = s2
    None = None
    Name <- MCName
    ModuleOf <- MCModuleOf
    KeyLeaf <- MCKeyLeaf
    ConfigFalse = {"x"}
    Session = {s1, s2}
    Content <- MCContent
    Operational <- MCOperational
    URL = {"u1"}
    Hidden <- MCHidden
    ReadOnly = {s1}
    NoExec = {}
    GetFilter <- MCGetFilter
    MaxCalls = 2
    MaxFaults = 1
SPECIFICATION Spec
INVARIANTS TypeOK  UploadsReadable FilterExact
PROPERTIES WritesChecked  
CHECK_DEADLOCK FALSE
