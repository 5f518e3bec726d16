CONSTANTS
  Listen = Listen
  None = None
  AuthMethod <- MCAuth
  Configs <- MCConfigs
  MaxCommits = 2
SPECIFICATION Spec
INVARIANTS TypeOK  NestedExact MethodsConfigured
CHECK_DEADLOCK FALSE
