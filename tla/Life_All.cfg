CONSTANTS
  p1 = p1
  p2 = p2
  Process <- MCProcess
  None = None
  Workers <- MCWorkers
  MaxStarts = 3
  MaxFaults = 1
SPECIFICATION Spec
INVARIANTS NothingUsedUnready NoSessionLeft
PROPERTY SignalEnds
CHECK_DEADLOCK FALSE
