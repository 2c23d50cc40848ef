CONSTANTS
  Conn = {c1, c2}
  None = None
  MaxData = 2
  MaxOpens = 2
SPECIFICATION FairSpec
INVARIANTS
  ServerTypeOK
  ActiveServed
  EventMeansActive
  NoDataLost
  ClosedServesNone
PROPERTIES
  CloseReturns
  TasksEnd
CHECK_DEADLOCK FALSE
