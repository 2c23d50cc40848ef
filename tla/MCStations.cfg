CONSTANTS
  Class = {1}
  NoClass = 0
  ClassMax <- MCClassMax
  Event = {}
  BinaryInput = {}
  BinaryOutput = {}
  AnalogInput = {}
  AnalogOutput = {}
  Counter = {}
  Value = {0}
  Flag = {1}
  Online = 1
  EventClass <- NoPoint
  Deadband <- NoPoint
  Thread = {}
  Free = Free
  Absent = Absent
  MaxCalls = 0
  MaxAgain = 0
  Request = {}
  Index <- NoPoint
  MaxIndex = 0
  Int16 = {0}
  Float32 = {0, 1}
  Nothing = Nothing
  MaxRequests = 4
  SeqCount = 2
  PollClasses <- EventPoll
  PollClass = {0, 1}
  Scan <- MCScans
  OutputIndex = {0}
  MaxUsed = 3
  MaxOpens = 2
  MaxUnsolicited = 1
SPECIFICATION MCSpec
INVARIANTS
  StationsTypeOK
  AnswerIdentified
  CommandsOnce
  OpenIsServed
PROPERTIES
  RequestsServed
  RequestsAnswered
CHECK_DEADLOCK FALSE
