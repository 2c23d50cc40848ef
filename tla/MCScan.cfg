CONSTANTS
  Class = {1}
  NoClass = 0
  ClassMax <- MCClassMax
  Event = {}
  BinaryInput = {}
  BinaryOutput = {}
  AnalogInput = {}
  AnalogOutput = {}
  Counter = {}
  Value = {0}
  Flag = {1}
  Online = 1
  EventClass <- NoPoint
  Deadband <- NoPoint
  Thread = {}
  Free = Free
  Absent = Absent
  MaxCalls = 0
  MaxAgain = 0
  Request = {}
  Index <- NoPoint
  MaxIndex = 0
  Int16 = {0}
  Float32 = {0, 1}
  Nothing = Nothing
  MaxRequests = 1
  SeqCount = 2
  PollClasses <- EventPoll
  PollClass = {0, 1}
  Scan <- FatalScans
  OutputIndex = {0}
  MaxUsed = 1
  MaxOpens = 1
  MaxUnsolicited = 0
SPECIFICATION StationsSpec
INVARIANTS
  OpenIsRead
CHECK_DEADLOCK FALSE
