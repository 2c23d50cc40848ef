CONSTANTS
  ai = ai
  bi = bi
  ai2 = ai2
  ctr = ctr
  Class <- MCClass
  NoClass = 0
  ClassMax <- MCClassMax
  Event <- MCEvent
  BinaryInput = {bi}
  BinaryOutput = {}
  AnalogInput = {ai, ai2}
  AnalogOutput = {}
  Counter = {ctr}
  Value = {0, 1, 2}
  Flag = {1}
  Online = 1
  EventClass <- MCEventClass
  Deadband <- MCDeadband
  Thread = {t1}
  Free = Free
  Absent = Absent
  MaxCalls = 3
  MaxAgain = 0
  Request <- AnyRequest
  Index <- MCIndex
  MaxIndex = 1
  Int16 = {0}
  Float32 = {0, 1}
  Nothing = Nothing
  MaxRequests = 2
SPECIFICATION MCSpec
INVARIANTS
  SessionTypeOK
  AnswersMatch
  FlagsMatchEvents
  PollReportsQueue
PROPERTY AnsweredIfEncodable
CHECK_DEADLOCK FALSE
