CONSTANTS
  ai = ai
  bi = bi
  ai2 = ai2
  ctr = ctr
  Class <- MCClass
  NoClass = 0
  ClassMax <- MCClassMax
  Event <- MCEvent
  BinaryInput = {}
  BinaryOutput = {}
  AnalogInput = {ai}
  AnalogOutput = {}
  Counter = {}
  Value = {0, 1}
  Flag = {1, 2}
  Online = 1
  EventClass <- MCEventClass
  Deadband <- MCDeadband
  Thread = {t1}
  Free = Free
  Absent = Absent
  MaxCalls = 1
  MaxAgain = 0
  Request <- StaticRead
  Index <- MCIndex
  MaxIndex = 1
  Int16 = {0, 1}
  Float32 = {0, 1}
  Nothing = Nothing
  MaxRequests = 1
SPECIFICATION Spec
INVARIANTS
  ReadsUntorn
CHECK_DEADLOCK FALSE
