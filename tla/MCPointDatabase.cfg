CONSTANTS
  ai = ai
  bi = bi
  ao = ao
  bo = bo
  ctr = ctr
  Class <- MCClass
  NoClass = 0
  ClassMax <- MCClassMax
  Event <- MCEvent
  BinaryInput = {bi}
  BinaryOutput = {}
  AnalogInput = {ai}
  AnalogOutput = {}
  Counter = {ctr}
  Value = {0, 1, 2}
  Flag = {1, 2}
  Online = 1
  EventClass <- MCEventClass
  Deadband <- MCDeadband
  Thread = {t1, t2}
  Free = Free
  Absent = Absent
  MaxCalls = 4
  MaxAgain = 1
SPECIFICATION MCSpec
INVARIANTS
  DatabaseTypeOK
  NewestKept
  OverflowMeansLoss
  LastEventCurrent
  NoRedundantEvents
  FrozenWhole
PROPERTY CallsReturn
CHECK_DEADLOCK FALSE
