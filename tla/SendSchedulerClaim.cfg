SPECIFICATION Spec
CONSTANTS
  Messages = {m1}
  Delays = {0, 3}
  ClockRange = 6
  StartTime = 0
  MaxTime = 8
  MaxSends = 2
PROPERTIES
  NothingIsEarly
CHECK_DEADLOCK FALSE
