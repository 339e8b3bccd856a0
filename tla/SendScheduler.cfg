SPECIFICATION FairSpec
CONSTANTS
  Messages = {m1, m2}
  Delays = {0, 1, 3}
  ClockRange = 10
  StartTime = 0
  MaxTime = 5
  MaxSends = 3
PROPERTIES
  ImplementsDelayedSends
  PassesAreComplete
