SPECIFICATION Spec
CONSTANTS
  kHoldDurationMs = 4
  kReleaseSettleMs = 2
  ClockRange = 20
  MaxPollGap = 2
  StartTime = 14
  MaxTime = 28
INVARIANTS
  TypeOK
  HoldsAreNotMissed
PROPERTIES
  RequestsAreHeld
  PressesAreNotAddedUp
