SPECIFICATION FairSpec
CONSTANTS
  Addresses = {a1, a2}
  kStateRepublishIntervalMs = 2
  ClockRange = 4
  MaxPassTime = 1
  MaxBurst = 1
INVARIANTS
  ToldIsReported
  LateSubscribersAreTold
PROPERTIES
  SubscribersAreToldInTheEnd
