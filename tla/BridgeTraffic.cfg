SPECIFICATION FairSpec
CONSTANTS
  kMinTurnoutAddress = 1
  kMaxTurnoutAddress = 2
  kQueryStaggerMs = 1
  kStableConnectionMs = 1
  kOffPulseDelayMs = 1
  kReconnectIntervalMs = 1
  kMaxPendingCommands = 1
  HighestAddress = 2
  TurnoutCommands <- OneTurnoutCommands
  MaxTime = 3
  MaxDrops = 0
  MaxGlitches = 0
  MaxCommands = 2
  MaxThrottle = 0
  MaxStrays = 0
INVARIANTS
  TypeOK
  ReleaseIsComing
  LatestCommandIsCarriedOut
PROPERTIES
  EveryRequestIsCredited
