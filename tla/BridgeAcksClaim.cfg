SPECIFICATION Spec
CONSTANTS
  kMinTurnoutAddress = 1
  kMaxTurnoutAddress = 2
  kQueryStaggerMs = 1
  kStableConnectionMs = 1
  kOffPulseDelayMs = 1
  kReconnectIntervalMs = 4
  kMaxPendingCommands = 1
  HighestAddress = 2
  TurnoutCommands <- NoCommands
  MaxTime = 9
  MaxDrops = 1
  MaxGlitches = 0
  MaxCommands = 0
  MaxThrottle = 0
  MaxStrays = 0
INVARIANTS
  LaterQueriesMatch
