SPECIFICATION Spec
CONSTANTS
  kMinTurnoutAddress = 1
  kMaxTurnoutAddress = 2
  kQueryStaggerMs = 1
  kStableConnectionMs = 1
  kOffPulseDelayMs = 1
  kReconnectIntervalMs = 2
  kMaxPendingCommands = 1
  HighestAddress = 2
  TurnoutCommands <- NoCommands
  MaxTime = 5
  MaxDrops = 1
  MaxGlitches = 1
  MaxCommands = 0
  MaxThrottle = 1
  MaxStrays = 1
INVARIANTS
  RequestsInOrder
  OrderInv
  AcksAreCredited
  CreditInv
  QueryResyncs
PROPERTIES
  OneQueryPerConnection
