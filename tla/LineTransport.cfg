SPECIFICATION Spec
CONSTANTS
  kMaxBufferedBytes = 7
  Traffic <- BusMessages
  Commands <- SetCommands
  QueriedAddresses = {48, 129}
  ClosedTurnouts = {129}
  MaxConnections = 3
  MaxSends = 2
INVARIANTS
  TypeOK
  LinesKeepTheirMeaning
PROPERTIES
  ImplementsFrameChannel
