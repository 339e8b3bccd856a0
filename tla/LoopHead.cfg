SPECIFICATION Spec
CONSTANTS
  kFlashDurationMs = 2
  kRetryIntervalMs = 3
  ClockRange = 7
  MaxPassMs = 1
  AssociationMs = 2
INVARIANTS
  MessagesAreSeen
  OutagesEnd
  BrokerIsServed
  MdnsIsRetried
