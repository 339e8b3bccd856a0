SPECIFICATION Spec
CONSTANTS
  Old = Old
  New = New
  Values = {Old, New}
  Empty = Empty
  CutOff = CutOff
  NotAPort = NotAPort
  HugePort = HugePort
  kMaxBufferedBytes = 2
  kMaxLineLength = 1
  SerialLines <- JmriLines
  Forms <- WifiOnly
  MaxSaves = 1
  MaxPowerLosses = 0
  MaxRequests = 0
PROPERTIES
  SavingAddsFields
