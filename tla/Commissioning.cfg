SPECIFICATION FairSpec
CONSTANTS
  Old = Old
  New = New
  Values = {Old, New}
  Empty = Empty
  CutOff = CutOff
  NotAPort = NotAPort
  HugePort = HugePort
  kMaxBufferedBytes = 2
  kMaxLineLength = 1
  SerialLines <- FieldLines
  Forms <- SomeForms
  MaxSaves = 3
  MaxPowerLosses = 2
  MaxRequests = 2
INVARIANTS
  NormalRunsAChosenConfig
  TornIsAPrefix
  RequestsAreHonoured
  NothingIsCutOff
PROPERTIES
  SetupModeIsAskedFor
  FormsEndInNormalMode
CHECK_DEADLOCK FALSE
