SPECIFICATION TablesSpec
CONSTANTS
  EitSections <- EventSections
  UpdateModes = {TRUE, FALSE}
  IgnoreBadDates = TRUE
  SdtSections <- ServiceSections
  MaxEntries = 6
  ByteBits = 3
  Payloads <- SmallPayloads
  Table <- SmallTable
  Space = 2
  AllocMult = 1
  AllocIncr = 1
  MaxText = 3
INVARIANTS
  NoRepeats
  HeadIsSmallest
  FreesatTextIsExact
PROPERTIES
  VersionsFall
  LostOnlyToSmaller
CHECK_DEADLOCK FALSE
