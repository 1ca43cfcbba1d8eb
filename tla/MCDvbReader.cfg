SPECIFICATION FairSpec
CONSTANTS
  EitSections <- TwoSections
  UpdateModes = {FALSE}
  IgnoreBadDates = TRUE
  Tables <- TwoTables
  MaxActive = 2
  Timeout = 2
  MaxInput = 2
  Inputs = {"device", "stdin", "file"}
INVARIANTS
  NeverMisparsed
  ReadyIsReadable
PROPERTIES
  DeviceGrabEnds
CHECK_DEADLOCK FALSE
