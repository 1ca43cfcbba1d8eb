SPECIFICATION FairSpec
CONSTANTS
  EitSections <- TwoSections
  UpdateModes = {FALSE}
  IgnoreBadDates = TRUE
  Tables <- FreesatTables
  MaxActive = 2
  Timeout = 2
  MaxInput = 2
  Inputs = {"device"}
PROPERTY EventsParsed
CHECK_DEADLOCK FALSE
