SPECIFICATION FairSpec
CONSTANTS
  Wanted = 2
  MaxFilters = 24
  MaxActive = 2
  ListFilter = 1
  NamesFilter = 2
  Broadcasts = {{0, 1}}
PROPERTIES
  SilenceStops
CHECK_DEADLOCK FALSE
