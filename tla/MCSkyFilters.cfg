SPECIFICATION FairSpec
CONSTANTS
  Wanted = 5
  MaxFilters = 4
  MaxActive = 2
  ListFilter = 1
  NamesFilter = 2
  Broadcasts = {{0, 1, 2, 3}, {0, 1, 2}, {0, 2, 3}, {0, 3}}
INVARIANTS
  SlotsExclusive
  BusySlotIsWired
  ReadHasData
  BadHandleCapsTheGrab
PROPERTIES
  ImplementsPool
  GrabEndsOnAir
CHECK_DEADLOCK FALSE
