SPECIFICATION FairSpec
CONSTANTS
  MaxTasks = 2
  NProviders = 2
  GrabSeconds = 2
  CancelWaits = 1
INVARIANTS
  MemoryIsThere
  StopLostOnlyWhilePreparing
  TaskOnlyWhileLoading
  TellsHowItEnded
  DocumentCloses
PROPERTIES
  GrabEnds
  RedEnds
CHECK_DEADLOCK FALSE
