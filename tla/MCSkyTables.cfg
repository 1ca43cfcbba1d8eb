SPECIFICATION FairSpec
CONSTANTS
  Kind <- TwoTitlesOneSummary
  Id = {"s1", "s2", "s3", "s4", "s5", "s6"}
  Eid = {"e1", "e2", "e3", "e4", "e5"}
  Broadcasts <- ThreeBroadcasts
  MaxActive = 2
  MaxEntries = 4
  MaxBytes = 16
  MaxHit = 1
  MaxChanged = 1
INVARIANTS
  TurnIsComplete
  RepeatedByLossOnly
  OvershootBounded
PROPERTIES
  TurnsEnd
CHECK_DEADLOCK FALSE
