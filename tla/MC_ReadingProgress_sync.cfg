SPECIFICATION FairSpec
CONSTANTS
  r1 = r1
  r2 = r2
  r3 = r3
  r4 = r4
  Requests = {r1, r2, r3}
  Before = Before
  Nowhere = Nowhere
  MaxVersion = 2
  MaxFaults = 2
  OneDevice = TRUE
  SyncWithinTtl = TRUE
INVARIANTS
  LossNeedsARace
  CacheNotBehind
PROPERTIES
  BookmarkSpec
  SavesReachMongo
CHECK_DEADLOCK FALSE
