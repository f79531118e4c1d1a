CONSTANTS
  Children = {c1, c2}
  Path = root
  AutoFillNode = TRUE
  MaxWrites = 2
  MaxFaults = 1
  MaxStops = 1
SPECIFICATION Spec
INVARIANTS
  TypeOK
  ListensForChildren
  EveryChildTracked
  DeletionWillBeSeen
  ExistingChildWatched
  SnapshotIsFresh
PROPERTIES
  CacheConverges
  
CHECK_DEADLOCK FALSE
