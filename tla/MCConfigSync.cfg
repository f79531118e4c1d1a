CONSTANTS
  Service = service
  Root = root
  Usable = {d1, d2}
  Unusable = unusable
  Gone = gone
  MaxWrites = 2
  MaxTroubles = 1
  RetrySteps = 2
SPECIFICATION Spec
INVARIANTS TypeOK EntryIsCurrent SettledInSync
PROPERTIES EventuallyInSync
CHECK_DEADLOCK FALSE
