CONSTANTS
  Instances = {i1, i2}
  Providers = providers
  MaxWrites = 1
  MaxTroubles = 1
  RetrySteps = 2
  None = None
SPECIFICATION Spec
INVARIANTS TypeOK NothingDropped SettledInSync
PROPERTIES ImplementsMirror EventuallyInSync
CHECK_DEADLOCK FALSE
