CONSTANTS
  Instances = {i1}
  Providers = providers
  MaxWrites = 1
  MaxTroubles = 0
  RetrySteps = 2
  None = None
SPECIFICATION Spec
INVARIANT AlwaysInSync
CHECK_DEADLOCK FALSE
