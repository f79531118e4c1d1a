CONSTANTS
  Instances = {i1}
  Providers = providers
  MaxWrites = 0
  MaxTroubles = 1
  RetrySteps = 2
  None = None
SPECIFICATION Spec
INVARIANT DeletionsAreHandled
CHECK_DEADLOCK FALSE
