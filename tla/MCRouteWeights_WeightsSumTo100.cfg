CONSTANTS
  Size = 4
  DynamicRoutes <- TwoWays
SPECIFICATION Spec
INVARIANT WeightsSumTo100
