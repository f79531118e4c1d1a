CONSTANTS
  Size = 4
  DynamicRoutes <- TwoWays
SPECIFICATION Spec
INVARIANTS  CanaryIsolated ControllersAgree
