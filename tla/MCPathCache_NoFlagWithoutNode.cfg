CONSTANTS
  Children = {c1}
  Path = root
  AutoFillNode = TRUE
  MaxWrites = 3
  MaxFaults = 0
  MaxStops = 0
SPECIFICATION Spec
INVARIANT NoFlagWithoutNode
CHECK_DEADLOCK FALSE
