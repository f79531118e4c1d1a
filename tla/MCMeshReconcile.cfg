CONSTANTS
  Instances = {i1}
  Groups = {blue}
  MaxTroubles = 2
  None = None
SPECIFICATION Spec
INVARIANTS TypeOK SettledInSync
CHECK_DEADLOCK FALSE
PROPERTIES EventuallyInSync ComesToRest
