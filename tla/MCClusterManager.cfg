CONSTANTS
  Names = {n1, n2}
  Kubeconfigs = {k1, k2}
  NoKubeconfig = nokubeconfig
  Absent = absent
  MaxEdits = 3
  MaxOutages = 1
SPECIFICATION Spec
INVARIANTS TypeOK CachesAccounted AnswersAreLive
PROPERTIES EventuallyFollows
CHECK_DEADLOCK FALSE
