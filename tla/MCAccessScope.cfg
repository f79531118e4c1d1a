CONSTANTS
  s1 = s1
  s2 = s2
  c1 = c1
  c2 = c2
  Services <- MCServices
  Channels <- MCChannels
  Hashes <- MCHashes
  None = none
  SidecarDefaultHosts = {defaults}
  MaxWrites = 1
  MaxTroubles = 1
  RetrySteps = 2
SPECIFICATION Spec
INVARIANTS TypeOK HostsKept SettledScopes SettledSidecar
PROPERTIES EventuallyReachable
