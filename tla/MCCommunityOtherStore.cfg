SPECIFICATION Spec
CONSTANTS
  here = here
  elsewhere = elsewhere
  None = None
  Agents = {1, 2}
  Networks = {here, elsewhere}
  Manifests <- OneNetwork
  Skew <- MCSkew
  Sats = {1, 2, 3}
  MinSats = 1
  BootstrapCapSats = 3
  MaxAgentsPerSeedbox = 1
  SeedboxCostSats = 2
  InitialSats = 4
  MaxEntries = 3
  MaxRestarts = 0
  Shared = {2}
  MayHide = {}
INVARIANT MemoFresh
