SPECIFICATION Spec
CONSTANTS
  here = here
  elsewhere = elsewhere
  None = None
  Agents = {1, 2}
  Networks = {here, elsewhere}
  Manifests <- OneNetwork
  Skew <- MCSkew
  Sats = {1, 3}
  MinSats = 1
  BootstrapCapSats = 3
  MaxAgentsPerSeedbox = 1
  SeedboxCostSats = 2
  InitialSats = 3
  MaxEntries = 4
  MaxRestarts = 1
  Shared = {2}
  MayHide = {1}
INVARIANTS
  MemoCovers
  DonationsPaid
PROPERTIES
  OwnDonationAdmits
  ViewsConverge
