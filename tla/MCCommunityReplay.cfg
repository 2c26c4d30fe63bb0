SPECIFICATION ReplaySpec
CONSTANTS
  m1 = m1
  m2 = m2
  m3 = m3
  Agents = {m1, m2, m3}
  here = here
  elsewhere = elsewhere
  Networks = {here, elsewhere}
  Network = here
  Sats = {0, 1, 2, 3, 4}
  MinSats = 1
  BootstrapCapSats = 3
  MaxAgentsPerSeedbox = 1
  SeedboxCostSats = 2
  MaxFolded = 7
SYMMETRY ReporterSymmetry
INVARIANTS
  TreasurySolvent
  PurchasesCloseInOrder
  GrowthJustified
  DonationsWithinBootstrapCap
  SignersDonatedFirst
  DuplicatesIgnored
CHECK_DEADLOCK FALSE
