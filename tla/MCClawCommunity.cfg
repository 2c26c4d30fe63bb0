SPECIFICATION Spec
CONSTANTS
  a = a
  b = b
  f = f
  p = p
  q = q
  Processes = {p, q}
  Communities = {"claw"}
  Agents = {a, b}
  Amounts = {1}
  Costs = {0}
  Hosts = {2}
  Providers = {"local", "sporestack"}
  Machines = {"local"}
  FileIds = {f}
  Catalogs <- MCCatalogs
  JoinFee = 1
  Capacity = 1
  Threshold = 2
  Torn = Torn
  None = None
  MaxOps = 4
  MaxMishaps = 1
SYMMETRY MCSymmetry
INVARIANTS Solvent RecordsBacked HousedInOrder NothingLostAlone
CHECK_DEADLOCK FALSE
