SPECIFICATION TornSpec
CONSTANTS
  None = None
  Batch = 2
  MaxEntries = 5
  MaxFaults = 2
  MaxRestarts = 2
INVARIANTS LossesBounded NoForkInLog
PROPERTY FreshPullHeals
CHECK_DEADLOCK FALSE
