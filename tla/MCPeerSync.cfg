SPECIFICATION Spec
CONSTANTS
  NumPeers = 2
  Batch = 2
  MaxLog <- MCMaxLog
  Content <- MCContent
  Network = net
  net = net
  other = other
  None = None
  GENESIS = 0
  Reliable = {2}
  Doubled <- MCDoubled
  MaxCrashes = 1
INVARIANTS
  NoGapBehindCursor
  CopiesBounded
PROPERTIES
  ImplementsReplication
  Convergence
