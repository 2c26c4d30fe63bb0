SPECIFICATION Spec
CONSTANTS
  w1 = w1
  w2 = w2
  reader = reader
  runtimeLog = runtimeLog
  serverLog = serverLog
  None = None
  Threads = {w1, w2, reader}
  Instances = {runtimeLog, serverLog}
  InstanceOf <- MCInstanceOf
  Appenders = {w1, w2}
  Readers = {reader}
  MaxEntries = 4
INVARIANT CachedHeadIsCurrent
CHECK_DEADLOCK FALSE
