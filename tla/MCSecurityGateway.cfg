SPECIFICATION HostSpec
CONSTANTS
  a = a
  b = b
  c = c
  d = d
  f = f
  h = h
  other = other
  p = p
  s = s
  t = t
  Clients = {c, d}
  Agents = {a, b}
  AgentOf <- MCAgentOf
  Seedboxes = {s}
  FileIds = {f}
  Reports <- MCReports
  MaxRisk = 1
  BanThreshold = 20
  Starts <- MCStarts
  Requests <- MCRequests
  None = None
  MaxRequests = 3
  MaxMishaps = 1
  Absent = Absent
  Member = a
  FakeBox = s
  MaxRuns = 3
  MaxDeaths = 1
INVARIANTS FirstRunDone VerdictFromLog ReloadReproduces
PROPERTIES ScoresNeverFall LayerStaysDone NoFurtherCharge
CHECK_DEADLOCK FALSE
