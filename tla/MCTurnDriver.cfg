SPECIFICATION Spec
CONSTANTS
  w = w
  s = s
  home = home
  echo = echo
  broken = broken
  Nodes <- MCNodes
  Overlays = {echo}
  None = None
  Nobody = Nobody
  Clients = {w}
  Servers = {s}
  Absent = Absent
  StopSpec <- MCStopSpec
  AtBoot <- MCAtBoot
  Taken <- MCTaken
  WellFormed <- MCWellFormed
  AllowedModules = {"ipv8"}
  ForbiddenBuiltins = {"open"}
  ForbiddenAttrs = {}
  Descriptor <- MCDescriptor
  Replies <- OneReply
  Stub <- MCStub
  CacheDirs = {home}
  DirOf <- MCDirOf
  MaxJobs = 2
  MaxRaised = 1
  Total = 2
  Cooldown = 1
  WaitBudget = 2
  Slice = 2
  Requests = {1, 2}
  Interval = 1
  TurnGrace = 0
  CallTimeout = 2
  MaxTotalTurns = 3
  MaxIterations = 1
  MaxConsecutiveErrors = 2
  MaxToolCalls = 1
  MaxExtras = 1
INVARIANTS OneInstance RefusedUnderLoad
PROPERTY DriversStop
CHECK_DEADLOCK FALSE
