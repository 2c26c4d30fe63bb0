SPECIFICATION Spec
CONSTANTS
  m = m
  g = g
  h = h
  echo = echo
  broken = broken
  manifest = manifest
  Nodes <- MCNodes
  Overlays <- MCOverlays
  None = None
  ManifestIds = {manifest}
  Anonymous = {m, h}
  Oversized = {}
  MockNetwork = FALSE
  MaxWaits = 2
  WellFormed <- MCWellFormed
  AllowedModules = {"ipv8"}
  ForbiddenBuiltins = {"open"}
  ForbiddenAttrs = {}
  Descriptor <- MCDescriptor
  Replies <- MCReplies
  Stub <- MCStub
  CacheDirs = {m, g, h}
  DirOf <- MCDirOf
  MaxJobs = 0
  MaxRaised = 1
  Callers = {m}
  BootOverlays <- MCBootOverlays
  BootPeers <- MCBootPeers
  Names = {"claw"}
  Versions = {"1.0.0"}
  Addresses = {m, g, h}
  Hosts = {"127.0.0.1", "10.0.0.2"}
  PublicKeys = {m, g, h}
  MaxUint64 = 1000000
  ToolNames = {"wallet_send"}
  ScenarioNames = {"claw", "Claw-2"}
  ContentCommunity = broken
  Absent = Absent
  Document <- MCDocument
  ManifestText = manifest
  Payees = {g}
  MaxExtras = 1
INVARIANTS AcceptedByTheOneAsked FetchedWhatWasAsked NewestWaiterReachable AdmittedByDonation InstancesInteroperate
PROPERTY CallsReturn
CHECK_DEADLOCK FALSE
