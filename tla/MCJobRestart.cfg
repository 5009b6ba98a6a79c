CONSTANTS
  a = a
  b = b
  h1 = h1
  h2 = h2
  g1 = g1
  g2 = g2
  g3 = g3
  g4 = g4
  c1 = c1
  c2 = c2
  MaxJobs = 2
  Imports = {a}
  ChildKinds = {"thumbnails"}
  Hosts = {h1, h2}
  Slots = {g1, g2, g3}
  Clients = {c1}
  Requests = {"create", "restart", "pause"}
  Faults = {"fail", "stop"}
  Units = 1
  MaxSessions = 2
  ResumeLimit = 2
  None = None
SPECIFICATION Spec
SYMMETRY Symmetry
CHECK_DEADLOCK FALSE
INVARIANT ProgressCoversCheckpoint
INVARIANT RunsAreRecorded
PROPERTY ImportsStayHome
PROPERTY ImplementsLifecycle
