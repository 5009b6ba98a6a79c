CONSTANTS
  a = a
  b = b
  h1 = h1
  h2 = h2
  g1 = g1
  g2 = g2
  g3 = g3
  g4 = g4
  c1 = c1
  c2 = c2
  MaxJobs = 2
  Imports = {a, b}
  ChildKinds = {}
  Hosts = {h1}
  Slots = {g1, g2, g3}
  Clients = {c1}
  Requests = {"create", "start", "cancel", "pause", "unpause"}
  Faults = {"fail"}
  Units = 1
  MaxSessions = 1
  ResumeLimit = 1
  None = None
SPECIFICATION Spec
SYMMETRY Symmetry
CHECK_DEADLOCK FALSE
INVARIANT StartedHasRunner
INVARIANT RunnerIsReachable
PROPERTY ImplementsLifecycle
