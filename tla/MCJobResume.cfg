CONSTANTS
  a = a
  b = b
  h1 = h1
  h2 = h2
  g1 = g1
  g2 = g2
  g3 = g3
  g4 = g4
  c1 = c1
  c2 = c2
  MaxJobs = 2
  Imports = {a, b}
  ChildKinds = {}
  Hosts = {h1}
  Slots = {g1, g2, g3}
  Clients = {c1}
  Requests = {"schedule"}
  Faults = {"stop"}
  Units = 0
  MaxSessions = 2
  ResumeLimit = 1
  None = None
SPECIFICATION FairSpec
CHECK_DEADLOCK FALSE
PROPERTY InterruptedAreResumed
PROPERTY ScheduledStart
