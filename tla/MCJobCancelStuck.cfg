CONSTANTS
  a = a
  b = b
  h1 = h1
  h2 = h2
  g1 = g1
  g2 = g2
  g3 = g3
  g4 = g4
  c1 = c1
  c2 = c2
  MaxJobs = 1
  Imports = {a}
  ChildKinds = {}
  Hosts = {h1}
  Slots = {g1, g2}
  Clients = {c1}
  Requests = {"schedule", "cancel"}
  Faults = {}
  Units = 1
  MaxSessions = 1
  ResumeLimit = 1
  None = None
SPECIFICATION FairSpec
CHECK_DEADLOCK FALSE
PROPERTY CancelReturns
