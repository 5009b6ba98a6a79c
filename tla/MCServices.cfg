CONSTANTS
  None = None
  NoKey = NoKey
  a = a
  b = b
  b2 = b2
  t1 = t1
  t2 = t2
  Torn = Torn
  v1 = v1
  v2 = v2
  ds = ds
  u1 = u1
  u2 = u2
  Procs = {1, 2, 3}
  Keys = {a, b}
  Systems = {"mutex", "entities", "timelines", "stream", "conversations", "search", "readers",
             "scan", "texts", "voices", "apples", "whats", "telegrams", "faces", "instas", "photos", "plans", "graphs", "folders"}
SPECIFICATION MCSpec
SYMMETRY UserSymmetry
CHECK_DEADLOCK FALSE
INVARIANT TypesOK
INVARIANT HeldByOne
INVARIANT NobodyWaitsForAFreeKey
INVARIANT PeopleAreKept
INVARIANT OpenTimelinesAreKept
INVARIANT StreamIsKept
INVARIANT RecentsAreExact
INVARIANT SearchIsExact
INVARIANT ReadingIsComplete
INVARIANT MessagesAreRight
INVARIANT GraphsAreWhole
PROPERTY NothingIsLost
PROPERTY PeopleAreToldApart
