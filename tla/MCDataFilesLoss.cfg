CONSTANTS
  a = a
  b = b
  c = c
  e = e
  j1 = j1
  j2 = j2
  r1 = r1
  r2 = r2
  h1 = h1
  h2 = h2
  None = None
  RowIds = {r1, r2}
  Bases = {"n", "ts"}
  Hashes = {h1, h2}
  Suffixes = {"__x"}
  Deleters = {"user", "maintenance"}
  MaxFaults = 2
  Repeated = {j2}
  ItemInfo <- ItemInfoValue
  Batches <- BatchesValue
SPECIFICATION Spec
CHECK_DEADLOCK FALSE
PROPERTY FailedItemsSpareRows
