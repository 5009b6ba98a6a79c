CONSTANTS
  a = a
  b = b
  c = c
  e = e
  j1 = j1
  j2 = j2
  r1 = r1
  r2 = r2
  h1 = h1
  h2 = h2
  None = None
  RowIds = {r1, r2}
  Bases = {"n", "ts"}
  Hashes = {h1, h2}
  Suffixes = {"__x"}
  Deleters = {"user", "maintenance"}
  MaxFaults = 1
  Repeated = {j1}
  ItemInfo <- ItemInfoValue
  Batches <- BatchesValue
  p1 = p1
  p2 = p2
  p3 = p3
  c1 = c1
  Systems = {"files", "thumbnails", "embeddings"}
SPECIFICATION MCSpec
CHECK_DEADLOCK FALSE
INVARIANT TypesOK
INVARIANT FilesAreKept
INVARIANT DownloadsAreKept
INVARIANT JobsOverItemsAreComplete
INVARIANT ThumbnailsAreShared
