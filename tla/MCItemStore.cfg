CONSTANTS
  x = x
  p = p
  t = t
  f = f
  g = g
  mk = mk
  m1 = m1
  m2 = m2
  k = k
  ds = ds
  j1 = j1
  j2 = j2
  r1 = r1
  r2 = r2
  r3 = r3
  None = None
  Jobs = {j1, j2}
  DataSources = {ds}
  Ids = {x}
  Texts = {t}
  Files = {f, g}
  Places = {p}
  Times = {1, 2}
  MetaKeys = {mk}
  MetaVals = {m1, m2}
  Keys = {k}
  Length <- LengthValue
  DS <- DSValue
  Preferences <- PreferencesValue
  RowIds = {r1, r2}
  Items <- ItemsValue
  Constraints <- ConstraintsValue
SPECIFICATION Spec
SYMMETRY Symmetry
CHECK_DEADLOCK FALSE
INVARIANT RowsAreSound
INVARIANT KnownStaysKnown
INVARIANT ImportIsIdempotent
INVARIANT OrderIsIrrelevant
 
