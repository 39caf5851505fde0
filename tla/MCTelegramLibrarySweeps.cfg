SPECIFICATION FairSpec
CONSTANTS
  Keys = {k1, k2}
  k1 = k1
  k2 = k2
  RowIds = {r1}
  r1 = r1
  TpIds = {t1}
  t1 = t1
  PackIds = {p1, p2}
  p1 = p1
  p2 = p2
  Users = {u1}
  u1 = u1
  Sweeps = {"orphan", "stale", "packs"}
  Faults = {}
  None = None
INVARIANT FilesAreOwned
PROPERTY AbandonedSetsGo
PROPERTY ExpiredRowsGo
