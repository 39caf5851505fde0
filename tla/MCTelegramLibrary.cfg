SPECIFICATION Spec
CONSTANTS
  Keys = {k1, k2}
  k1 = k1
  k2 = k2
  RowIds = {r1, r2}
  r1 = r1
  r2 = r2
  TpIds = {t1}
  t1 = t1
  PackIds = {p1, p2}
  p1 = p1
  p2 = p2
  Users = {u1, u2}
  u1 = u1
  u2 = u2
  Sweeps = {"stickers"}
  Faults = {"unlink", "throw"}
  None = None
SYMMETRY Symmetric
INVARIANT TypeOK
INVARIANT MirrorsSharedRows
PROPERTY SubscribersAgree
INVARIANT FilesAreOwned
PROPERTY DisappearOnlyWhenRemoved
