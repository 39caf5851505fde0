SPECIFICATION Spec
CONSTANTS
  Keys = {k1, k2}
  k1 = k1
  k2 = k2
  RowIds = {r1, r2}
  r1 = r1
  r2 = r2
  TpIds = {t1}
  t1 = t1
  PackIds = {p1}
  p1 = p1
  Users = {u1}
  u1 = u1
  Sweeps = {}
  Faults = {}
  None = None
SYMMETRY Symmetric
INVARIANT LiveStickerHasFile
