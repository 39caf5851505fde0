SPECIFICATION Spec
CONSTANTS
  Packs = {p1, p2}
  p1 = p1
  p2 = p2
  Rows = {r1, r2}
  r1 = r1
  r2 = r2
SYMMETRY Symmetric
PROPERTY ImportExposesNothingUnrated
