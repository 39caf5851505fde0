SPECIFICATION Spec
CONSTANTS
  c1 = c1
  c2 = c2
  c3 = c3
  u1 = u1
  u2 = u2
  Commands = {c1}
  Issuer <- IssuerDef
  Keys = {k1, k2}
  k1 = k1
  k2 = k2
  MaxTries = 3
  Faults = {"send", "throw", "expire", "crash", "delete"}
  None = None
INVARIANT TypeOK
INVARIANT RowsHaveFiles
INVARIANT NoLeakOnReturn
INVARIANT RefusedOnlyInProgress
