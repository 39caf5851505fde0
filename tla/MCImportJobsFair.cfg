SPECIFICATION FairSpec
CONSTANTS
  c1 = c1
  c2 = c2
  c3 = c3
  u1 = u1
  u2 = u2
  Commands = {c1, c2}
  Issuer <- IssuerDef
  Keys = {k1}
  k1 = k1
  MaxTries = 2
  Faults = {"send", "throw", "crash", "delete"}
  None = None
INVARIANT OneImport
PROPERTY JobsEnd
