SPECIFICATION FairSpec
CONSTANTS
  p1 = p1
  p2 = p2
  Total = 2
  Packs = {p1, p2}
  PackOf <- PackOfDef
  Own = {p2}
  First = {1}
  Queries = {{"a"}}
  Faces = {"a", "b"}
  AtOnce = 2
  BatchSize = 1
  Limit = 1
  MaxWrites = 2
  MaxFaults = 1
INVARIANT TypeOK
INVARIANT AtRestCurrent
INVARIANT SearchesAgree
PROPERTY Converges

