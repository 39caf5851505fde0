SPECIFICATION Spec
CONSTANTS
  p1 = p1
  p2 = p2
  a = a
  b = b
  c = c
  Packs = {p1, p2}
  Home = p1
  Total = 3
  Names = {a, b, c}
  NoName = NoName
  First = 3
  MaxFiles = 2
  AtOnce = 2
  MaxStarts = 3
SYMMETRY Symmetric
CHECK_DEADLOCK FALSE
INVARIANT TypeOK
INVARIANT OrdersDistinct
INVARIANT LiveHasFile
INVARIANT NamesDistinct
INVARIANT FilesReferenced
PROPERTY ReorderMovesOne
