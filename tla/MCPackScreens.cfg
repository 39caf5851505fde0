SPECIFICATION Spec
CONSTANTS
  Stickers = {s1, s2, s3}
  s1 = s1
  s2 = s2
  s3 = s3
  PerPage = 2
  Presses = {h1, h2}
  h1 = h1
  h2 = h2
  MaxChanges = 1
  None = None
SYMMETRY Symmetric
CHECK_DEADLOCK FALSE
INVARIANT TypeOK
PROPERTY NothingPassedOver
PROPERTY PageNeverBlank
PROPERTY UntouchedRatingsStay
