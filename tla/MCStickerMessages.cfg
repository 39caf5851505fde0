SPECIFICATION Spec
CONSTANTS
  Stickers = {s1}
  s1 = s1
  Messages = {m1}
  m1 = m1
  Presses = {p1, p2}
  p1 = p1
  p2 = p2
  RateLimit = 1
  MaxTries = 2
  MaxTime = 2
  MaxVersion = 2
  None = None
CHECK_DEADLOCK FALSE
INVARIANT TypeOK
PROPERTY UpToDateShown
PROPERTY ListedMessagesGo
PROPERTY UsageConverges
