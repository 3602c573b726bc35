SPECIFICATION FairSpec
CONSTANTS
  h1 = h1
  h2 = h2
  h3 = h3
  h4 = h4
  w1 = w1
  w2 = w2
  None = None
  Handlers <- Three
  Ids <- MCIds
  Subject <- AllOnOne
  LockMaxRetries = 2
  EnableCleanup = TRUE
  Timely = FALSE
  QuietCleanup = FALSE
  ReleaseWhenRejected = TRUE
PROPERTIES
  LockCallReturns
  LapsedLockIsTakenOver
CHECK_DEADLOCK FALSE
