SPECIFICATION Spec
CONSTANTS
  h1 = h1
  h2 = h2
  h3 = h3
  h4 = h4
  w1 = w1
  w2 = w2
  None = None
  Handlers <- Four
  Ids <- MCIds
  Subject <- ThreeAndOne
  LockMaxRetries = 2
  EnableCleanup = TRUE
  Timely = TRUE
  QuietCleanup = TRUE
  ReleaseWhenRejected = FALSE
INVARIANTS
  TypeOK
  MutualExclusion
  NoPhantomLock
PROPERTIES
  NoLostUpdate
CHECK_DEADLOCK FALSE
