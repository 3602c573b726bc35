SPECIFICATION FairSpec
CONSTANTS
  h1 = h1
  h2 = h2
  h3 = h3
  w1 = w1
  w2 = w2
  p1 = p1
  p2 = p2
  None = None
  Handlers <- MCHandlers
  Ids <- MCIds
  Subject <- AllOnParent
  Parent <- MCParent
  Processes <- MCProcesses
  ProcessOf <- TwoAndOne
  PoolMax = 1
  MaxRetries = 1
  EnableCleanup = TRUE
INVARIANTS
  TypeOK
  ExclusionUnlessCompromised
  ClientsAreReturned
PROPERTIES
  NoLostUpdate
  EveryExecutionEnds
CHECK_DEADLOCK FALSE
