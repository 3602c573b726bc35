SPECIFICATION FairSpec
CONSTANTS
  A = A
  B = B
  H = H
  Elsewhere = Elsewhere
  d1 = d1
  p1 = p1
  m1 = m1
  u1 = u1
  r1 = r1
  dj = dj
  pj1 = pj1
  pj2 = pj2
  rj1 = rj1
  rj2 = rj2
  None = None
  Home = H
  Names <- MCNames
  Events <- MCEvents
  To <- MCTo
  Cause <- MCCause
  Domained <- MCDomained
  Jobs <- MCJobs
  EventOf <- MCEventOf
  Bare = {B}
  Throttled = {H}
  Recreate <- MCRecreate
  Concurrency <- MCConcurrency
  RetryLimit <- MCRetryLimit
  MaxCrashes = 1
INVARIANTS
  TypeOK
  CompletedMeansHanded
  DuplicatesComeFromRetries
  NothingIsDropped
PROPERTIES
  EveryJobEnds
CHECK_DEADLOCK FALSE
