SPECIFICATION FairSpec
CONSTANTS
  a = a
  b = b
  e1 = e1
  e2 = e2
  e3 = e3
  e4 = e4
  s1 = s1
  s2 = s2
  s3 = s3
  c1 = c1
  c2 = c2
  None = None
  Topics <- MCTopics
  Events <- MCEvents
  To <- MCTo
  Cause <- MCCause
  Subs <- MCSubs
  TopicOf <- MCTopicOf
  Prefetch <- MCPrefetch
  Callers <- MCCallers
  Impatient <- MCImpatient
INVARIANTS
  CountsAreExact
PROPERTIES
  IdleMeansSettled
  EveryEventSettles
  IdleIsReportedIfNothingDiscarded
CHECK_DEADLOCK FALSE
