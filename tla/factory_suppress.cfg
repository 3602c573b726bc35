SPECIFICATION FactorySpec
CONSTANTS
  h = h
  x = x
  q1 = q1
  p1 = p1
  d1 = d1
  u1 = u1
  q2 = q2
  m2 = m2
  p2 = p2
  sh = sh
  y1 = y1
  y2 = y2
  r1 = r1
  r2 = r2
  None = None
  Topics <- MCTopics
  Events <- MCEvents
  To <- MCTo
  Cause <- MCCause
  Subs <- MCSubs
  TopicOf <- MCTopicOf
  Prefetch <- MCPrefetch
  Callers <- MCCallers
  Impatient <- MCImpatient
  MaxRetries = 2
  Request <- MCRequest
  ReplySub <- MCReplySub
  Domained <- MCDomained
  Unaddressed <- MCUnaddressed
PROPERTIES
  SuppressEndsHandling
CHECK_DEADLOCK FALSE
