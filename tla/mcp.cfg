SPECIFICATION Spec
CONSTANTS
  e1 = e1
  e2 = e2
  e3 = e3
  None = None
  Executions <- MCExecutions
  MaxVersion = 2
  MaxCalls = 1
SYMMETRY MCSymmetry
INVARIANTS
  TypeOK
  FreshStart
  SessionsEnd
CHECK_DEADLOCK FALSE
