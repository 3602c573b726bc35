SPECIFICATION FairSpec
CONSTANTS
  a1 = a1
  a2 = a2
  a3 = a3
  b1 = b1
  n1 = n1
  A = A
  B = B
  None = None
  Calls <- MCCalls
  Tools <- MCTools
  ToolOf <- MCToolOf
  Remote <- MCRemote
  Restricted <- MCRestricted
  Priority <- MCPriority
  MaxInteractions = 2
  EnableCleanUp = TRUE
  MaxRestarts = 1
  MaxRedeliveries = 1
INVARIANTS
  TypeOK
  EveryCallAnsweredOnce
  PermittedRuns
  PermissionsCleared
PROPERTIES
  EveryWorkflowEnds
CHECK_DEADLOCK FALSE
