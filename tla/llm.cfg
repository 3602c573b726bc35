SPECIFICATION Spec
CONSTANTS
  a = a
  b = b
  c = c
  d = d
  e = e
  None = None
  Permission = Permission
  Calls <- MCCalls
  Parts <- MCParts
  Kind <- MCKind
  Attachments <- MCAttachments
  MaxInteractions = 2
  MaxBatch = 2
INVARIANTS
  TypeOK
  StreamedAsSent
  EveryCallHasItsResult
  MediaShownOnce
PROPERTIES
  ConversationGrows
CHECK_DEADLOCK FALSE
