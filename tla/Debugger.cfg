SPECIFICATION Spec
CONSTANTS
  Sender = {c1}
  Closer = {c2}
  NoClient = NoClient
  Listening = FALSE
  kQueueInitialSize = 2
  MaxCalls = 2
  MaxEvents = 1
INVARIANTS
  PermitsMatchCommands
  CommandsInOrder
  InsideHoldsLock
  CommandsGetProcessed
PROPERTIES
  ClosedDebuggerLeaves
CHECK_DEADLOCK FALSE
