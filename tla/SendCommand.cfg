SPECIFICATION Spec
CONSTANTS
  Sender = {c1}
  Closer = {}
  NoClient = NoClient
  Listening = TRUE
  kQueueInitialSize = 2
  MaxCalls = 2
  MaxEvents = 0
INVARIANTS
  CommandsRequested
CHECK_DEADLOCK FALSE
