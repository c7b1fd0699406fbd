SPECIFICATION Spec
CONSTANTS
  Sender = {c1}
  Closer = {}
  NoClient = NoClient
  Listening = TRUE
  kQueueInitialSize = 2
  MaxCalls = 2
  MaxEvents = 1
INVARIANTS
  EventCommandsRequested
CHECK_DEADLOCK FALSE
