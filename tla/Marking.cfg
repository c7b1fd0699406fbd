SPECIFICATION MCSpec
CONSTANTS
  Object = {o1, o2, o3, o4}
  Root = o1
  StackSize = 1
  MaxFields = 3
  MaxWeak = 1
  MaxGroups = 2
INVARIANTS
  TypeOK
  NothingForgotten
  MarkedIsLive
  PendingIsWeaklyReachable
PROPERTIES
  MarkingEnds
CHECK_DEADLOCK FALSE
