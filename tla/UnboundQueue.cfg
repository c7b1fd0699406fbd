SPECIFICATION MCSpec
CONSTANTS
  Record = {r1, r2}
  Node = {n1, n2, n3, n4}
  NULL = NULL
  MaxLinked = 6
INVARIANTS NoUseAfterFree NothingLeaked
PROPERTIES IsFifo
CHECK_DEADLOCK FALSE
