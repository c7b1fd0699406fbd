SPECIFICATION MCSpec
CONSTANTS
  Young <- MCYoung
  Old <- MCOld
  Root = {r1, r2}
  Region = {1, 2}
  FieldCount <- MCFieldCount
  Shortcut <- MCShortcut
  External <- MCExternal
  SizeOf <- MCSizeOf
  Capacity <- MCCapacity
  Threshold = 2
  Nil = Nil
  Two = y2
  One = y1
  Cons = yc
  Extern = ye
  OldTwo = o1
  OldRoot = r2
  MaxPointers = 3
INVARIANTS
  VisitsFromSpaceOnly
  GraphPreserved
  MarksComplete
  RoomForQueue
  OnlyLiveSurvive
PROPERTIES
  ScavengeEnds
CHECK_DEADLOCK FALSE
