SPECIFICATION Spec
CONSTANTS
  t1 = t1
  t2 = t2
  isoA = isoA
  isoB = isoB
  Thread = {t1, t2}
  NoThread = NoThread
  Isolate = {isoD, isoA, isoB}
  NoIsolate = NoIsolate
  default_isolate = isoD
  initializer = t1
  Programs = {{"ScopeOfDefault"}, {"Locker"}, {"Locker", "ScopeOfDefault"}, {"Locker", "LockerInScope"}}
  MaxFrames <- MCMaxFrames
  MaxEntered = 3
SYMMETRY MCSymmetry
INVARIANTS NoDangling EnteredInUse SlotsAgree
PROPERTIES ExitRestores
