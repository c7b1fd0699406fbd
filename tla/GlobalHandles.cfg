SPECIFICATION Spec
CONSTANTS
  Node = {n1, n2, n3}
  NULL = NULL
  MaxNesting = 3
SYMMETRY MCSymmetry
INVARIANTS ListsConsistent WeakCounted AllNotified WalkSafe
