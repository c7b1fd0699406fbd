SPECIFICATION Spec
CONSTANTS
  t1 = t1
  base1 = base1
  custom1 = custom1
  t2 = t2
  base2 = base2
  custom2 = custom2
  Thread = {t1, t2}
  NoThread = NoThread
  ThreadState = {s1, s2, s3}
  NoState = NoState
  Address = {base1, custom1, base2, custom2}
  kInterruptLimit = kInterruptLimit
  kIllegalLimit = kIllegalLimit
  BaseLimit <- MCBaseLimit
  CustomLimit <- MCCustomLimit
  Calls = {"SetResourceConstraints", "HandleScope"}
  MaxFrames = 3
  MaxScopes = 1
SYMMETRY MCSymmetry
INVARIANTS TypeOK RunningHoldsLock OwnDataRestored StatesDisjoint PoolBounded
