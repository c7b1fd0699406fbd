SPECIFICATION Spec
CONSTANTS
  t1 = t1
  base1 = base1
  custom1 = custom1
  t2 = t2
  base2 = base2
  custom2 = custom2
  Thread = {t1, t2}
  NoThread = NoThread
  ThreadState = {s1, s2}
  NoState = NoState
  Address = {base1, custom1, base2, custom2}
  kInterruptLimit = kInterruptLimit
  kIllegalLimit = kIllegalLimit
  BaseLimit <- MCBaseLimit
  CustomLimit <- MCCustomLimit
  Calls = {"TerminateExecution", "StartPreemption", "PostponeInterruptsScope"}
  MaxFrames = 2
  MaxScopes = 1
SYMMETRY MCSymmetry
INVARIANTS InterruptsSeen FreeStatesClean
PROPERTIES TerminationKept
