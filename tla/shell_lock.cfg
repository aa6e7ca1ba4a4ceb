SPECIFICATION Spec
CONSTANTS
  o1 = o1
  o2 = o2
  Outputs = {o1, o2}
  DeathLimit = 2
INVARIANTS
  LockedIsAnswered
  AskedOnce
PROPERTIES
  ScreenReturns
  GoesIdle
