SPECIFICATION Spec
CONSTANTS
  t1 = t1
  t2 = t2
  t3 = t3
  Targets = {t1, t2, t3}
  Old = {t2}
  Deaf = {t3}
  None = None
INVARIANTS
  ActionsAgree
  
PROPERTIES
  
  FinishedIsSettled
CHECK_DEADLOCK FALSE
