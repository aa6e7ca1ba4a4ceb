SPECIFICATION Spec
CONSTANTS
  Outputs = {o1, o2}
  Apis = {TRUE, FALSE}
  AtomicFeatures = {"sleepevent", "sleeploop", "vt", "novblank", "renderfail", "commitfail", "replug", "apart"}
  LegacyFeatures = {"sleepevent", "sleeploop", "vt", "novblank", "renderfail", "commitfail"}
INVARIANTS
  FlipHasEvent
  DeferredHasFlip
CHECK_DEADLOCK FALSE
