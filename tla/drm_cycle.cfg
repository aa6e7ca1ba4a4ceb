SPECIFICATION Spec
CONSTANTS
  Outputs = {o1, o2}
  Apis = {TRUE, FALSE}
  AtomicFeatures = {"vt", "novblank"}
  LegacyFeatures = {"sleepevent", "vt"}
INVARIANTS
  TypeOK
  NoAbort
  AwaitingHasFlip
  OnIsShown
PROPERTIES
  ImplementsFrameService
  DestroyedInTheEnd
  SleepsDark
