SPECIFICATION Spec
CONSTANTS
  Outputs = {o1}
  Apis = {TRUE}
  AtomicFeatures = {"sleepevent"}
  LegacyFeatures = {}
PROPERTY
  DamageIsRepainted
CHECK_DEADLOCK FALSE
