SPECIFICATION Spec
CONSTANTS
  Outputs = {o1, o2}
  Surfaces = {s1}
  NoOutput = NoOutput
  Features = {"sleep", "vt", "modechange", "enablefail", "disable", "offscreen"}
INVARIANTS
  NoAbort
  IdleSourceMatches
  NeededIsScheduled
