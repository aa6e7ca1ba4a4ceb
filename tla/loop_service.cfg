SPECIFICATION Spec
CONSTANTS
  Outputs = {o1, o2}
  Surfaces = {s1}
  NoOutput = NoOutput
  Features = {"sleep", "vt"}
INVARIANTS
  TimerCoversScheduled
  AwaitingIsInFlight
  PrimaryOutputIsListed
PROPERTY
  ImplementsFrameService
