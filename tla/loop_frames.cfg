SPECIFICATION Spec
CONSTANTS
  Outputs = {o1}
  Surfaces = {s1, s2}
  NoOutput = NoOutput
  Features = {"sleep", "vt"}
PROPERTIES
  CallbackIsAnswered
  FeedbackIsAnswered
