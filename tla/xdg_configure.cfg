SPECIFICATION Spec
CONSTANTS
  MaxSize = 2
  MaxInFlight = 2
  Margins = {0, 1}
INVARIANT
  ClientKnows
PROPERTY
  Settles
