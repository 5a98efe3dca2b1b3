\* AskStream, whose own timeout is the only one.
CONSTANTS
  Capacity = 2
  MaxDeltas = 1
  MaxOthers = 0
  OwnTimeout = TRUE
SPECIFICATION Spec
INVARIANT UncancelledStreamCarriesAnswer
CHECK_DEADLOCK FALSE
