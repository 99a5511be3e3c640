CONSTANTS
  MaxTurns = 1
  MaxCalls = 2
  LeftOpen = 0
  MaxSteps = 1
  Parallel = TRUE
  Hazards = {"progressNotes"}
SPECIFICATION Spec
INVARIANTS
  HeaderIsFirst
CHECK_DEADLOCK FALSE
