CONSTANTS
  MaxTurns = 2
  MaxCalls = 4
  LeftOpen = 1
  MaxSteps = 1
  Parallel = FALSE
  Hazards = {"progressNotes"}
SPECIFICATION Spec
INVARIANTS
  RunsOpenCalls
  BlockedPastLimit
  StepsEndClosed
PROPERTIES
  ResultKept
CHECK_DEADLOCK FALSE
