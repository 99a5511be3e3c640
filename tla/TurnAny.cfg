CONSTANTS
  MaxTurns = 2
  MaxCalls = 2
  LeftOpen = 1
  MaxSteps = 1
  Parallel = TRUE
  Hazards = {"deadline", "stall", "tooLong", "lostWrites", "reconcile", "progressNotes"}
SPECIFICATION FairSpec
INVARIANTS
  PromptClosed
PROPERTIES
  TurnReturns
CHECK_DEADLOCK FALSE
