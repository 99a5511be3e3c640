CONSTANTS
  Workers = {w1, w2}
  MaxItems = 3
  EnqueueWhileExiting = TRUE
  StartedListenerMayThrow = TRUE
  SettledListenerMayThrow = TRUE
SPECIFICATION Spec
INVARIANTS
  ItemsAccounted
  NoOvertaking
PROPERTIES
  ClosedForGood
  FreshTurnNotAborted
  RefinesPromptQueue
CHECK_DEADLOCK FALSE
