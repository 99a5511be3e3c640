CONSTANTS
  Workers = {w1, w2}
  MaxItems = 3
  EnqueueWhileExiting = FALSE
  StartedListenerMayThrow = FALSE
  SettledListenerMayThrow = FALSE
  NoWorker = NoWorker
  WritesInOrder = TRUE
  OwnerCalls = {"close", "closeAll", "drainAll", "shutdown"}
SPECIFICATION RegistryFairSpec
INVARIANTS
  EntryIsWired
  BacklogAttended
  ClosedHoldsNothing
PROPERTIES
  EveryPromptSettles
  DrainCompletes
CHECK_DEADLOCK FALSE
