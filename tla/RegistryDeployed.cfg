CONSTANTS
  Workers = {w1, w2, w3}
  MaxItems = 3
  EnqueueWhileExiting = TRUE
  StartedListenerMayThrow = TRUE
  SettledListenerMayThrow = TRUE
  NoWorker = NoWorker
  WritesInOrder = TRUE
  OwnerCalls = {}
SPECIFICATION RegistrySpec
INVARIANTS
  LiveTurnIsEntry
  FlagCoversTurn
  FlagClearedAtRest
PROPERTIES
  GcSparesWork
  RefinesChannelQueue
CHECK_DEADLOCK FALSE
