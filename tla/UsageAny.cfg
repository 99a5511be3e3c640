CONSTANTS
  p = p
  c = c
  Sessions <- MCSessions
  NoSession = NoSession
  Parent <- MCParent
  Scripts <- MCScripts
  DirectWriters = {d1}
  MaxBatch = 2
  MaxQueue = 3
  RetryAttempts = 2
  MaxFaults <- MCMaxFaults
SPECIFICATION FairSpec
INVARIANTS
  CountedOnce
  NothingVanishes
  CleanExitKeeps
  StatusFollowsEvents
PROPERTIES
  ClosedForGood
  QueueDrains
CHECK_DEADLOCK FALSE
