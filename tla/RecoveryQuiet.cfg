CONSTANTS
  Channels = {c1, c2}
  NoChannel = NoChannel
  BoardChannels = {c2}
  MaxPrompts = 2
  MaxMessages = 6
  MaxCrashes = 1
  Hazards = {"purge", "longOutage", "reconcileFails", "replayThrows"}
SPECIFICATION Spec
INVARIANTS
  HeldIsFound
  ReplaysInOrder
  NoneForgotten
CHECK_DEADLOCK FALSE
