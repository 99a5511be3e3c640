CONSTANTS
  Channels = {c1}
  NoChannel = NoChannel
  BoardChannels = {}
  MaxPrompts = 1
  MaxMessages = 7
  MaxCrashes = 2
  Hazards = {"purge", "longOutage", "reconcileFails", "noAgent", "replayThrows", "promptDuringPass"}
SPECIFICATION FairSpec
PROPERTIES
  RecoveryEnds
CHECK_DEADLOCK FALSE
