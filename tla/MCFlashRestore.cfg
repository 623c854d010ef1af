CONSTANTS
  SLOW_RATE = 2
  MaxHold = 3
  EncoderTurn = {0}
  PotReading = {0}
  kEncoderScale = 1
  PotThreshold = 2
  MaxParam = 7
  EarlyFetch = TRUE
  MaxActs = 3
  MaxBoots = 0
SPECIFICATION Spec
INVARIANT RestoresSettings
