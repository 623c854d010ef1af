CONSTANTS
  SLOW_RATE = 2
  MaxHold = 3
  EncoderTurn <- MCTurn
  PotReading = {0, 2, 4}
  kEncoderScale = 3
  PotThreshold = 4
  MaxParam = 5
  Hands <- MCHands
  Conversion <- MCConversion
  kNumZsamples = 2
  kSlowTimeRatio = 2
SPECIFICATION Spec
INVARIANT ClicksFollowHand
INVARIANT PotTracked
PROPERTY NoJumpInFocus
PROPERTY FocusOnly
