CONSTANTS
  FrameSize = 3
  SpiDepth = 2
  Enabled = {1}
  kDisplayRefreshCount = 2
  kTimeToBlank = 5
  MaxServed = 2
SPECIFICATION FairSpec
INVARIANT FrameWhole
INVARIANT LitAsMeant
PROPERTY NotBlankedEarly
PROPERTY Wakes
PROPERTY ShowsLatest
