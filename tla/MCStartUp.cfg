CONSTANTS
  FrameBytes = 4
  BootWaitStates = {4, 7}
  Flash <- MCFlash
SPECIFICATION FairSpec
INVARIANT ClocksAsMeant
INVARIANT TimeGiven
INVARIANT DisplaysReady
INVARIANT CodecAsMeant
INVARIANT CalibrationSound
PROPERTY Boots
CHECK_DEADLOCK FALSE
