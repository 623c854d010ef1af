CONSTANTS
  Session <- MCNotes
  kMaxSysex = 8
SPECIFICATION RecallSpec
INVARIANT RealTimeHandled
CHECK_DEADLOCK FALSE
