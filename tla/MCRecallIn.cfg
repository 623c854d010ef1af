CONSTANTS
  Session <- MCSession
  kMaxSysex = 8
SPECIFICATION RecallSpec
INVARIANT BackInStep
INVARIANT SavesAsAsked
CHECK_DEADLOCK FALSE
