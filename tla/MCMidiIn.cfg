CONSTANTS
  Session <- MCSession
  kMaxSysex = 8
  ClockPeriod = 2
SPECIFICATION Spec
INVARIANT DeliveredAsSent
INVARIANT ClockInStep
INVARIANT DeliversAgain
CHECK_DEADLOCK FALSE
