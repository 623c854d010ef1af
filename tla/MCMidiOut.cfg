CONSTANTS
  s = s
  d = d
  e = e
  EmptyByte = d
  Message <- MCMessage
  kMidiQueueSize = 5
  TxDepth = 2
  BootQueued = 4
  MaxQueued = 8
SPECIFICATION FairSpec
INVARIANT PendingWhenWaiting
PROPERTY AllSent
PROPERTY CallersReturn
PROPERTY ImplementsFifo
CHECK_DEADLOCK FALSE
