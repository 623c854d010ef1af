CONSTANTS
  Transfer <- MCTransfer
  RxSize = 5
  MaxTransfers = 3
  MaxRead = 2
  MidiRoom = 2
  BusRoom = 1
SPECIFICATION BridgeSpec
INVARIANT ExecutedAsMeant
INVARIANT ReadsTheResponse
INVARIANT PassedOn
CHECK_DEADLOCK FALSE
