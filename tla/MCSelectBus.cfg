CONSTANTS
  TxDepth = 3
  Width = 10
  MaxMessages = 5
  MaxOwed = 4
  MaxForeign = 3
SPECIFICATION BusSpec
INVARIANT EchoNeverParsed
INVARIANT Ledger
INVARIANT ForeignLostToRaces
CHECK_DEADLOCK FALSE
