SPECIFICATION AudioSpec
CONSTANTS
  Byte = {0, 1, 2, 3, 4, 5, 6}
  ZeroByte = 0
  QueueSize = 4
  BootRx = 3
  MaxRx = 6
  Half = 6
  StepTicks = {2, 4}
  OtherTicks = {1}
  ByteTicks = 5
  Delays = {4, 27}
  MaxDelays = 1
  Recovery = 11
  Wire <- MCWire
INVARIANTS
  BackInPhase
  OnlyHoldUpsLoseBytes
  RingSafe
PROPERTIES
  EveryByteDelivered
  ImplementsFifo
