CONSTANTS
  RxSize = 2
  TxSize = 2
  MaxIn = 1
  MaxOut = 3
SPECIFICATION Spec
PROPERTY LockedTransmitter
CHECK_DEADLOCK FALSE
