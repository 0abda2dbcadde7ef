CONSTANTS
  RxSize = 2
  TxSize = 2
  MaxIn = 2
  MaxOut = 3
SPECIFICATION Spec
INVARIANT TypeOK
PROPERTIES WaitsForTransmitter SentInOrder EverySent ReadInOrder EveryRead
\* The program may have nothing left to read or write.
CHECK_DEADLOCK FALSE
