SPECIFICATION Spec
CONSTANTS
  QSize = 4
  Volumes = 5
  Stamps = 5
  MaxStarts = 2
  StopWhenDry = FALSE
INVARIANTS HeadTransferred CodecSetUp
PROPERTIES EchoInOrder EveryRecordingHeard
CHECK_DEADLOCK FALSE
