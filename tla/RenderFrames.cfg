SPECIFICATION SafetySpec
CONSTANTS
  FrameQSize = 4
  BufQSize = 4
  MaxStarts = 1
INVARIANTS FrameOwned
