SPECIFICATION Spec
CONSTANTS
  RegCount = 24
  ProgSize = 100
  PageSize = 100
  Presets <- PresetsMC
  Depth <- DepthMC
  MaxDepth = 3
  MaxFrames = 2
  Vertices = 2
INVARIANTS ReadsCorrect VertexCorrect NoCollision
CHECK_DEADLOCK FALSE
