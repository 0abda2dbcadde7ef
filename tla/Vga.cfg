CONSTANTS
  A = A
  B = B
  C = C
  Boot = Boot
  NBursts = 3
  MaxFrames = 4
SPECIFICATION Spec
INVARIANTS TypeOK BackNeverRead WholePicture
PROPERTIES RequestTaken ImplementsDisplay SwapReturns EveryPictureShown
