SPECIFICATION Spec
CONSTANTS
  FrameQSize = 2
  BufQSize = 4
  MaxStarts = 1
INVARIANTS TypeOK TmuQuiet OnlyFinishedShown BuffersConserved
PROPERTIES DescriptorsStable EveryFrameShown EveryBufferAnalyzed
