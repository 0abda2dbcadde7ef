SPECIFICATION Spec
CONSTANTS
  Size = 4
  KernelFrames = 2
  InitrdFrames = 2
  MAX_FAILED = 2
  NoisyReplies = TRUE
  Chains <- ChainsMC
  Entries <- EntriesMC
  ClusterSectors = 2
  FatSectorEntries = 4
  FatEntries = 8
  PartialReads = FALSE
  Blocks = 3
  TIMEOUT_COUNT = 2
  HashEvery = 2
  Faults = 2
  PortsReused = TRUE
  Commands = 1
  HasCard = FALSE
CHECK_DEADLOCK FALSE
INVARIANT StartedWhole
