SPECIFICATION Spec
CONSTANTS
  ExpBits = 4
  FracBits = 3
  WordBits = 8
  Characters = {0, 65, 66}
  MemorySize = 5
  Numbers <- NumbersMC
  banks <- BanksMC
  RecordSize = 8
  Sizes = {0, 1, 10}
  Alignments = {1, 24}
  Frequency = 6
  MaxSec = 2
  OPQ_SIZE = 2
  Bytes = 3
  Lines <- LinesMC
  LineSize = 10
  RamSize = 6
  BytesPerWord = 2
  LeftToRight = TRUE
  Uptimes = {0, 59, 60, 3599, 3600, 86399, 86400, 90061, 123456}
  Cards <- CardsMC
  Directories <- DirectoriesMC
  FragSize = 3
  Fragments = 3
  MaxPresets = 2
  Debounce = 1
  ShownTicks = 1
INVARIANTS FloatsAsPromised TextAsPromised HeapSound TimersRight
CHECK_DEADLOCK FALSE
