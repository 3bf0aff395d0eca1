SPECIFICATION Spec
CONSTANTS
  StaticSlots = 10
  SlotsPerPage = 3
  NumPages = 18
  UINTPTR_MAX = 100000
  GandrStart = 8192
  GandrEnd = 16384
  ExtStart = 24576
  IsaStart = 32768
  HighStart = 40960
  Word = 32768
  HalfWord = 8
  KiB = 1024
  Block = 4096
  Ranges <- SomeRanges
  BaseSizes = {0, 17408, 20480}
  Counts = {0, 2, 10}
  MaxRanges = 3
INVARIANT StageOneKept
CHECK_DEADLOCK FALSE
