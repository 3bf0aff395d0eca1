SPECIFICATION FairSpec
CONSTANTS
  SECTOR_SIZE = 4
  Buffer = 20
  Half = 32
  Word = 1024
  MaxBlocks = 2
  Discs <- SomeDiscs
INVARIANT AbortsForReason
INVARIANT RestLoaded
PROPERTY ImplementsBootFile
PROPERTY BootEnds
CHECK_DEADLOCK FALSE
