SPECIFICATION FairSpec
CONSTANTS
  fifo_size = 2
  depth = 2
  Sizes = {0, 1, 3}
  MaxOut = 5
  MaxIn = 3
INVARIANT SpaceIsFree
PROPERTY ImplementsSerialPort
PROPERTY WriteReturns
CHECK_DEADLOCK FALSE
