SPECIFICATION FairSpec
CONSTANTS
  depth = 2
  brg_clock = 24000000
  Word = 1000000000
  Sizes = {0, 1, 3}
  Configs <- SomeConfigs
  MaxOut = 4
  MaxIn = 2
PROPERTY ImplementsSerialPort
INVARIANT DisturbsOneByte
PROPERTY WriteReturns
CHECK_DEADLOCK FALSE
