SPECIFICATION Spec
CONSTANTS
  Machines <- AtfMachines
  RampBits = {6, 8}
  Sector = 2
  Scratch = 4
  Top = 16
  MaxBlocks = 3
  Room = 12
  Handles = {"f", "g"}
  Volume <- SomeVolume
  Word = 64
  Lengths = {0, 3, 9}
  Offsets = {0, 2, 64}
  Whences = {"SET", "CUR", "END"}
  MaxOps = 5
  Chunk = 2
  Space = 18
  CellWord = 8192
  NumPages = 5
  RegsSize = 2
  GarbageSizes = {1, 3}
  PACKET_SIZE = 2
  Load = 3
  Megabyte = 12
  NameLength = 9
INVARIANT SomeMemoryKept
CHECK_DEADLOCK FALSE
