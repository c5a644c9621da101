CONSTANTS
  PageSize = 4
  ByteBits = 2
  IntValues = 128
  SizeValues = 512
  MemMaps <- MCAllMaps
  Limit = 250
SPECIFICATION Spec
INVARIANTS
  RoomPanicIsReal
