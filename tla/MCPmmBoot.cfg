CONSTANTS
  PageSize = 4
  ByteBits = 2
  IntValues = 128
  SizeValues = 512
  MemMaps <- MCAllMaps
  Limit = 60
SPECIFICATION Spec
INVARIANTS
  ClaimsSucceed
  BitmapNotHandedOut
  RegionsCutExactly
  RoomPanicIsReal
