CONSTANTS
  Frames <- MCFrames
  Region <- MCRegion
  Data <- MCData
SPECIFICATION KernelSpec
INVARIANTS
  FreelistSound
  OneOwner
  PanicIffDoubleFree
  NoPageLost
PROPERTIES
  OwnedPagesUntouched
  ImplementsFramePool
