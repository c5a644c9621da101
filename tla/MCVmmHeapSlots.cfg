CONSTANTS
  f1 = f1
  f2 = f2
  f3 = f3
  f4 = f4
  f5 = f5
  f6 = f6
  NoFrame = NoFrame
  HeapPages = 7
  MaxRanges = 4
  Sizes <- MCSizes
  Frames <- MCFrames
  Tables <- MCTables
  Walk <- MCWalk
SYMMETRY FrameSymmetry
SPECIFICATION Spec
INVARIANTS
  SlotPanicIsReal
