CONSTANTS
  f1 = f1
  f2 = f2
  f3 = f3
  f4 = f4
  f5 = f5
  f6 = f6
  NoFrame = NoFrame
  HeapPages = 5
  MaxRanges = 3
  Sizes <- MCSizes
  Frames <- MCFiveFrames
  Tables <- MCTables
  Walk <- MCWalk
SPECIFICATION Spec
INVARIANTS
  HeapPartition
  MappedIffLive
  FramesAccountedFor
PROPERTIES
  ImplementsPageHeap
  CallsEnd
