CONSTANTS
  HeapPages = 3
  PageSize = 5
  HeaderSize = 1
  BucketSizes <- MCBucketSizes
  SizeLimit = 64
  Sizes <- MCSizes
  Values <- MCValues
  Unknown = 7
  MaxBlocks = 3
SPECIFICATION Spec
INVARIANTS
  FreeListsExact
  BlocksApart
  PagesAccountedFor
  StopsIffMisused
PROPERTIES
  ImplementsBlockHeap
