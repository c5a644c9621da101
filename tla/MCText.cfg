CONSTANTS
  CharBits = 4
  ShortBits = 8
  IntBits = 12
  LongBits = 24
  PRINTF_NTOA_BUFFER_SIZE = 12
  Kilo = 8
  MemSize = 24
  Calls <- MCCalls
  WordSize = 4
  ByteBits = 4
  Jobs <- MCJobs
SPECIFICATION LibrarySpec
INVARIANTS
  TruncatedLikeC
  ReadsLikeC
  FormatSize
  AgreesWithC
  MemoryAsByBytes
  StrlenExact
CHECK_DEADLOCK FALSE
