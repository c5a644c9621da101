CONSTANTS
  Levels = 3
  Fanout = 2
  Frames <- MCFrames
  FreeSets <- MCFreeSets
  PhysPages <- MCPhysPages
  Devices <- MCDevices
  MemoryPages = 3
  DirectMap = 0
  KernelVirt = 4
  KernelPhys = 0
  KernelPages = 1
  FbPhys = 1
  FbPages = 1
  MaxPages = 2
  MaxCalls = 2
SPECIFICATION Spec
INVARIANTS
  TablesAccountedFor
  TlbCoherent
PROPERTIES
  ReadyWhenActive
  ImplementsAddressSpace
