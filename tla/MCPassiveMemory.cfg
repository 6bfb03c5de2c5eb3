CONSTANTS
  OsPage = 2
  PageSize = 4
  Space = 8
  PageLimit = 2
  InitialPages = 1
  PagedBasedata = 2
  Limits = {5, 8, 10}
  NoLimit = NoLimit
  Byte <- MCByte
  Nothing = Nothing
  DataSegments <- Segments
  WasmAccesses <- Accesses
  HostRegions <- Regions
  ShrinkLengths = {0, 2, 6}
  GrowDeltas = {1}
  Misalignments = {0, 8}
  Eager = FALSE
  StoresTear = TRUE
  Concurrent = FALSE
SPECIFICATION FairSpec
CHECK_DEADLOCK FALSE
INVARIANTS
  OutsideFaults
  StackPointerRestored
  UsageWithinLimit
PROPERTIES
  ImplementsLinearMemory
  AccessEnds
