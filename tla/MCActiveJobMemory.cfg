SPECIFICATION FairSpec
CONSTANTS
  MaxUint = 7
  PageSize = 2
  PageLimit = 4
  InitialPages = 1
  BasedataSize = 1
  AccessMax = 2
  RamLimits = {4,7}
  MinLength = 1
  Slack = 2
  Address <- MCAddress
  NoAddress = NoAddress
  Byte <- MCByte
  Junk = Junk
  Nothing = Nothing
  DataSegments <- OneSegment
  WasmAccesses <- SomeAccesses
  HostRegions <- SomeRegions
  ShrinkLengths = {1}
  GrowDeltas = {3,7}
  Interrupter = {t1}
  NoThread = NoThread
CHECK_DEADLOCK FALSE
INVARIANTS TypeOK RegistersCurrent UsableBacked
PROPERTIES GrowthWithinMaxRam ImplementsLinearMemory RequestNotOvertaken RequestEndsExecution
