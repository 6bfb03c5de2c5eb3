CONSTANTS
  Word = 128
  MemorySizes <- MCSizes
  Requests <- MCRequests
  Filler = 999
SPECIFICATION FairSpec
CHECK_DEADLOCK FALSE
INVARIANTS
  DoneAsIfAtOnce
PROPERTIES
  Ends
