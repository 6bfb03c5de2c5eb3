CONSTANTS
  t1 = t1
  t2 = t2
  r1 = r1
  r2 = r2
  Threads = {t1, t2}
  Runtimes = {r1, r2}
  MaxDepth = 5
  MaxWrites = 2
  MaxSkipped = 1
  Liberties = {}
SPECIFICATION Spec
SYMMETRY Symmetry
INVARIANTS
  TrapTargetLive
  TraceLive
  GlobalsKept
  FaultFindsRuntime
  HandlersRestored
