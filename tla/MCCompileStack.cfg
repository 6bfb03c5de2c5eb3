SPECIFICATION Spec
CONSTANTS
  Scratch <- FourScratch
  ParamRegs <- Params
  Returns <- Rets
  Reserved = 2
  Signatures <- Sigs
  Results = 1
  Liberties = {}
  Shapes <- TheShapes
INVARIANTS
  StateDenotes
  EffectsInOrder
  ExecutesAsWritten
CHECK_DEADLOCK FALSE
