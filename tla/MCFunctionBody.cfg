SPECIFICATION Spec
CONSTANTS
  Number = {"i32", "i64"}
  FunctionType <- Produce
  Instruction <- AllInstructions
  MaxElements = 6
  MaxNesting = 4
VIEW View
INVARIANTS
  AnyOnlyWhereUnreachable
  CompileStackAgrees
PROPERTIES
  ImplementsValidation
\* a body ends or is rejected
CHECK_DEADLOCK FALSE
