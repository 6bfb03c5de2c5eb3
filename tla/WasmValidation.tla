--------------------------- MODULE WasmValidation ---------------------------
(***************************************************************************)
(* The validation algorithm of the WebAssembly specification: a stack of   *)
(* control frames, each with the operands pushed in it, decides for one    *)
(* instruction after the other whether the function body is valid.         *)
(*                                                                         *)
(* It is tolerant in one point, which the release notes announce: of a     *)
(* br_table in code that cannot execute ("dead"), the types of the first   *)
(* label are checked and the other labels must have as many.               *)
(***************************************************************************)
EXTENDS WasmInstructions, SequencesExt

CONSTANTS
  FunctionType,  \* the signature of the function
  Instruction    \* the instructions a body may contain

VARIABLES
  frames,        \* control frames, the innermost one last
  verdict,       \* "valid" so far, "rejected", or "done"
  instruction,   \* the last instruction looked at
  dead           \* input: the instruction that comes next cannot execute

validationVars == <<frames, verdict, instruction>>

Frame(op, type, operands, unreachable) ==
  [op |-> op, type |-> type, operands |-> operands, unreachable |-> unreachable]

Opened(op, type) == Frame(op, type, type.params, FALSE)

Innermost == Last(frames)
Outer == Front(frames)
Operands == Innermost.operands

Has(types) == FitsAtEnd(Operands, types, Innermost.unreachable)
HasExactly(types) == Has(types) /\ Len(Operands) <= Len(types)
Without(types) == Keep(Operands, Len(Operands) - Len(types))

Holding(stack, operands) ==
  LET f == Last(stack)
  IN  Append(Front(stack), Frame(f.op, f.type, operands, f.unreachable))

Now(operands) == Holding(frames, operands)
Unreachable == Append(Outer, Frame(Innermost.op, Innermost.type, <<>>, TRUE))

Labels(i) == {i.labels[k] : k \in DOMAIN i.labels}
LabelExists(depth) == depth < Len(frames)
LabelTypes(depth) ==
  LET f == frames[Len(frames) - depth]
  IN  IF f.op = "loop" THEN f.type.params ELSE f.type.results

Decide(valid, framesAfter) ==
  IF valid THEN frames' = framesAfter /\ verdict' = "valid"
           ELSE verdict' = "rejected" /\ UNCHANGED frames

-----------------------------------------------------------------------------
PlainInstruction(i) ==
  /\ i.op = "plain"
  /\ Decide(Has(i.type.params), Now(Without(i.type.params) \o i.type.results))

Drop(i) ==
  /\ i.op = "drop"
  /\ Decide(Operands # <<>> \/ Innermost.unreachable, Now(Keep(Operands, Len(Operands) - 1)))

\* two operands of one type under the condition
Select(i) ==
  LET rest == Without(<<"i32">>)
      operand(k) == IF k < Len(rest) THEN rest[Len(rest) - k] ELSE "any"
      result == IF operand(0) = "any" THEN operand(1) ELSE operand(0)
  IN  /\ i.op = "select"
      /\ Decide(/\ Has(<<"i32">>)
                /\ Len(rest) >= 2 \/ Innermost.unreachable
                /\ Fits(operand(0), operand(1)) \/ Fits(operand(1), operand(0)),
                Now(Append(Keep(rest, Len(rest) - 2), result)))

Enter(i) ==
  LET needed == IF i.op = "if" THEN Append(i.type.params, "i32") ELSE i.type.params
  IN  /\ i.op \in {"block", "loop", "if"}
      /\ Decide(Has(needed), Append(Now(Without(needed)), Opened(i.op, i.type)))

Else(i) ==
  LET f == Innermost
  IN  /\ i.op = "else"
      /\ Decide(f.op = "if" /\ HasExactly(f.type.results),
                Append(Outer, Opened("else", f.type)))

\* an if without else has an empty one
End(i) ==
  LET f == Innermost
      valid == /\ HasExactly(f.type.results)
               /\ f.op = "if" => f.type.params = f.type.results
  IN  /\ i.op = "end"
      /\ IF valid /\ Outer = <<>>
         THEN frames' = <<>> /\ verdict' = "done"
         ELSE Decide(valid, Holding(Outer, Last(Outer).operands \o f.type.results))

Branch(i) ==
  LET depth == i.labels[1]
      types == LabelTypes(depth)
  IN  \/ /\ i.op = "br"
         /\ Decide(LabelExists(depth) /\ Has(types), Unreachable)
      \/ /\ i.op = "br_if"
         /\ Decide(LabelExists(depth) /\ Has(Append(types, "i32")),
                   Now(Without(Append(types, "i32")) \o types))

BranchTable(i) ==
  LET first == LabelTypes(i.labels[1])
  IN  /\ i.op = "br_table"
      /\ Decide(/\ \A depth \in Labels(i) : LabelExists(depth)
                /\ Has(Append(first, "i32"))
                /\ \A depth \in Labels(i) :
                     /\ Len(LabelTypes(depth)) = Len(first)
                     /\ dead \/ Has(Append(LabelTypes(depth), "i32")),
                Unreachable)

Leave(i) ==
  \/ i.op = "unreachable" /\ Decide(TRUE, Unreachable)
  \/ i.op = "return" /\ Decide(Has(FunctionType.results), Unreachable)
  \/ /\ i.op = "return_call"
     /\ Decide(Has(i.type.params) /\ i.type.results = FunctionType.results, Unreachable)

Init ==
  /\ frames = <<Frame("function", FunctionType, <<>>, FALSE)>>
  /\ verdict = "valid"
  /\ instruction = Simple("none")

Next ==
  /\ verdict = "valid"
  /\ instruction' \in Instruction
  /\ \E i \in {instruction'} :
       \/ PlainInstruction(i) \/ Drop(i) \/ Select(i)
       \/ Enter(i) \/ Else(i) \/ End(i)
       \/ Branch(i) \/ BranchTable(i) \/ Leave(i)

Spec == Init /\ [][Next]_validationVars
=============================================================================
