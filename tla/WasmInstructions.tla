-------------------------- MODULE WasmInstructions --------------------------
(***************************************************************************)
(* Instructions of a function body as far as validation and control flow   *)
(* tell them apart.  A "plain" instruction pops the parameters of its type *)
(* and pushes the results: constants, arithmetic, loads and stores, local  *)
(* and global variables, calls.                                            *)
(***************************************************************************)
EXTENDS Integers, Sequences

Signature(params, results) == [params |-> params, results |-> results]

(***************************************************************************)
(* "labels" are branch depths; "known" is what the compiler knows of the   *)
(* condition of an if or br_if: nothing, or that it is a constant.         *)
(***************************************************************************)
Instr(op, type, labels, known) ==
  [op |-> op, type |-> type, labels |-> labels, known |-> known]

NoType == Signature(<<>>, <<>>)

Plain(params, results) == Instr("plain", Signature(params, results), <<>>, "nothing")
Simple(op) == Instr(op, NoType, <<>>, "nothing")
Structured(op, type) == Instr(op, type, <<>>, "nothing")
If(type, known) == Instr("if", type, <<>>, known)
Br(depth) == Instr("br", NoType, <<depth>>, "nothing")
BrIf(depth, known) == Instr("br_if", NoType, <<depth>>, known)
BrTable(depths) == Instr("br_table", NoType, depths, "nothing")
ReturnCall(type) == Instr("return_call", type, <<>>, "nothing")

(***************************************************************************)
(* Matching operands with types from the end.  Operands that are missing   *)
(* may be made up in unreachable code; "any" is an operand of no known     *)
(* type.                                                                   *)
(***************************************************************************)
Fits(operand, type) == operand \in {type, "any"}

FitsAtEnd(operands, types, madeUp) ==
  /\ madeUp \/ Len(types) <= Len(operands)
  /\ \A k \in 0 .. Len(types) - 1 :
       k < Len(operands) => Fits(operands[Len(operands) - k], types[Len(types) - k])

Keep(sequence, n) == SubSeq(sequence, 1, n)
=============================================================================
