----------------------------- MODULE NumericCode -----------------------------
(***************************************************************************)
(* What the three translations of numeric instructions share: elements of  *)
(* the compile-time stack, the form of a machine instruction, and the      *)
(* analysis of the operands of a division.                                 *)
(***************************************************************************)
EXTENDS WasmArithmetic, FiniteSets, SequencesExt

NONE == 99
(***************************************************************************)
(* An operand or a target: a constant, a scratch register, the register of *)
(* a local, or memory.  v is the value of a constant, r the cell of the    *)
(* machine that holds anything else.                                       *)
(***************************************************************************)
Elem(k, t, r, v) == [k |-> k, t |-> t, r |-> r, v |-> v]
Const(t, v) == Elem("const", t, NONE, v)
Scratch(t, r) == Elem("scratch", t, r, 0)
LocalReg(t, r) == Elem("local", t, r, 0)
Memory(t, r) == Elem("memory", t, r, 0)
NoElem == Elem("none", "I32", NONE, 0)
InReg(e) == e.k \in {"scratch", "local"}
InSameLocation(a, b) == a.k = b.k /\ a.k # "none" /\ a.r = b.r /\ a.v = b.v
EqualsVariable(a, b) == InSameLocation(a, b) /\ a.t = b.t
Retyped(e, type) == Elem(e.k, type, e.r, e.v)
IntType(type) == IF Is64(type) THEN "I64" ELSE "I32"

(***************************************************************************)
(* A machine instruction: its name, the cells it writes and reads, its     *)
(* immediate (read in place of b when b is NONE), a third operand or the   *)
(* number of instructions to jump over, and for an instruction that does   *)
(* what an instruction of WebAssembly does, which.                         *)
(***************************************************************************)
NoOp == Op("NONE", "I32", "I32")
Instr(n, d, a, b, i, x, op) == [n |-> n, d |-> d, a |-> a, b |-> b, i |-> i, x |-> x, op |-> op]
Ins(n, d, a, b) == Instr(n, d, a, b, 0, NONE, NoOp)
Imm(n, d, a, i) == Instr(n, d, a, NONE, i, NONE, NoOp)
Ins4(n, d, a, b, x) == Instr(n, d, a, b, 0, x, NoOp)
Jump(n, a, b, skip) == Instr(n, NONE, a, b, 0, skip, NoOp)
JumpImm(n, a, i, skip) == Instr(n, NONE, a, NONE, i, skip, NoOp)
TrapIns(code) == Ins(code, NONE, NONE, NONE)
Wasm(n, op, d, a, b) == Instr(n, d, a, b, 0, NONE, op)
TrapCodes == {"DIV_ZERO", "DIV_OVERFLOW", "TRUNC_OVERFLOW"}
Code(code, e) == [code |-> code, e |-> e]

(***************************************************************************)
(* What the constants among the operands of a division rule out.           *)
(***************************************************************************)
MustNotBeDivZero(a1) == a1.k = "const" /\ a1.v # 0
\* a faulty variant, to show what the properties detect
MustNotBeOverflowConst(a0, a1) ==
  \/ a0.k = "const"
  \/ a1.k = "const" /\ a1.v # Size(Bits(a1.t)) - 1
MustNotBeOverflow(a0, a1) ==
  \/ a0.k = "const" /\ a0.v # Top(Bits(a0.t))
  \/ a1.k = "const" /\ a1.v # Size(Bits(a1.t)) - 1

(***************************************************************************)
(* The exclusive limits of the numbers that may be truncated, as numbers   *)
(* of the source type: 2^n or 2^(n-1) above, and below -1, or the number   *)
(* that comes next below -2^(n-1).                                         *)
(***************************************************************************)
TruncUpper(op) == Nearest(op.s, IF op.o = "TRUNC_U" THEN Size(Bits(op.t)) ELSE Top(Bits(op.t)))
TruncLower(op) ==
  IF op.o = "TRUNC_U" THEN Nearest(op.s, -1)
  ELSE LET next == Nearest(op.s, -Top(Bits(op.t)) - 1)
       IN IF next = Nearest(op.s, -Top(Bits(op.t))) THEN next + 1 ELSE next
=============================================================================
