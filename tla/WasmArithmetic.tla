--------------------------- MODULE WasmArithmetic ---------------------------
(***************************************************************************)
(* What WebAssembly promises of its numeric instructions: the result of an *)
(* instruction, or the trap it ends in.  An instruction is                 *)
(* [o |-> operation, t |-> type it is named for, s |-> type of operands],  *)
(* so that I64_EXTEND_I32_U is <<"EXTEND_U", "I64", "I32">>.               *)
(***************************************************************************)
EXTENDS Words

Ints == {"I32", "I64"}
Floats == {"F32", "F64"}
Is64(type) == type \in {"I64", "F64"}
Op(o, t, s) == [o |-> o, t |-> t, s |-> s]

IntCompare == {"EQ", "NE", "LT_S", "LT_U", "GT_S", "GT_U", "LE_S", "LE_U", "GE_S", "GE_U"}
FloatCompare == {"EQ", "NE", "LT", "GT", "LE", "GE"}
IntUnary == {"CLZ", "CTZ", "POPCNT", "EXTEND8_S", "EXTEND16_S"}
Division == {"DIV_S", "DIV_U", "REM_S", "REM_U"}
IntBinary == {"ADD", "SUB", "MUL", "AND", "OR", "XOR", "SHL", "SHR_S", "SHR_U", "ROTL", "ROTR"}
             \cup Division
FloatUnary == {"ABS", "NEG", "CEIL", "FLOOR", "TRUNC", "NEAREST", "SQRT"}
FloatBinary == {"ADD", "SUB", "MUL", "DIV", "MIN", "MAX", "COPYSIGN"}
Of(operations, types) == {Op(o, t, t) : o \in operations, t \in types}
TruncOps == {Op(o, t, s) : o \in {"TRUNC_S", "TRUNC_U"}, t \in Ints, s \in Floats}
ConvertOps == {Op(o, t, s) : o \in {"CONVERT_S", "CONVERT_U"}, t \in Floats, s \in Ints}
ReinterpretOps == {Op("REINTERPRET", "I32", "F32"), Op("REINTERPRET", "I64", "F64"),
                   Op("REINTERPRET", "F32", "I32"), Op("REINTERPRET", "F64", "I64")}
Ops ==
  Of(IntCompare \cup {"EQZ"} \cup IntUnary \cup IntBinary, Ints)
  \cup Of(FloatCompare \cup FloatUnary \cup FloatBinary, Floats)
  \cup TruncOps \cup ConvertOps \cup ReinterpretOps
  \cup {Op("EXTEND32_S", "I64", "I64"), Op("WRAP", "I32", "I64"), Op("EXTEND_S", "I64", "I32"),
        Op("EXTEND_U", "I64", "I32"), Op("DEMOTE", "F32", "F64"), Op("PROMOTE", "F64", "F32")}
  \cup Of({"SELECT"}, Ints \cup Floats)

IsCompare(op) == op.o \in IntCompare \cup FloatCompare \cup {"EQZ"}
Unary(op) == op.o \in {"EQZ"} \cup IntUnary \cup FloatUnary \/ op.s # op.t \/ op.o = "EXTEND32_S"
Arity(op) == IF op.o = "SELECT" THEN 3 ELSE IF Unary(op) THEN 1 ELSE 2
ResultType(op) == IF IsCompare(op) THEN "I32" ELSE op.t
ArgType(op, k) == IF k = 3 THEN "I32" ELSE op.s

-----------------------------------------------------------------------------
IntCompares(o, n, a, b) ==
  LET x == Signed(n, a)
      y == Signed(n, b)
  IN CASE o = "EQZ" -> a = 0
       [] o = "EQ" -> a = b      [] o = "NE" -> a # b
       [] o = "LT_S" -> x < y    [] o = "LT_U" -> a < b
       [] o = "GT_S" -> x > y    [] o = "GT_U" -> a > b
       [] o = "LE_S" -> x <= y   [] o = "LE_U" -> a <= b
       [] o = "GE_S" -> x >= y   [] o = "GE_U" -> a >= b

FloatCompares(o, type, a, b) ==
  IF IsNaN(type, a) \/ IsNaN(type, b) THEN o = "NE"
  ELSE LET x == Order(type, a)
           y == Order(type, b)
       IN CASE o = "EQ" -> x = y  [] o = "NE" -> x # y  [] o = "LT" -> x < y
            [] o = "GT" -> x > y  [] o = "LE" -> x <= y [] o = "GE" -> x >= y

IntResult(o, n, a, b) ==
  CASE o = "CLZ" -> Clz(n, a)
    [] o = "CTZ" -> Ctz(n, a)
    [] o = "POPCNT" -> Popcnt(n, a)
    [] o = "EXTEND8_S" -> SignExtend(W \div 4, n, a)
    [] o = "EXTEND16_S" -> SignExtend(W \div 2, n, a)
    [] o = "EXTEND32_S" -> SignExtend(W, n, a)
    [] o = "ADD" -> Mask(n, a + b)
    [] o = "SUB" -> Mask(n, a - b)
    [] o = "MUL" -> Mul(n, a, b)
    [] o = "AND" -> BitAnd(a, b)
    [] o = "OR" -> BitOr(a, b)
    [] o = "XOR" -> BitXor(a, b)
    [] o = "SHL" -> Shl(n, a, b % n)
    [] o = "SHR_S" -> Sar(n, a, b % n)
    [] o = "SHR_U" -> Shr(a, b % n)
    [] o = "ROTL" -> Rotl(n, a, b)
    [] o = "ROTR" -> Rotr(n, a, b)
    [] o = "DIV_U" -> a \div b
    [] o = "REM_U" -> a % b
    [] o = "DIV_S" -> Mask(n, Quotient(Signed(n, a), Signed(n, b)))
    [] o = "REM_S" -> Mask(n, Remainder(Signed(n, a), Signed(n, b)))

FloatResult(o, type, a, b) ==
  CASE o = "ABS" -> Magnitude(type, a)
    [] o = "NEG" -> WithSign(type, Magnitude(type, a), 1 - SignBit(type, a))
    [] o = "COPYSIGN" -> WithSign(type, Magnitude(type, a), SignBit(type, b))
    [] o = "MIN" -> FloatMin(type, a, b)
    [] o = "MAX" -> FloatMax(type, a, b)
    [] o \in {"ADD", "SUB", "MUL", "DIV"} -> FloatOp(type, o, a, b)
    [] OTHER -> FloatOp(type, o, a, a)

Result(op, v) ==
  LET n == Bits(op.s)
      second == IF Arity(op) > 1 THEN v[2] ELSE 0
  IN CASE op.o = "SELECT" -> IF v[3] # 0 THEN v[1] ELSE v[2]
       [] IsCompare(op) -> Bool(IF op.s \in Ints THEN IntCompares(op.o, n, v[1], second)
                                ELSE FloatCompares(op.o, op.s, v[1], second))
       [] op.o \in {"WRAP", "EXTEND_U"} -> Mask(Bits(op.t), v[1])
       [] op.o = "EXTEND_S" -> SignExtend(W, 2 * W, v[1])
       [] op.o = "REINTERPRET" -> v[1]
       [] op \in TruncOps -> Mask(Bits(op.t), Integer(op.s, v[1]))
       [] op.o = "CONVERT_S" -> Nearest(op.t, Signed(n, v[1]))
       [] op.o = "CONVERT_U" -> Nearest(op.t, v[1])
       [] op.o \in {"DEMOTE", "PROMOTE"} -> FloatResize(op.s, op.t, op.o, v[1])
       [] OTHER -> IF op.s \in Ints THEN IntResult(op.o, n, v[1], second)
                   ELSE FloatResult(op.o, op.s, v[1], second)

(***************************************************************************)
(* Division by zero, the quotient that does not fit, and a number whose    *)
(* integer part does not fit.                                              *)
(***************************************************************************)
TruncFits(op, x) ==
  /\ ~IsNaN(op.s, x) /\ Magnitude(op.s, x) # Infinity(op.s)
  /\ LET n == Integer(op.s, x)
     IN IF op.o = "TRUNC_U" THEN 0 <= n /\ n < Size(Bits(op.t))
        ELSE -Top(Bits(op.t)) <= n /\ n < Top(Bits(op.t))
Trap(op, v) ==
  CASE op.o \in Division /\ v[2] = 0 -> "DIV_ZERO"
    [] op.o = "DIV_S" /\ v[1] = Top(Bits(op.s)) /\ v[2] = Size(Bits(op.s)) - 1 -> "DIV_OVERFLOW"
    [] op \in TruncOps /\ ~TruncFits(op, v[1]) -> "TRUNC_OVERFLOW"
    [] OTHER -> "none"

\* A NaN that is computed may be any NaN; one that is moved keeps its bits.
SameResult(op, expected, actual) ==
  \/ expected = actual
  \/ /\ op.t \in Floats /\ ~IsCompare(op)
     /\ op.o \notin {"ABS", "NEG", "COPYSIGN", "REINTERPRET", "SELECT"}
     /\ IsNaN(op.t, expected) /\ IsNaN(op.t, actual)
=============================================================================
