-------------------------------- MODULE Words --------------------------------
(***************************************************************************)
(* Machine words of a few bits, and floating point numbers of a few bits.  *)
(* A 32-bit value of the program is a word of W = 8 bits, a 64-bit value a *)
(* word of 2 * W bits; an F32 has 5 bits of exponent and 2 of mantissa, an *)
(* F64 5 and 10, so that, as in the program, the mantissa of an F32 is     *)
(* shorter than an I32, that of an F64 is longer than an I32 and shorter   *)
(* than an I64, and both reach past the largest I64.                       *)
(***************************************************************************)
EXTENDS Integers, Sequences, Bitwise

W == 8
Bits(type) == IF type \in {"I32", "F32"} THEN W ELSE 2 * W
Size(n) == 2 ^ n                        \* how many words of n bits there are
Mask(n, x) == x % Size(n)
Top(n) == 2 ^ (n - 1)                    \* the sign bit alone
Signed(n, x) == IF x >= Top(n) THEN x - Size(n) ELSE x
SignExtend(from, to, x) == Mask(to, Signed(from, Mask(from, x)))
Neg(n, x) == Mask(n, Size(n) - x)
Bit(x, k) == (x \div 2 ^ k) % 2
Bool(b) == IF b THEN 1 ELSE 0

\* Bitwise operations four bits at a time.
AND4 == [a \in 0 .. 15, b \in 0 .. 15 |-> a & b]
ByNibble(a, b, F(_, _)) ==
  F(a % 16, b % 16) + 16 * F((a \div 16) % 16, (b \div 16) % 16)
  + 256 * F((a \div 256) % 16, (b \div 256) % 16) + 4096 * F(a \div 4096, b \div 4096)
BitAnd(a, b) == ByNibble(a, b, LAMBDA x, y : AND4[x, y])
BitOr(a, b) == a + b - BitAnd(a, b)
BitXor(a, b) == a + b - 2 * BitAnd(a, b)
BitNot(n, a) == Size(n) - 1 - a

\* Shifts by less than the width, and rotations by any count.
Shl(n, x, k) == Mask(n, Mask(n - k, x) * 2 ^ k)
Shr(x, k) == x \div 2 ^ k
Sar(n, x, k) == Mask(n, Signed(n, x) \div 2 ^ k)
Rotl(n, x, k) == LET c == k % n IN Mask(n, Mask(n - c, x) * 2 ^ c + Shr(x, n - c))
Rotr(n, x, k) == Rotl(n, x, n - (k % n))

\* The low n bits of a product; no intermediate result needs more than 31 bits.
Mul(n, a, b) == Mask(n, Mask(n, a * (b % 256)) + 256 * Mask(8, a * (b \div 256)))

Ones(n, x) == {k \in 0 .. n - 1 : Bit(x, k) = 1}
Clz(n, x) == IF x = 0 THEN n ELSE n - 1 - CHOOSE k \in Ones(n, x) : x < 2 ^ (k + 1)
Ctz(n, x) == IF x = 0 THEN n ELSE CHOOSE k \in Ones(n, x) : x % 2 ^ k = 0
Popcnt(n, x) == LET f[k \in 0 .. n] == IF k = 0 THEN 0 ELSE f[k - 1] + Bit(x, k - 1) IN f[n]

\* Division rounds to zero.
Abs(x) == IF x < 0 THEN -x ELSE x
Quotient(a, b) == IF (a < 0) = (b < 0) THEN Abs(a) \div Abs(b) ELSE -(Abs(a) \div Abs(b))
Remainder(a, b) == a - b * Quotient(a, b)

-----------------------------------------------------------------------------
(***************************************************************************)
(* Floating point numbers, by the number of mantissa bits.                 *)
(***************************************************************************)
MantissaBits(type) == IF type = "F32" THEN 2 ELSE 10
Bias == 7
MaxExponent == 31
Exponent(type, x) == (x \div 2 ^ MantissaBits(type)) % 32
Mantissa(type, x) == x % 2 ^ MantissaBits(type)
SignBit(type, x) == x \div Top(Bits(type))
Magnitude(type, x) == x % Top(Bits(type))
Infinity(type) == MaxExponent * 2 ^ MantissaBits(type)
CanonicalNaN(type) == Infinity(type) + 2 ^ (MantissaBits(type) - 1)
IsNaN(type, x) == Magnitude(type, x) > Infinity(type)
WithSign(type, magnitude, sign) == magnitude + sign * Top(Bits(type))

\* Bit patterns ordered as the numbers they stand for; both zeros are 0.
Order(type, x) == IF SignBit(type, x) = 1 THEN -Magnitude(type, x) ELSE Magnitude(type, x)

\* The integer part of a finite number below 2^24.
Integer(type, x) ==
  LET m == MantissaBits(type)
      e == Exponent(type, x) - Bias - m
      significand == Mantissa(type, x) + 2 ^ m
      n == IF Exponent(type, x) < Bias THEN 0
           ELSE IF e >= 0 THEN significand * 2 ^ e ELSE significand \div 2 ^ (-e)
  IN IF SignBit(type, x) = 1 THEN -n ELSE n
IsInteger(type, x) ==
  LET m == MantissaBits(type)
      e == Exponent(type, x) - Bias - m
  IN \/ Magnitude(type, x) = 0
     \/ /\ Exponent(type, x) \in Bias .. MaxExponent - 1
        /\ e < 0 => (Mantissa(type, x) + 2 ^ m) % 2 ^ (-e) = 0

\* The number nearest to an integer of magnitude below 2^24, ties to even.
Nearest(type, n) ==
  LET m == MantissaBits(type)
      a == Abs(n)
      e == CHOOSE k \in 0 .. 24 : 2 ^ k <= a /\ a < 2 ^ (k + 1)
      unit == 2 ^ (e - m)
      down == a \div unit
      up == \/ 2 * (a % unit) > unit
            \/ 2 * (a % unit) = unit /\ down % 2 = 1
      significand == IF e <= m THEN a * 2 ^ (m - e) ELSE down + Bool(up)
  IN IF n = 0 THEN 0
     ELSE WithSign(type, (e + Bias - 1) * 2 ^ m + significand, Bool(n < 0))

(***************************************************************************)
(* What the program leaves to the hardware or to a soft-float library is   *)
(* an arbitrary but fixed function, exact where the program builds on it:  *)
(* sums and differences of integers.  A NaN operand makes a NaN.           *)
(***************************************************************************)
Opaque(type, f, a, b) ==
  LET index == CHOOSE i \in 1 .. 11 :
                 <<"ADD", "SUB", "MUL", "DIV", "SQRT", "CEIL", "FLOOR", "TRUNC", "NEAREST",
                   "PROMOTE", "DEMOTE">>[i] = f
  IN (a * 5 + b * 3 + 7 * index) % Infinity(type)
FloatOp(type, f, a, b) ==
  IF IsNaN(type, a) \/ IsNaN(type, b) THEN CanonicalNaN(type) + 1
  ELSE IF f \in {"ADD", "SUB"} /\ IsInteger(type, a) /\ IsInteger(type, b)
            /\ Abs(Integer(type, a)) < 2 ^ 17 /\ Abs(Integer(type, b)) < 2 ^ 17
       THEN Nearest(type, Integer(type, a) + (IF f = "ADD" THEN 1 ELSE -1) * Integer(type, b))
       ELSE Opaque(type, f, a, b)
FloatResize(from, to, f, a) ==
  IF IsNaN(from, a) THEN CanonicalNaN(to) + 1 ELSE Opaque(to, f, a, 0)
FloatMin(type, a, b) ==
  IF IsNaN(type, a) \/ IsNaN(type, b) THEN CanonicalNaN(type)
  ELSE IF Order(type, a) = Order(type, b) THEN WithSign(type, Magnitude(type, a), Bool(SignBit(type, a) + SignBit(type, b) > 0))
  ELSE IF Order(type, a) < Order(type, b) THEN a ELSE b
FloatMax(type, a, b) ==
  IF IsNaN(type, a) \/ IsNaN(type, b) THEN CanonicalNaN(type)
  ELSE IF Order(type, a) = Order(type, b) THEN WithSign(type, Magnitude(type, a), SignBit(type, a) * SignBit(type, b))
  ELSE IF Order(type, a) > Order(type, b) THEN a ELSE b
=============================================================================
