---------------------------- MODULE MCArithmetic ----------------------------
(***************************************************************************)
(* Numeric instructions on TriCore.                                        *)
(***************************************************************************)
EXTENDS Arithmetic

MCInstructions == Ops
MCValues ==
  [I32 |-> {0, 1, 40, 128, 255},
   I64 |-> {0, 3, 255, 32768, 65535},
   F32 |-> {0, 128, 32, 60, 127},
   F64 |-> {0, 32768, 9216, 16000, 32767}]
Slot(k) == 50 + 2 * k
MCPlaces ==
  [t \in Ints \cup Floats |->
     {Memory(t, Slot(0)), Memory(t, Slot(1))}
     \cup IF Is64(t) THEN {Scratch(t, r) : r \in {2, 4, 6, 14}}
         ELSE {LocalReg(t, r) : r \in {8, 9}} \cup {Scratch(t, r) : r \in {2, 4, 5, 15}}]
MCHints ==
  [t \in Ints \cup Floats |->
     IF Is64(t) THEN {NoElem, Scratch(t, 2), Scratch("I32", 2)}
     ELSE {NoElem, LocalReg(t, 8), Scratch(t, 2), Scratch("I64", 2)}]
MCBystanders == {{}, {Scratch("I32", 6), Scratch("I32", 15), Scratch("I64", 10)}}
=============================================================================
