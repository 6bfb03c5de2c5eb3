----------------------------- MODULE BranchCode -----------------------------
(***************************************************************************)
(* What the compiler emits for control flow, and a machine that runs it.   *)
(*                                                                         *)
(* A branch is emitted before its target is known. Its displacement field  *)
(* is filled in later, and until then holds the distance to the previous   *)
(* unresolved branch of the same target: the branches to one target are    *)
(* chained through the emitted code itself. BranchesX86, BranchesArm and   *)
(* BranchesTriCore emit, link and patch; BranchPatching is the frontend    *)
(* that calls them.                                                        *)
(*                                                                         *)
(* The emitted code is a function from anchors to instructions. An anchor  *)
(* is what the code calls the position of a branch, from which its         *)
(* displacement counts: the position after the instruction on x86-64, its  *)
(* own position on the other targets.                                      *)
(***************************************************************************)
EXTENDS Integers, Sequences, SequencesExt, FiniteSets, TLC

CONSTANTS CondBits,  \* width of the displacement of conditional branches and of address loads
          JumpBits   \* width of the displacement of jumps and calls

ASSUME BitsAssumption == CondBits \in Nat \ {0} /\ JumpBits \in Nat \ {0}

NoLink == -1          \* UnknownIndex, 0xFFFFFFFF: no branch is pending
MaxChecked == 100     \* UINT32_MAX in a state of the control flow nothing has reached

-----------------------------------------------------------------------------
(* Conditions. A comparison of two operands sets flags or a register, and  *)
(* a branch condition says which of its outcomes is meant.                 *)

IntConditions == {"EQ", "NE", "LT_S", "LT_U", "GT_S", "GT_U", "LE_S", "LE_U", "GE_S", "GE_U"}
FloatConditions == {"EQ_F", "NE_F", "LT_F", "GT_F", "LE_F", "GE_F"}

reverseBC(bc) ==
    LET pairs == {<<"LT_S", "GT_S">>, <<"LT_U", "GT_U">>, <<"LE_S", "GE_S">>, <<"LE_U", "GE_U">>,
                  <<"LT_F", "GT_F">>, <<"LE_F", "GE_F">>}
    IN  IF \E p \in pairs : bc \in {p[1], p[2]}
        THEN CHOOSE r \in UNION {{p[1], p[2]} : p \in {q \in pairs : bc \in {q[1], q[2]}}} : r # bc
        ELSE bc

negateBC(bc) ==
    LET pairs == {<<"NEQZ", "EQZ">>, <<"EQ", "NE">>, <<"LT_S", "GE_S">>, <<"LT_U", "GE_U">>, <<"GT_S", "LE_S">>,
                  <<"GT_U", "LE_U">>, <<"EQ_F", "NE_F">>, <<"LT_F", "GE_F">>, <<"GT_F", "LE_F">>}
    IN  IF bc = "UNCONDITIONAL" THEN bc
        ELSE CHOOSE r \in UNION {{p[1], p[2]} : p \in {q \in pairs : bc \in {q[1], q[2]}}} : r # bc

(* How two operands may relate: the sign of the signed and of the unsigned *)
(* difference, or for floating point also no order at all.                 *)
Outcomes(bc) ==
    CASE bc \in {"EQZ", "NEQZ"} -> {<<0, 0>>, <<1, 1>>, <<-1, 1>>}
      [] bc \in IntConditions   -> {<<0, 0>>} \cup {<<a, b>> : a, b \in {-1, 1}}
      [] OTHER                  -> {<<a, a>> : a \in {-1, 0, 1}} \cup {<<2, 2>>}
Swapped(o) == IF o[1] = 2 THEN o ELSE <<-o[1], -o[2]>>

(* Whether the operands o relate as the WebAssembly operator says.         *)
Holds(bc, o) ==
    CASE bc \in {"EQZ", "EQ", "EQ_F"}   -> o[1] = 0
      [] bc \in {"NEQZ", "NE", "NE_F"}  -> o[1] # 0
      [] bc \in {"LT_S", "LT_F"}        -> o[1] = -1
      [] bc \in {"GT_S", "GT_F"}        -> o[1] = 1
      [] bc \in {"LE_S", "LE_F"}        -> o[1] \in {-1, 0}
      [] bc \in {"GE_S", "GE_F"}        -> o[1] \in {0, 1}
      [] bc = "LT_U" -> o[2] = -1
      [] bc = "GT_U" -> o[2] = 1
      [] bc = "LE_U" -> o[2] \in {-1, 0}
      [] bc = "GE_U" -> o[2] \in {0, 1}

(* The flags a comparison of o leaves, under x86 names. Of operands that   *)
(* have no order, UCOMIS says equal, below and parity; FCMP says less      *)
(* (overflow), and not below (carry).                                      *)
FlagsOf(isa, o) ==
    IF o[1] = 2 THEN [zero |-> isa = "x86", below |-> isa = "x86", less |-> isa = "arm", unordered |-> TRUE]
    ELSE [zero |-> o[1] = 0, below |-> o[2] = -1, less |-> o[1] = -1, unordered |-> FALSE]

(* Condition codes, under the x86 names (LO, LS, HI and HS of Arm are B,   *)
(* BE, A and AE).                                                          *)
CodeHolds(cc, f) ==
    CASE cc = "E"  -> f.zero              [] cc = "NE" -> ~f.zero
      [] cc = "B"  -> f.below             [] cc = "AE" -> ~f.below
      [] cc = "BE" -> f.below \/ f.zero   [] cc = "A"  -> ~(f.below \/ f.zero)
      [] cc = "L"  -> f.less              [] cc = "GE" -> ~f.less
      [] cc = "LE" -> f.less \/ f.zero    [] cc = "G"  -> ~(f.less \/ f.zero)
      [] cc = "P"  -> f.unordered         [] cc = "NP" -> ~f.unordered

negateCC(cc) ==
    LET pairs == {<<"E", "NE">>, <<"B", "AE">>, <<"BE", "A">>, <<"L", "GE">>, <<"LE", "G">>, <<"P", "NP">>}
    IN  IF cc = "NONE" THEN cc
        ELSE CHOOSE r \in UNION {{p[1], p[2]} : p \in {q \in pairs : cc \in {q[1], q[2]}}} : r # cc

-----------------------------------------------------------------------------
(* The emitted code and what the compiler remembers of it: the frame size  *)
(* of the function and the largest one whose stack was checked, its open   *)
(* blocks, the position of each function or its last pending call, the     *)
(* last trap of each code, and the limit that the compilation ran into.    *)

NoLimit == [why |-> "none", from |-> 0, to |-> 0]

Nothing(isa, debug) ==
    [isa |-> isa, debug |-> debug, code |-> <<>>, size |-> 4, frame |-> 0, checked |-> 0, blocks |-> <<>>,
     cells |-> 0 :> NoLink @@ 1 :> NoLink, traps |-> "NONE" :> 0 @@ "A" :> 0 @@ "FENCE" :> 0, handler |-> 4,
     lastBC |-> "UNCONDITIONAL", index |-> 0, unreachable |-> FALSE, bytecode |-> 0, limit |-> NoLimit]

Width(isa, op) ==
    IF isa # "x86" THEN (IF op = "far" THEN 130 ELSE 4)
    ELSE CASE op = "jcc" -> 6 [] op \in {"jcc8", "jmpx"} -> 2 [] op \in {"jmp", "call", "frame", "mov"} -> 5
           [] op = "ret" -> 1 [] op = "lea" -> 7 [] op = "word" -> 4 [] op = "far" -> 130 [] OTHER -> 3

Emit(s, op, cc, val) ==
    LET n == Width(s.isa, op)
    IN  [s EXCEPT !.code = @ @@ ((IF s.isa = "x86" THEN s.size + n ELSE s.size) :>
                                   [at |-> s.size, len |-> n, op |-> op, cc |-> cc, disp |-> 0, val |-> val]),
                  !.size = @ + n]

\* The anchor of the branch that was emitted last.
LastAnchor(s) == IF s.isa = "x86" THEN s.size ELSE s.size - 4

Fits(bits, d) == -(2 ^ (bits - 1)) <= d /\ d < 2 ^ (bits - 1)
Fail(s, why, a, pos) ==
    [s EXCEPT !.limit = IF @ = NoLimit THEN [why |-> why, from |-> a, to |-> pos] ELSE @]
SetDisp(s, a, d) == [s EXCEPT !.code[a].disp = d]

(* The chain of branches that starts at anchor a: it ends at one that      *)
(* points to itself.                                                       *)
Chain(code, a) ==
    LET links[b \in DOMAIN code] == IF code[b].disp = 0 THEN {b} ELSE {b} \cup links[b + code[b].disp]
    IN  links[a]

-----------------------------------------------------------------------------
(* The machine. cpu.flags are those of the last comparison, cpu.truth what *)
(* it left in the result register of TriCore and cpu.zero whether its      *)
(* operand was zero; idx is the operand of a table branch and base the     *)
(* address that was loaded.                                                *)

Cpu(isa, op, reversed, o, pos, frame, idx) ==
    [pos |-> pos, frame |-> frame, idx |-> idx, base |-> 0, trap |-> "NONE", trapPos |-> 0,
     flags |-> FlagsOf(isa, IF reversed THEN Swapped(o) ELSE o), truth |-> Holds(op, o), zero |-> o[1] = 0]

InstructionAt(code, pos) == CHOOSE i \in {a \in DOMAIN code : code[a].at = pos} : TRUE
WordAt(code, pos) == code[InstructionAt(code, pos)].val

IndexFlags(cpu, n) == [cpu EXCEPT !.flags = [zero |-> cpu.idx = n, below |-> cpu.idx < n, less |-> FALSE, unordered |-> FALSE]]

Jumps(i, cpu) ==
    CASE i.op \in {"jcc", "jcc8"} -> CodeHolds(i.cc, cpu.flags)
      [] i.op = "cbz"   -> cpu.zero
      [] i.op = "cbnz"  -> ~cpu.zero
      [] i.op = "jnza"  -> cpu.truth
      [] i.op = "jza"   -> ~cpu.truth
      [] i.op = "jltu"  -> cpu.idx < i.val
      [] OTHER          -> i.op \in {"jmp", "call"}

Step(code, cpu) ==
    LET a == InstructionAt(code, cpu.pos)
        i == code[a]
        next == [cpu EXCEPT !.pos = @ + i.len]
    IN  IF Jumps(i, cpu) THEN [cpu EXCEPT !.pos = a + i.disp]
        ELSE CASE i.op = "frame"  -> [next EXCEPT !.frame = @ + i.val]
               [] i.op = "mov"    -> IF i.cc = "trapReg" THEN [next EXCEPT !.trap = i.val]
                                     ELSE IF i.cc = "idx" THEN [next EXCEPT !.idx = i.val]
                                     ELSE [next EXCEPT !.trapPos = i.val]
               [] i.op = "cmpidx" -> IndexFlags(next, i.val)
               [] i.op = "csel"   -> IF cpu.flags.below THEN next ELSE [next EXCEPT !.idx = i.val]
               [] i.op = "lea"    -> [next EXCEPT !.base = a + i.disp]
               [] i.op = "jmpx"   -> [cpu EXCEPT !.pos = cpu.base + WordAt(code, cpu.base + 4 * cpu.idx)]
               [] i.op = "ret"    -> [cpu EXCEPT !.pos = -2]
               [] OTHER           -> next
=============================================================================
