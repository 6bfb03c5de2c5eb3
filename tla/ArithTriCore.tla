---------------------------- MODULE ArithTriCore ----------------------------
(***************************************************************************)
(* Numeric instructions on TriCore: which machine instructions they are    *)
(* translated to, given where the operands are and where the result is     *)
(* wanted, and what the machine instructions do.                           *)
(*                                                                         *)
(* A cell of the machine is a word of W bits.  Cells 0 .. 15 are D0 .. D15;*)
(* a 64-bit value takes an even D register and the next one, low word      *)
(* first.  The widths of immediates shrink with W: const4 to 3 bits,       *)
(* const8 to 4, const9 to 5 and const16 to 6, so that an immediate still   *)
(* needs a high part of its own.  Locals live in D8 and D9.                *)
(***************************************************************************)
EXTENDS NumericCode

A4 == 24                                   \* A5 is the next cell
A12 == 32                                  \* addrScrReg[0]
Carry == 40
Slot(m) == 50 + 2 * m                      \* memory operands
Context == 60                              \* where STLCX saves the lower context
ReturnSlot == 76
Cells == 0 .. 15 \cup {A4, A4 + 1, A12, Carry} \cup Slot(0) .. Slot(3) + 1
         \cup Context .. ReturnSlot + 1

Other(r) == IF r % 2 = 0 THEN r + 1 ELSE r - 1
MaskReg(r, t) == IF r = NONE THEN {} ELSE IF Is64(t) THEN {r, Other(r)} ELSE {r}
MaskOf(e) == IF InReg(e) THEN MaskReg(e.r, e.t) ELSE {}

(***************************************************************************)
(* Which registers the compile-time stack holds: stk is its set of scratch *)
(* elements.                                                               *)
(***************************************************************************)
Locals == {8, 9}
OnStack(r, stk) == \E e \in stk : e.r = r
IsWritableScratchReg(e, isStackElement, stk) ==
  /\ e.k = "scratch"
  /\ ~isStackElement => ~OnStack(e.r, stk)
  /\ IF Is64(e.t) THEN Other(e.r) \notin Locals /\ ~OnStack(Other(e.r), stk)
     ELSE e.r % 2 = 1 /\ Other(e.r) \notin Locals =>
            ~\E f \in stk : f.r = Other(e.r) /\ Is64(f.t)
\* a faulty variant, to show what the properties detect
IsFreeScratchDRegHalf(r, stk) == ~OnStack(r, stk)
IsFreeScratchDReg(r, stk) ==
  /\ ~OnStack(r, stk)
  /\ r % 2 = 1 /\ Other(r) \notin Locals => ~\E f \in stk : f.r = Other(r) /\ Is64(f.t)
IsD15Available(stk) == IsWritableScratchReg(Scratch("I32", 15), FALSE, stk)

DR == <<6, 7, 10, 11, 12, 13, 14, 15, 0, 1, 2, 3, 4, 5>>   \* dr after the two locals
GetRegAllocCandidate(type, prot, stk) ==
  LET fits(r) == IF Is64(type)
                 THEN /\ r % 2 = 0 /\ {r, r + 1} \cap prot = {}
                      /\ ~OnStack(r, stk) /\ ~OnStack(r + 1, stk)
                 ELSE r \notin prot /\ IsFreeScratchDReg(r, stk)
  IN SelectSeq(DR, fits)[1]

GetUnderlyingRegIfSuitable(hint, type, prot) ==
  IF /\ InReg(hint) /\ hint.r \notin prot
     /\ Is64(type) => Is64(hint.t) /\ Other(hint.r) \notin prot
  THEN hint.r ELSE NONE

ReqScratchRegProt(type, hint, prot, stk) ==
  IF GetUnderlyingRegIfSuitable(hint, type, prot) # NONE THEN Retyped(hint, type)
  ELSE Scratch(type, GetRegAllocCandidate(type, prot, stk))

-----------------------------------------------------------------------------
(***************************************************************************)
(* Immediates, and moving a value to a register.                           *)
(***************************************************************************)
LOW == 6                                   \* the bits of a const16
FitsS(n, v) == -2 ^ (n - 1) <= Signed(W, v) /\ Signed(W, v) < 2 ^ (n - 1)
FitsU(n, v) == v < 2 ^ n
FitsS9(v) == FitsS(5, v)
FitsU9(v) == FitsU(5, v)
Lower16sx(v) == SignExtend(LOW, W, v)
\* a faulty variant, to show what the properties detect
ReducedHighPlain(v) == v \div Size(LOW)
ReducedHigh(v) == Mask(W, v + Top(LOW)) \div Size(LOW)
Addih(r, from, v) == IF ReducedHigh(v) # 0 THEN <<Imm("ADDIH", r, from, ReducedHigh(v))>> ELSE <<>>

MOVimm32(r, v) ==
  IF FitsS(3, v) \/ FitsU(LOW, v) THEN <<Imm("MOV", r, NONE, v)>>
  ELSE IF v % Size(LOW) = 0 THEN <<Imm("MOVH", r, NONE, v \div Size(LOW))>>
  ELSE <<Imm("MOV", r, NONE, Lower16sx(v))>> \o Addih(r, r, v)

Low(v) == v % Size(W)
High(v) == v \div Size(W)
\* Position and width of a word that is one run of ones.
Runs(v) == {<<p, n>> \in (0 .. W - 1) \X (1 .. W) : p + n <= W /\ v = (2 ^ n - 1) * 2 ^ p}
Imask(r, value, pos, width) == <<Ins4("IMASK", r, value, pos, width)>>
MOVimm64(r, v) ==
  LET s == Signed(2 * W, v)
      highRun == {x \in Runs(High(v)) :
                    x[2] < W /\ ((Low(v) \div 2 ^ x[1]) % 4) * 2 ^ x[1] = Low(v)}
      lowRun == {x \in Runs(Low(v)) : x[2] <= 2}
  IN IF -2 ^ (LOW - 1) <= s /\ s < 2 ^ (LOW - 1) THEN <<Imm("MOVE", r, NONE, Low(v))>>
     ELSE IF highRun # {}
          THEN LET x == CHOOSE y \in highRun : TRUE
               IN Imask(r, (Low(v) \div 2 ^ x[1]) % 4, x[1], x[2])
     ELSE IF High(v) = 0 /\ lowRun # {}
          THEN LET x == CHOOSE y \in lowRun : TRUE IN Imask(r, Low(v) \div 2 ^ x[1], x[1], 0)
     ELSE MOVimm32(r, Low(v)) \o MOVimm32(r + 1, High(v))

Move(r, from, is64) ==
  IF r = from THEN <<>>
  ELSE <<Ins("MOV", r, NONE, from)>> \o (IF is64 THEN <<Ins("MOV", r + 1, NONE, from + 1)>> ELSE <<>>)
EmitMove(r, e) ==
  CASE e.k = "const" -> IF Is64(e.t) THEN MOVimm64(r, e.v) ELSE MOVimm32(r, e.v)
    [] e.k = "memory" /\ Is64(e.t) -> <<Ins("LDD", r, e.r, NONE)>>
    [] OTHER -> Move(r, e.r, Is64(e.t))

AddImmToReg(r, v, target) ==
  IF v = 0 THEN Move(target, r, FALSE)
  ELSE IF v % Size(LOW) # 0 THEN <<Imm("ADD", target, r, Lower16sx(v))>> \o Addih(target, target, v)
  ELSE Addih(target, r, v)

(***************************************************************************)
(* Lifting an operand to a register: the operand itself when it is in one  *)
(* that may be used, a copy otherwise.  tr holds the registers that must   *)
(* not be written, those that must not be touched, and those of operands   *)
(* lifted later.                                                           *)
(***************************************************************************)
Track(read, write, future) == [read |-> read, write |-> write, future |-> future]

LiftToRegInPlaceProt(e, isStackElement, writable, hint, tr, stk) ==
  LET future == tr.future \ MaskOf(e)
      prot == tr.read \cup tr.write
      already == \/ IsWritableScratchReg(e, isStackElement, stk)
                 \/ GetUnderlyingRegIfSuitable(hint, e.t, prot) = e.r
      mayKeep == /\ InReg(e)
                 /\ IF e.r \notin prot THEN writable => already
                    ELSE e.r \notin tr.write /\ ~writable
      lifted(keep, in, alone) ==
        LET m == MaskReg(in.r, e.t)
        IN [ code |-> IF keep THEN <<>> ELSE EmitMove(in.r, e),
             e |-> in, reg |-> in.r, writable |-> alone,
             tr |-> IF writable THEN Track(tr.read, tr.write \cup m, future)
                    ELSE Track(tr.read \cup m, tr.write, future),
             stk |-> IF keep \/ ~isStackElement THEN stk
                     ELSE (stk \ {e}) \cup (IF in.k = "scratch" THEN {in} ELSE {}) ]
  IN IF mayKeep THEN lifted(TRUE, e, e.r \notin prot /\ already)
     ELSE lifted(FALSE, ReqScratchRegProt(e.t, hint, prot \cup future, stk), TRUE)

(***************************************************************************)
(* Operands in registers, and a register for the result: the hint, else    *)
(* the register of an operand nothing else needs, else a fresh one.        *)
(* force0 and force1 keep the result out of the register of that operand.  *)
(***************************************************************************)
LoadArgsToRegsAndPrepDest(type, a0, a1, hint, prot, force0, force1, stk) ==
  LET unop == a1.k = "none"
      verified == GetUnderlyingRegIfSuitable(hint, type, prot)
      vhint == IF verified # NONE THEN hint ELSE NoElem
      partOfHint(e) ==
        /\ InReg(e)
        /\ \/ e.r = verified
           \/ Is64(vhint.t) # Is64(e.t) /\ e.r \div 2 = verified \div 2
      hintFree == /\ verified # NONE
                  /\ ~(force0 /\ partOfHint(a0)) /\ ~(~unop /\ force1 /\ partOfHint(a1))
      asIs(e) == [code |-> <<>>, e |-> e,
                  free |-> \/ IsWritableScratchReg(e, TRUE, stk)
                           \/ InReg(vhint) /\ e.r = vhint.r /\ e.t = vhint.t]
      copied(l) == [code |-> l.code, e |-> l.e, free |-> IsWritableScratchReg(l.e, FALSE, stk)]
      lift(e, force, read, future) ==
        IF InReg(e) THEN asIs(e)
        ELSE copied(LiftToRegInPlaceProt(e, FALSE, FALSE, IF hintFree /\ force THEN NoElem ELSE vhint,
                      Track(read, IF hintFree /\ force THEN prot \cup MaskOf(hint) ELSE prot, future), stk))
      second(l0) ==
        IF unop THEN [code |-> <<>>, e |-> NoElem, free |-> FALSE]
        ELSE IF EqualsVariable(a0, a1) THEN [code |-> <<>>, e |-> l0.e, free |-> l0.free]
        ELSE lift(a1, force1, MaskOf(l0.e), {})
      dest(l0, l1) ==
        IF hintFree THEN verified
        ELSE IF ~force0 /\ l0.free /\ a0.t = type THEN l0.e.r
        ELSE IF ~force1 /\ l1.free /\ ~unop /\ a1.t = type THEN l1.e.r
        ELSE GetRegAllocCandidate(type, prot \cup MaskOf(l0.e) \cup MaskOf(l1.e) \cup MaskOf(vhint), stk)
      prepared(l0, l1, d) ==
        [ code |-> l0.code \o l1.code,
          d |-> d, dh |-> Other(d),
          a |-> l0.e.r, ah |-> Other(l0.e.r), b |-> l1.e.r, bh |-> Other(l1.e.r) ]
      both(l0, l1) == prepared(l0, l1, dest(l0, l1))
      from(l0) == both(l0, second(l0))
  IN from(lift(a0, force0, {}, MaskOf(a1)))

Prep(type, a0, a1, hint, stk) == LoadArgsToRegsAndPrepDest(type, a0, a1, hint, {}, FALSE, FALSE, stk)

-----------------------------------------------------------------------------
(***************************************************************************)
(* Instruction selection for 32-bit operations: among the forms of an      *)
(* instruction the one whose operands are cheapest to bring about.  A form *)
(* names what it takes for its operands and result, whether the result     *)
(* overwrites the first operand, whether it needs D15, and its size.       *)
(***************************************************************************)
Form(dst, s0, s1, size) == [dst |-> dst, s0 |-> s0, s1 |-> s1, size |-> size, same |-> FALSE]
SameForm(dst, s0, s1, size) == [dst |-> dst, s0 |-> s0, s1 |-> s1, size |-> size, same |-> TRUE]
UseD15(x) == "d15" \in {x.dst, x.s0}
ThreeRegs == Form("reg", "reg", "reg", 4)
TwoRegs == SameForm("reg", "reg", "reg", 2)
Forms(n) ==
  CASE n = "ADD" -> << SameForm("reg", "reg", "const4", 2), TwoRegs, Form("reg", "d15", "const4", 2),
                       Form("d15", "reg", "const4", 2), Form("reg", "d15", "reg", 2),
                       Form("d15", "reg", "reg", 2), Form("reg", "reg", "const16", 4), ThreeRegs >>
    [] n = "SUB" -> << TwoRegs, Form("reg", "d15", "reg", 2), Form("d15", "reg", "reg", 2), ThreeRegs >>
    [] n = "MUL" -> << TwoRegs, Form("reg", "reg", "const9s", 4), ThreeRegs >>
    [] n \in {"AND", "OR"} -> << SameForm("d15", "d15", "const8", 2), TwoRegs, ThreeRegs,
                                 Form("reg", "reg", "const9z", 4) >>
    [] n = "XOR" -> << TwoRegs, Form("reg", "reg", "const9z", 4), ThreeRegs >>
    [] n \in {"SH#", "SHA#"} -> << SameForm("reg", "reg", "const4", 2), Form("reg", "reg", "const9s", 4) >>
    [] n \in {"SH", "SHA"} -> << ThreeRegs >>
    [] n \in {"CLZ", "POPCNT"} -> << Form("reg", "reg", "none", 4) >>
Commutative(n) == n \in {"ADD", "MUL", "AND", "OR", "XOR"}

Invalid == 999
FitsForm(kind, v) ==
  CASE kind = "const4" -> FitsS(3, v) [] kind = "const8" -> FitsU(4, v)
    [] kind = "const9s" -> FitsS9(v) [] kind = "const9z" -> FitsU9(v) [] kind = "const16" -> FitsS(LOW, v)
OperandMovCost(kind, e) ==
  CASE kind = "none" -> 0
    [] kind \in {"d15", "reg"} /\ e.k = "const" ->
         IF FitsS(3, e.v) \/ (kind = "d15" /\ FitsU(4, e.v)) THEN 2
         ELSE IF FitsS(LOW, e.v) \/ FitsU(LOW, e.v) THEN 4 ELSE 8
    [] kind \notin {"d15", "reg"} /\ e.k = "const" -> IF FitsForm(kind, e.v) THEN 0 ELSE Invalid
    [] InReg(e) -> IF kind = "reg" \/ (kind = "d15" /\ e.r = 15) THEN 0 ELSE Invalid
    [] OTHER -> Invalid

Movement(x, c0, c1, same, reversed) ==
  LET counted == IF same THEN 0 ELSE c1
      needMove(c) == c \notin {0, Invalid}
  IN [ cost |-> IF Invalid \in {c0, counted} THEN Invalid ELSE c0 + counted + x.size,
       lifts |-> Bool(needMove(c0)) + Bool(needMove(counted)),
       mov0 |-> needMove(c0), mov1 |-> needMove(c1), reversed |-> reversed ]
NoMovement == [cost |-> Invalid, lifts |-> 0, mov0 |-> FALSE, mov1 |-> FALSE, reversed |-> FALSE]

\* The cost of a form; hint is the register the result must go to, if any.
InstructionCost(n, x, a0, a1, hint, stk) ==
  LET moving(s0, s1, reversed) ==
        Movement(x, OperandMovCost(s0, a0), OperandMovCost(s1, a1), InSameLocation(a0, a1) /\ x.s0 = x.s1, reversed)
      mayOverwrite(e, moved) ==
        IF hint.k # "none" THEN \/ EqualsVariable(hint, e)
                                \/ moved /\ IsWritableScratchReg(hint, FALSE, stk)
        ELSE moved \/ IsWritableScratchReg(e, FALSE, stk)
      cheaper(m, swapped, straight, crossed) ==
        IF straight /\ crossed THEN IF swapped.cost < m.cost THEN swapped ELSE m
        ELSE IF straight THEN m
        ELSE IF crossed THEN swapped
        ELSE NoMovement
      of(m, swapped) == cheaper(m, swapped, x.same => mayOverwrite(a0, m.mov0),
                                Commutative(n) /\ (x.same => mayOverwrite(a1, swapped.mov1)))
  IN IF \/ UseD15(x) /\ ~IsD15Available(stk)
        \/ hint.k # "none" /\ x.dst = "d15" /\ hint.r # 15
     THEN NoMovement
     ELSE of(moving(x.s0, x.s1, FALSE), moving(x.s1, x.s0, TRUE))

\* Bringing operand k to a register; equal operands may share the copy.
Lifted(code, in, lifted) == [code |-> code, in |-> in, lifted |-> lifted]
LiftArg(l, k, coLift, toD15, same, vhint, stk) ==
  LET other == l.in[3 - k]
      target == IF toD15 \/ (vhint.k = "none" /\ IsD15Available(stk)) THEN Scratch("I32", 15) ELSE vhint
      both == same /\ coLift
      to(new) == Lifted(l.code \o EmitMove(new.r, l.in[k]),
                        [j \in {1, 2} |-> IF j = k \/ both THEN new ELSE other],
                        [j \in {1, 2} |-> l.lifted[j] \/ (both /\ j # k)])
  IN IF both /\ l.lifted[3 - k] THEN Lifted(l.code, <<other, other>>, l.lifted)
     ELSE to(ReqScratchRegProt(l.in[k].t, target, MaskOf(other), stk))

\* The cheapest form and the moves it takes, the first of equally cheap ones.
Cheapest(n, a0, a1, vhint, stk) ==
  LET among(cost) ==
        LET better(i, j) == \/ cost[i].cost < cost[j].cost
                            \/ cost[i].cost = cost[j].cost /\ cost[i].lifts < cost[j].lifts
            best(i) == [form |-> Forms(n)[i], moves |-> cost[i]]
        IN best(CHOOSE i \in DOMAIN cost :
                  /\ cost[i].cost < Invalid
                  /\ \A j \in DOMAIN cost : ~better(j, i) /\ (j < i => better(i, j)))
  IN among([i \in DOMAIN Forms(n) |-> InstructionCost(n, Forms(n)[i], a0, a1, vhint, stk)])

\* The instruction itself: D15 and a repeated register are implicit in its form.
Encoded(n, l, x, reversed, vhint, stk) ==
  LET in == l.in
      s0 == in[IF reversed THEN 2 ELSE 1]
      s1 == in[IF reversed THEN 1 ELSE 2]
      name == IF n = "SH#" THEN "SH" ELSE IF n = "SHA#" THEN "SHA" ELSE n
      to(dest) ==
        LET d == IF x.dst = "d15" THEN 15 ELSE dest
            a == IF x.same THEN d ELSE IF x.s0 = "d15" THEN 15 ELSE s0.r
        IN Code(Append(l.code, IF s1.k = "const" THEN Imm(name, d, a, s1.v) ELSE Ins(name, d, a, s1.r)),
                Scratch("I32", dest))
  IN to(IF vhint.k # "none" THEN vhint.r
        ELSE IF IsWritableScratchReg(in[1], FALSE, stk) THEN in[1].r
        ELSE IF IsWritableScratchReg(in[2], FALSE, stk) THEN in[2].r
        ELSE ReqScratchRegProt("I32", IF x.dst = "d15" THEN Scratch("I32", 15) ELSE NoElem,
                               MaskOf(in[1]) \cup MaskOf(in[2]), stk).r)

SelectInstr(n, a0, a1, hint, stk) ==
  LET vhint == IF GetUnderlyingRegIfSuitable(hint, "I32", {}) # NONE THEN hint ELSE NoElem
      lift(l, k, coLift, toD15) == LiftArg(l, k, coLift, toD15, InSameLocation(a0, a1), vhint, stk)
      kind(c, k) == IF (k = 1) = c.moves.reversed THEN c.form.s1 ELSE c.form.s0
      second(l, c) == IF c.moves.mov1 /\ ~l.lifted[2] THEN lift(l, 2, FALSE, kind(c, 2) = "d15") ELSE l
      first(l, c) == IF c.moves.mov0 THEN lift(l, 1, c.moves.mov1, kind(c, 1) = "d15") ELSE l
      selected(l, c) == Encoded(n, second(first(l, c), c), c.form, c.moves.reversed, vhint, stk)
      memory2(l) == IF l.in[2].k = "memory" /\ ~l.lifted[2] THEN lift(l, 2, TRUE, FALSE) ELSE l
      memory1(l) == IF a0.k = "memory" THEN lift(l, 1, TRUE, FALSE) ELSE l
      from(l) == selected(l, Cheapest(n, l.in[1], l.in[2], vhint, stk))
  IN from(memory2(memory1(Lifted(<<>>, <<a0, a1>>, <<FALSE, FALSE>>))))

-----------------------------------------------------------------------------
(***************************************************************************)
(* 32-bit integers.                                                        *)
(***************************************************************************)
Out(p, code, type) == Code(p.code \o code, Scratch(type, p.d))

\* A constant that needs a high part of its own is added in two steps.
IsBigConst(e, other) == e.k = "const" /\ ~FitsS(LOW, e.v) /\ other.k # "const"
AddBigConst(e, v, hint, stk) ==
  LET low == v % Size(LOW) # 0
      using(p) == Out(p, (IF low THEN <<Imm("ADD", p.d, p.a, Lower16sx(v))>> ELSE <<>>)
                         \o Addih(p.d, IF low THEN p.d ELSE p.a, v), "I32")
  IN using(Prep("I32", e, NoElem, hint, stk))

Add32(a0, a1, hint, stk) ==
  IF IsBigConst(a0, a1) THEN AddBigConst(a1, a0.v, hint, stk)
  ELSE IF IsBigConst(a1, a0) THEN AddBigConst(a0, a1.v, hint, stk)
  ELSE SelectInstr("ADD", a0, a1, hint, stk)

Sub32(a0, a1, hint, stk) ==
  IF a1.k = "const"
  THEN LET using(p) == Out(p, AddImmToReg(p.a, Neg(W, a1.v), p.d), "I32")
       IN using(Prep("I32", a0, NoElem, hint, stk))
  ELSE IF a0.k = "const" /\ FitsS9(a0.v)
  THEN LET using(p) == Out(p, <<Imm("RSUB", p.d, p.a, a0.v)>>, "I32")
       IN using(Prep("I32", a1, NoElem, hint, stk))
  ELSE SelectInstr("SUB", a0, a1, hint, stk)

(***************************************************************************)
(* The check for the quotient that does not fit, around a division.        *)
(***************************************************************************)
OverflowCheck(op, test, onOverflow, core) ==
  LET over == IF op.o = "DIV_S" THEN <<TrapIns("DIV_OVERFLOW")>> ELSE onOverflow
      \* each step of the test jumps to the division when it fails
      rest(k) == Len(test) - k + Len(over) + 1
      tests == [k \in DOMAIN test |-> IF test[k].n # "JNE" THEN test[k]
                                      ELSE Instr("JNE", NONE, test[k].a, test[k].b, test[k].i, rest(k), NoOp)]
  IN tests \o over \o <<Jump("J", NONE, NONE, Len(core))>> \o core

DivRem32(op, a0, a1, hint, stk) ==
  LET checked(p, target, core, zeroCheck, temp) ==
        LET test == MOVimm32(temp, Top(W)) \o <<Jump("JNE", p.a, temp, 0), JumpImm("JNE", p.b, Size(W) - 1, 0)>>
            onOverflow == MOVimm32(target, IF op.o = "REM_U" THEN Top(W) ELSE 0)
        IN Code(p.code \o zeroCheck \o (IF MustNotBeOverflow(a0, a1) THEN core
                                        ELSE OverflowCheck(op, test, onOverflow, core)),
                Scratch("I32", target))
      using(p) ==
        checked(p, IF op.o \in {"DIV_S", "DIV_U"} THEN p.d ELSE p.dh,
                <<Ins(IF op.o \in {"DIV_S", "REM_S"} THEN "DIV" ELSE "DIVU", p.d, p.a, p.b)>>,
                IF MustNotBeDivZero(a1) THEN <<>> ELSE <<JumpImm("JNE", p.b, 0, 1), TrapIns("DIV_ZERO")>>,
                ReqScratchRegProt("I32", hint, {p.a, p.b}, stk).r)
  IN using(Prep("I64", a0, a1, hint, stk))

ShiftName(op) == IF op.o = "SHR_S" THEN "SHA" ELSE "SH"
Shift32(op, a0, a1, hint, stk) ==
  LET left == op.o = "SHL"
      count == a1.v % W
      then(l, shift) ==
        Code(l.code \o <<Imm("AND", l.reg, l.reg, W - 1)>>
             \o (IF left THEN <<>> ELSE <<Imm("RSUB", l.reg, l.reg, 0)>>) \o shift.code, shift.e)
      by(l) == then(l, SelectInstr(ShiftName(op), a0, Scratch("I32", l.reg), hint, l.stk))
  IN IF a1.k = "const"
     THEN SelectInstr(ShiftName(op) \o "#", a0, Const("I32", IF left THEN count ELSE Neg(W, count)), hint, stk)
     ELSE by(LiftToRegInPlaceProt(a1, TRUE, TRUE, hint, Track({}, MaskOf(a0), {}), stk))

Rotate32(op, a0, a1, hint, stk) ==
  LET left == op.o = "ROTL"
      byConst(p) ==
        Out(p, <<Imm("DEXTR", p.d, p.a, (IF left THEN a1.v ELSE Neg(W, a1.v)) % W)>>, "I32")
      then(l, p) ==
        Code(l.code \o p.code
             \o (IF left THEN <<>> ELSE <<Imm("RSUB", l.reg, l.reg, W)>>)
             \o <<Imm("AND", l.reg, l.reg, W - 1), Ins("DEXTR", p.d, p.a, l.reg)>>, Scratch("I32", p.d))
      by(l) == then(l, LoadArgsToRegsAndPrepDest("I32", a0, NoElem, hint, {l.reg}, FALSE, FALSE, l.stk))
  IN IF a1.k = "const" THEN byConst(Prep("I32", a0, NoElem, hint, stk))
     ELSE by(LiftToRegInPlaceProt(a1, TRUE, TRUE, hint, Track({}, MaskOf(a0), {}), stk))

ExtendWidth(op) == IF op.o = "EXTEND8_S" THEN W \div 4 ELSE W \div 2
Unary32(op, p) ==
  Out(p, IF op.o = "CTZ" THEN <<Ins("REFLECT", p.d, p.a, NONE), Ins("CLZ", p.d, p.d, NONE)>>
         ELSE <<Imm("EXTR", p.d, p.a, ExtendWidth(op))>>, "I32")

Int32(op, a0, a1, hint, stk) ==
  CASE op.o \in {"CLZ", "POPCNT"} -> SelectInstr(op.o, a0, NoElem, hint, stk)
    [] op.o \in {"CTZ", "EXTEND8_S", "EXTEND16_S"} -> Unary32(op, Prep("I32", a0, NoElem, hint, stk))
    [] op.o = "ADD" -> Add32(a0, a1, hint, stk)
    [] op.o = "SUB" -> Sub32(a0, a1, hint, stk)
    [] op.o \in {"MUL", "AND", "OR", "XOR"} -> SelectInstr(op.o, a0, a1, hint, stk)
    [] op.o \in Division -> DivRem32(op, a0, a1, hint, stk)
    [] op.o \in {"SHL", "SHR_S", "SHR_U"} -> Shift32(op, a0, a1, hint, stk)
    [] op.o \in {"ROTL", "ROTR"} -> Rotate32(op, a0, a1, hint, stk)

-----------------------------------------------------------------------------
(***************************************************************************)
(* 64-bit integers: constants whose words fit an immediate, one of them or *)
(* both.  For an operation that does not commute only the second operand   *)
(* counts.                                                                 *)
(***************************************************************************)
Analysis(kind, imm, reg) == [kind |-> kind, imm |-> imm, reg |-> reg]
AnalyzeImm64(a0, a1, commutative, signed) ==
  LET fits(v) == IF signed THEN FitsS9(v) ELSE FitsU9(v)
      low(e) == e.k = "const" /\ fits(Low(e.v))
      high(e) == e.k = "const" /\ fits(High(e.v))
      from0 == commutative /\ a0.k = "const"
  IN CASE from0 /\ low(a0) /\ high(a0) -> Analysis("direct", a0.v, a1)
       [] ~(from0 /\ low(a0) /\ high(a0)) /\ low(a1) /\ high(a1) -> Analysis("direct", a1.v, a0)
       [] OTHER ->
            IF from0 /\ low(a0) THEN Analysis("low", a0.v, a1)
            ELSE IF low(a1) THEN Analysis("low", a1.v, a0)
            ELSE IF from0 /\ high(a0) THEN Analysis("high", a0.v, a1)
            ELSE IF high(a1) THEN Analysis("high", a1.v, a0)
            ELSE Analysis("none", 0, NoElem)

Forced(type, e, hint, force, stk) == LoadArgsToRegsAndPrepDest(type, e, NoElem, hint, {}, force, FALSE, stk)
\* n and nc are the instructions for the low and the high word.
ImmPair(x, n, nc, hint, stk) ==
  LET code(p) ==
        CASE x.kind = "direct" -> <<Imm(n, p.d, p.a, Low(x.imm)), Imm(nc, p.dh, p.ah, High(x.imm))>>
          [] x.kind = "low" -> <<Imm(n, p.d, p.a, Low(x.imm))>> \o MOVimm32(p.dh, High(x.imm))
                               \o <<Ins(nc, p.dh, p.ah, p.dh)>>
          [] x.kind = "high" -> MOVimm32(p.dh, Low(x.imm))
                                \o <<Ins(n, p.d, p.a, p.dh), Imm(nc, p.dh, p.ah, High(x.imm))>>
      using(p) == Out(p, code(p), "I64")
  IN using(Forced("I64", x.reg, hint, x.kind # "direct", stk))

RegPair(p, n, nc) == Out(p, <<Ins(n, p.d, p.a, p.b), Ins(nc, p.dh, p.ah, p.bh)>>, "I64")
\* With an immediate if x found one, else with registers only.
WordPairs(x, n, nc, a0, a1, hint, stk) ==
  IF x.kind # "none" THEN ImmPair(x, n, nc, hint, stk) ELSE RegPair(Prep("I64", a0, a1, hint, stk), n, nc)

\* A constant is subtracted by adding its negative.
AddSub64(op, a0, a1, hint, stk) ==
  IF op.o = "ADD" THEN WordPairs(AnalyzeImm64(a0, a1, TRUE, TRUE), "ADDX", "ADDC", a0, a1, hint, stk)
  ELSE LET x == IF a1.k = "const" THEN AnalyzeImm64(a0, Const("I64", Neg(2 * W, a1.v)), FALSE, TRUE)
                ELSE Analysis("none", 0, NoElem)
       IN IF x.kind # "none" THEN ImmPair(x, "ADDX", "ADDC", hint, stk)
          ELSE RegPair(Prep("I64", a0, a1, hint, stk), "SUBX", "SUBC")

AndOr64(op, a0, a1, hint, stk) ==
  WordPairs(AnalyzeImm64(a0, a1, TRUE, FALSE), op.o, op.o, a0, a1, hint, stk)

DivRem64(op, a0, a1, hint, stk) ==
  LET checked(p, zeroCheck, core, temp) ==
        LET test == <<JumpImm("JNE", p.a, 0, 0)>> \o MOVimm32(temp, Top(W))
                    \o <<Jump("JNE", p.ah, temp, 0), JumpImm("JNE", p.b, Size(W) - 1, 0),
                         JumpImm("JNE", p.bh, Size(W) - 1, 0)>>
            onOverflow == MOVimm32(p.d, 0) \o MOVimm32(p.dh, IF op.o = "REM_U" THEN Top(W) ELSE 0)
        IN Out(p, zeroCheck \o (IF MustNotBeOverflow(a0, a1) THEN core
                                ELSE OverflowCheck(op, test, onOverflow, core)), "I64")
      using(p) ==
        checked(p, IF MustNotBeDivZero(a1) THEN <<>>
                   ELSE <<JumpImm("JNE", p.b, 0, 2), JumpImm("JNE", p.bh, 0, 1), TrapIns("DIV_ZERO")>>,
                <<Wasm("DIV64", op, p.d, p.a, p.b)>>,
                ReqScratchRegProt("I32", hint, {p.a, p.ah, p.b, p.bh}, stk).r)
  IN using(Prep("I64", a0, a1, hint, stk))

Zero(r) == <<Imm("MOV", r, NONE, 0)>>
Clz64(p) ==
  Out(p, << JumpImm("JNE", p.ah, 0, 3),
            Ins("CLZ", p.d, p.a, NONE), Imm("ADD", p.d, p.d, W), Jump("J", NONE, NONE, 1),
            Ins("CLZ", p.d, p.ah, NONE) >> \o Zero(p.dh), "I64")
Ctz64(p) ==
  LET regCtz(from) == << Imm("MOV", p.d, NONE, W), JumpImm("JEQ", from, 0, 4), Imm("RSUB", p.d, from, 0),
                         Ins("AND", p.d, p.d, from), Ins("CLZ", p.d, p.d, NONE),
                         Imm("RSUB", p.d, p.d, W - 1) >>
      high == Append(regCtz(p.ah), Imm("ADD", p.d, p.d, W))
      low == regCtz(p.a)
  IN Out(p, <<JumpImm("JNE", p.a, 0, Len(high) + 1)>> \o high
            \o <<Jump("J", NONE, NONE, Len(low))>> \o low \o Zero(p.dh), "I64")
Unary64(op, p) ==
  Out(p, CASE op.o = "POPCNT" -> << Ins("POPCNT", p.d, p.a, NONE), Ins("POPCNT", p.dh, p.ah, NONE),
                                    Ins("ADD", p.d, p.d, p.dh) >> \o Zero(p.dh)
           [] op.o = "EXTEND32_S" -> <<Ins("MOVE", p.d, NONE, p.a)>>
           [] OTHER -> <<Imm("EXTR", p.d, p.a, ExtendWidth(op)), Ins("MOVE", p.d, NONE, p.d)>>, "I64")
Mul64(p) ==
  Out(p, <<Ins("MULU", p.d, p.a, p.b), Ins("MADD", p.dh, p.a, p.bh), Ins("MADD", p.dh, p.ah, p.b)>>, "I64")

-----------------------------------------------------------------------------
(***************************************************************************)
(* A call of a library function: the caller's lower context is saved       *)
(* around it, D15 while the stack pointer is aligned.  b = NONE when there *)
(* is no second operand.                                                   *)
(***************************************************************************)
SimpleNativeFncCall(op, dest, is64, a, aIs64, b, bIs64) ==
  LET arg1CC == IF aIs64 \/ bIs64 THEN 6 ELSE 5
      overlaps == b # NONE /\ (b = 4 \/ (bIs64 /\ Other(b) = 4) \/ (aIs64 /\ b = 5))
      pair(d, from, wide) == <<Ins("MOV", d, NONE, from)>>
                             \o (IF wide THEN <<Ins("MOV", d + 1, NONE, from + 1)>> ELSE <<>>)
  IN << Ins("MOV", A12, NONE, 15), Imm("MOV", 15, NONE, 0), Ins("MOV", 15, NONE, A12),
        Ins("STLCX", NONE, NONE, NONE) >>
     \o (IF overlaps THEN pair(A4, b, bIs64) ELSE <<>>)
     \o (IF a = 4 THEN <<>> ELSE IF aIs64 THEN <<Ins("MOVP", 4, a, a + 1)>> ELSE Move(4, a, FALSE))
     \o (IF b \in {NONE, arg1CC} THEN <<>>
         ELSE IF overlaps THEN pair(arg1CC, A4, bIs64)
         ELSE IF bIs64 THEN <<Ins("MOVP", arg1CC, b, b + 1)>> ELSE Move(arg1CC, b, FALSE))
     \o <<Wasm("CALL", op, 2, 4, IF b = NONE THEN NONE ELSE arg1CC)>>
     \o pair(ReturnSlot, 2, is64) \o <<Ins("LDLCX", NONE, NONE, NONE)>> \o pair(dest, ReturnSlot, is64)

CallFor(op, a0, a1, hint, stk) ==
  LET type == ResultType(op)
      using(p) ==
        Out(p, SimpleNativeFncCall(op, p.d, Is64(type), p.a, Is64(a0.t), p.b, a1.k # "none" /\ Is64(a1.t)), type)
  IN using(Prep(type, a0, a1, hint, stk))

Int64(op, a0, a1, hint, stk) ==
  CASE op.o = "CLZ" -> Clz64(Prep("I64", a0, NoElem, hint, stk))
    [] op.o = "CTZ" -> Ctz64(Forced("I64", a0, hint, TRUE, stk))
    [] op.o \in {"POPCNT", "EXTEND8_S", "EXTEND16_S", "EXTEND32_S"} ->
         Unary64(op, Prep("I64", a0, NoElem, hint, stk))
    [] op.o \in {"ADD", "SUB"} -> AddSub64(op, a0, a1, hint, stk)
    [] op.o = "MUL" -> Mul64(LoadArgsToRegsAndPrepDest("I64", a0, a1, hint, {}, TRUE, TRUE, stk))
    [] op.o \in {"AND", "OR", "XOR"} -> AndOr64(op, a0, a1, hint, stk)
    [] op.o \in Division -> DivRem64(op, a0, a1, hint, stk)
    [] op.o \in {"SHL", "SHR_S", "SHR_U", "ROTL", "ROTR"} -> CallFor(op, a0, a1, hint, stk)

-----------------------------------------------------------------------------
(***************************************************************************)
(* Floating point numbers.                                                 *)
(***************************************************************************)
LT == 1 EQ == 2 GT == 4 UNORD == 8          \* CMPFFLAGS
Compare(d, type, a, b) == <<Ins(IF Is64(type) THEN "CMPDF" ELSE "CMPF", d, a, b)>>
MoveImm(r, type, v) == IF Is64(type) THEN MOVimm64(r, v) ELSE MOVimm32(r, v)
Canonical(op, r) == <<Wasm("FPU", Op("MIN", op.t, op.t), r, r, r)>>

MinMax(op, p, hint, stk) ==
  LET nan == MoveImm(p.d, op.t, CanonicalNaN(op.t))
      testing(helper) ==
        Out(p, Compare(helper, op.t, p.a, p.b)
               \o << Imm("AND", helper, helper, UNORD), JumpImm("JNE", helper, 0, 2),
                     Wasm("FPU", op, p.d, p.a, p.b), Jump("J", NONE, NONE, Len(nan)) >> \o nan, op.t)
  IN testing(ReqScratchRegProt("I32", hint, MaskReg(p.a, op.t) \cup MaskReg(p.b, op.t), stk).r)

Float32(op, a0, a1, hint, stk) ==
  LET using(p) ==
        CASE op.o = "ABS" -> Out(p, <<Ins("INSERT", p.d, p.a, NONE)>>, "F32")
          [] op.o = "NEG" -> Out(p, <<Ins("INSNT", p.d, p.a, p.a)>>, "F32")
          [] op.o = "COPYSIGN" -> Out(p, <<Ins("INST", p.d, p.a, p.b)>>, "F32")
          [] op.o \in {"MIN", "MAX"} -> MinMax(op, p, hint, stk)
  IN IF op.o \in {"ABS", "NEG", "COPYSIGN", "MIN", "MAX"} THEN using(Prep("F32", a0, a1, hint, stk))
     ELSE CallFor(op, a0, a1, hint, stk)

Float64(op, a0, a1, hint, stk) ==
  LET low(p) == IF p.d # p.a THEN <<Ins("MOV", p.d, NONE, p.a)>> ELSE <<>>
      using(p) ==
        CASE op.o = "ABS" -> Out(p, <<Ins("INSERT", p.dh, p.ah, NONE)>>, "F64")
          [] op.o = "NEG" -> Out(p, <<Ins("INSNT", p.dh, p.ah, p.ah)>>, "F64")
          [] op.o = "COPYSIGN" -> Out(p, Append(low(p), Ins("INST", p.dh, p.ah, p.bh)), "F64")
          [] op.o \in {"MIN", "MAX"} -> MinMax(op, p, hint, stk)
          [] OTHER -> Out(p, <<Wasm("FPU", op, p.d, p.a, p.b)>> \o Canonical(op, p.d), "F64")
  IN IF op.o \in FloatBinary \cup {"ABS", "NEG"} THEN using(Prep("F64", a0, a1, hint, stk))
     ELSE CallFor(op, a0, a1, hint, stk)

(***************************************************************************)
(* Conversions.                                                            *)
(***************************************************************************)
TruncBounds(op, a, helper) ==
  LET compare(limit) == MoveImm(helper, op.s, limit) \o Compare(helper, op.s, a, helper)
  IN compare(TruncUpper(op))
     \o << Imm("AND", helper, helper, GT + EQ + UNORD), JumpImm("JEQ", helper, 0, 1), TrapIns("TRUNC_OVERFLOW") >>
     \o compare(TruncLower(op))
     \o << JumpImm("JNZT", helper, 2, 1), TrapIns("TRUNC_OVERFLOW") >>

Trunc(op, p, hint, stk) ==
  LET wide == op.t = "I64" /\ op.s = "F64"
      convert == IF op.s = "F32" THEN SimpleNativeFncCall(op, p.d, Is64(op.t), p.a, FALSE, NONE, FALSE)
                 ELSE <<Wasm("FPU", op, p.d, p.a, NONE)>>
      helper == ReqScratchRegProt(op.s, hint, MaskReg(p.a, IF wide THEN "F64" ELSE "F32"), stk).r
  IN Out(p, TruncBounds(op, p.a, helper) \o convert, op.t)

Reinterpret(op, p) ==
  Out(p, IF p.d = p.a THEN <<>>
         ELSE IF Is64(op.t) THEN <<Ins("MOVP", p.d, p.a, p.ah)>> ELSE Move(p.d, p.a, FALSE), op.t)

Convert(op, a0, hint, stk) ==
  LET using(p) ==
        CASE op \in TruncOps -> Trunc(op, p, hint, stk)
          [] op.o = "REINTERPRET" -> Reinterpret(op, p)
          [] op.o = "WRAP" -> Out(p, Move(p.d, p.a, FALSE), "I32")
          [] op.o = "EXTEND_S" -> Out(p, <<Ins("MOVE", p.d, NONE, p.a)>>, "I64")
          [] op.o = "EXTEND_U" -> Out(p, Move(p.d, p.a, FALSE) \o Zero(p.dh), "I64")
          [] op.o \in {"DEMOTE", "PROMOTE"} ->
               Out(p, <<Wasm("FPU", op, p.d, p.a, NONE)>> \o Canonical(op, p.d), op.t)
          [] OTHER -> Out(p, <<Wasm("FPU", op, p.d, p.a, NONE)>>, "F64")
  IN IF op.o = "REINTERPRET" /\ a0.k = "const" THEN Code(<<>>, Const(op.t, a0.v))
     ELSE IF op \in ConvertOps /\ op.t = "F32" THEN CallFor(op, a0, NoElem, hint, stk)
     ELSE using(Prep(op.t, a0, NoElem, hint, stk))

-----------------------------------------------------------------------------
(***************************************************************************)
(* Comparisons.  LT and GE take the operands in the order that needs no    *)
(* other comparison.                                                       *)
(***************************************************************************)
ImmCompare(n, e, v, hint, stk) ==
  LET using(p) == Out(p, <<Imm(n, p.d, p.a, v)>>, "I32") IN using(Prep("I32", e, NoElem, hint, stk))
RegCompare(n, a0, a1, hint, stk) ==
  LET using(p) == Out(p, <<Ins(n, p.d, p.a, p.b)>>, "I32") IN using(Prep("I32", a0, a1, hint, stk))

SignedCompare == {"LT_S", "GT_S", "LE_S", "GE_S"}
Less == {"LT_S", "LT_U", "GT_S", "GT_U"}
Reversed == {"GT_S", "GT_U", "LE_S", "LE_U"}
Compare32(op, a0, a1, hint, stk) ==
  LET fits(e) == e.k = "const" /\ FitsS9(e.v)
      first == IF op.o \in Reversed THEN a1 ELSE a0
      second == IF op.o \in Reversed THEN a0 ELSE a1
      n == IF op.o \in SignedCompare THEN IF op.o \in Less THEN "LT" ELSE "GE"
           ELSE IF op.o \in Less THEN "LTU" ELSE "GEU"
      direct == second.k = "const" /\ (IF op.o \in SignedCompare THEN FitsS9(second.v) ELSE FitsU9(second.v))
  IN CASE op.o = "EQZ" -> ImmCompare("EQ", a0, 0, hint, stk)
       [] op.o \in {"EQ", "NE"} ->
            IF fits(a0) THEN ImmCompare(op.o, a1, a0.v, hint, stk)
            ELSE IF fits(a1) THEN ImmCompare(op.o, a0, a1.v, hint, stk)
            ELSE RegCompare(op.o, a0, a1, hint, stk)
       [] OTHER -> IF direct THEN ImmCompare(n, first, second.v, hint, stk)
                   ELSE RegCompare(n, first, second, hint, stk)

EqImm64(op, x, hint, stk) ==
  LET then == IF op.o = "EQ" THEN "ANDEQ" ELSE "ORNE"
      code(p) ==
        CASE x.kind = "direct" -> <<Imm(op.o, p.d, p.a, Low(x.imm)), Imm(then, p.d, p.ah, High(x.imm))>>
          [] x.kind = "low" -> MOVimm32(p.d, High(x.imm))
                               \o <<Ins(op.o, p.d, p.ah, p.d), Imm(then, p.d, p.a, Low(x.imm))>>
          [] x.kind = "high" -> MOVimm32(p.d, Low(x.imm))
                                \o <<Ins(op.o, p.d, p.a, p.d), Imm(then, p.d, p.ah, High(x.imm))>>
      using(p) == Out(p, code(p), "I32")
  IN using(Forced("I32", x.reg, hint, x.kind # "direct", stk))

Compare64(op, a0, a1, hint, stk) ==
  LET lowWord == IF op.o \in Less THEN "ANDLTU" ELSE "ANDGEU"
      highWord == IF op.o \in SignedCompare THEN "ORLT" ELSE "ORLTU"
      greater == op.o \in {"GT_S", "GT_U", "GE_S", "GE_U"}
      zero(p) == Out(p, <<Ins("OR", p.d, p.a, p.ah), Imm("EQ", p.d, p.d, 0)>>, "I32")
      words(p) ==
        Out(p, IF op.o \in {"EQ", "NE"}
               THEN <<Ins(op.o, p.d, p.a, p.b), Ins(IF op.o = "EQ" THEN "ANDEQ" ELSE "ORNE", p.d, p.ah, p.bh)>>
               ELSE << Ins("EQ", p.d, p.ah, p.bh),
                       IF op.o \in Reversed THEN Ins(lowWord, p.d, p.b, p.a) ELSE Ins(lowWord, p.d, p.a, p.b),
                       IF greater THEN Ins(highWord, p.d, p.bh, p.ah) ELSE Ins(highWord, p.d, p.ah, p.bh) >>, "I32")
      equality(x) ==
        IF op.o \in {"EQ", "NE"} /\ x.kind # "none" THEN EqImm64(op, x, hint, stk)
        ELSE words(LoadArgsToRegsAndPrepDest("I32", a0, a1, hint, {}, TRUE, TRUE, stk))
  IN IF op.o = "EQZ" THEN zero(Prep("I32", a0, NoElem, hint, stk))
     ELSE equality(AnalyzeImm64(a0, a1, TRUE, TRUE))

CmpFlags(o) == CASE o = "EQ" -> EQ [] o = "NE" -> LT + GT + UNORD [] o = "LT" -> LT [] o = "GT" -> GT
                 [] o = "LE" -> LT + EQ [] o = "GE" -> GT + EQ
CompareFloat(op, a0, a1, hint, stk) ==
  LET using(p) == Out(p, Compare(p.d, op.s, p.a, p.b)
                         \o <<Imm("AND", p.d, p.d, CmpFlags(op.o)), Imm("NE", p.d, p.d, 0)>>, "I32")
  IN using(Prep("I32", a0, a1, hint, stk))

-----------------------------------------------------------------------------
(***************************************************************************)
(* Select: one value or the other, by a condition that is read last.       *)
(***************************************************************************)
SelectImm(n, e, imm, c, hint) ==
  LET sel(d, v) == Instr(n, d, d, NONE, v, c.reg, NoOp)
      from(l) == Code(c.code \o l.code \o IF Is64(e.t) THEN <<sel(l.reg, Low(imm)), sel(Other(l.reg), High(imm))>>
                                         ELSE <<sel(l.reg, imm)>>, Scratch(e.t, l.reg))
  IN from(LiftToRegInPlaceProt(e, TRUE, TRUE, hint, c.tr, c.stk))

\* c, t and f are the condition and the values in registers.
SelectReg(type, c, t, f, hint) ==
  LET hintReg == GetUnderlyingRegIfSuitable(hint, type, {})
      free(r) == ~Is64(type) \/ c.reg # Other(r)      \* the high word is written before the condition is read again
      to(d) == Code(c.code \o t.code \o f.code
                    \o (IF Is64(type) THEN <<Ins4("SEL", Other(d), Other(t.reg), Other(f.reg), c.reg)>> ELSE <<>>)
                    \o <<Ins4("SEL", d, t.reg, f.reg, c.reg)>>, Scratch(type, d))
  IN to(IF hintReg # NONE /\ free(hintReg) THEN hintReg
        ELSE IF ~Is64(type) /\ c.writable THEN c.reg
        ELSE IF t.writable /\ free(t.reg) THEN t.reg
        ELSE IF f.writable /\ free(f.reg) THEN f.reg
        ELSE ReqScratchRegProt(type, NoElem, f.tr.read \cup f.tr.write \cup f.tr.future, f.stk).r)

EmitSelect(type, truthy, falsy, condElem, hint, stk) ==
  LET fits(e) == IF Is64(type) THEN FitsS9(Low(e.v)) /\ FitsS9(High(e.v)) ELSE FitsS9(e.v)
      isConst(e) == e.k = "const" /\ type \in Ints
      third(c, t, f) == SelectReg(type, c, t, f, hint)
      second(c, t) == third(c, t, LiftToRegInPlaceProt(falsy, TRUE, FALSE, hint, t.tr, t.stk))
      first(c) ==
        IF isConst(falsy) /\ fits(falsy) THEN SelectImm("SEL", truthy, falsy.v, c, hint)
        ELSE IF ~isConst(falsy) /\ isConst(truthy) /\ fits(truthy) THEN SelectImm("SELN", falsy, truthy.v, c, hint)
        ELSE second(c, LiftToRegInPlaceProt(truthy, TRUE, FALSE, hint, c.tr, c.stk))
  IN first(LiftToRegInPlaceProt(condElem, TRUE, FALSE, hint, Track({}, {}, MaskOf(truthy) \cup MaskOf(falsy)), stk))

(***************************************************************************)
(* The translation of an instruction whose operands are the top elements   *)
(* of the compile-time stack.                                              *)
(***************************************************************************)
Emit(op, args, hint, stk) ==
  LET a0 == args[1]
      a1 == IF Len(args) > 1 THEN args[2] ELSE NoElem
  IN CASE op.o = "SELECT" -> EmitSelect(op.t, a0, a1, args[3], hint, stk)
       [] IsCompare(op) -> IF op.s = "I32" THEN Compare32(op, a0, a1, hint, stk)
                           ELSE IF op.s = "I64" THEN Compare64(op, a0, a1, hint, stk)
                           ELSE CompareFloat(op, a0, a1, hint, stk)
       [] op.s # op.t -> Convert(op, a0, hint, stk)
       [] op.t = "I32" -> Int32(op, a0, a1, hint, stk)
       [] op.t = "I64" -> Int64(op, a0, a1, hint, stk)
       [] op.t = "F32" -> Float32(op, a0, a1, hint, stk)
       [] op.t = "F64" -> Float64(op, a0, a1, hint, stk)

-----------------------------------------------------------------------------
(***************************************************************************)
(* The machine.                                                            *)
(***************************************************************************)
Pair(s, r) == s[r] + Size(W) * s[r + 1]
SetPair(s, r, v) == (r :> Low(v)) @@ ((r + 1) :> High(v)) @@ s
Load(s, e) == IF e.k = "const" THEN e.v ELSE IF Is64(e.t) THEN Pair(s, e.r) ELSE s[e.r]
Store(s, e, v) == IF Is64(e.t) THEN SetPair(s, e.r, v) ELSE (e.r :> v) @@ s

Flags(type, x, y) ==
  IF IsNaN(type, x) \/ IsNaN(type, y) THEN UNORD
  ELSE IF Order(type, x) < Order(type, y) THEN LT
  ELSE IF Order(type, x) = Order(type, y) THEN EQ ELSE GT
\* A shift count is a signed number of one bit more than it takes to name a bit.
ShiftBy(v) == Signed(4, v % 16)
BitReflect(v) == LET f[k \in 0 .. W] == IF k = 0 THEN 0 ELSE f[k - 1] + Bit(v, k - 1) * 2 ^ (W - k) IN f[W]
KeepLow(v, b) == v - (v % 2) + Bool(b)

Alu(n, d, x, y) ==
  CASE n = "MOV" -> y
    [] n = "ADD" -> Mask(W, x + y)
    [] n = "ADDIH" -> Mask(W, x + y * Size(LOW))
    [] n = "MOVH" -> y * Size(LOW)
    [] n = "SUB" -> Mask(W, x - y)
    [] n = "RSUB" -> Mask(W, y - x)
    [] n = "MUL" -> Mul(W, x, y)
    [] n = "MADD" -> Mask(W, d + Mul(W, x, y))
    [] n = "AND" -> BitAnd(x, y) [] n = "OR" -> BitOr(x, y) [] n = "XOR" -> BitXor(x, y)
    [] n = "SH" -> IF ShiftBy(y) >= 0 THEN Shl(W, x, ShiftBy(y)) ELSE Shr(x, -ShiftBy(y))
    [] n = "SHA" -> IF ShiftBy(y) >= 0 THEN Shl(W, x, ShiftBy(y)) ELSE Sar(W, x, -ShiftBy(y))
    [] n = "DEXTR" -> IF y < W THEN Rotl(W, x, y) ELSE 0
    [] n = "CLZ" -> Clz(W, x) [] n = "POPCNT" -> Popcnt(W, x) [] n = "REFLECT" -> BitReflect(x)
    [] n = "EXTR" -> SignExtend(y, W, x)
    [] n = "INSERT" -> x % Top(W)
    [] n = "INSNT" -> (x % Top(W)) + Top(W) * (1 - (y \div Top(W)))
    [] n = "INST" -> (x % Top(W)) + Top(W) * (y \div Top(W))
    [] n = "EQ" -> Bool(x = y) [] n = "NE" -> Bool(x # y)
    [] n = "LT" -> Bool(Signed(W, x) < Signed(W, y)) [] n = "GE" -> Bool(Signed(W, x) >= Signed(W, y))
    [] n = "LTU" -> Bool(x < y) [] n = "GEU" -> Bool(x >= y)
    [] n = "ANDEQ" -> KeepLow(d, d % 2 = 1 /\ x = y) [] n = "ORNE" -> KeepLow(d, d % 2 = 1 \/ x # y)
    [] n = "ANDLTU" -> KeepLow(d, d % 2 = 1 /\ x < y) [] n = "ANDGEU" -> KeepLow(d, d % 2 = 1 /\ x >= y)
    [] n = "ORLT" -> KeepLow(d, d % 2 = 1 \/ Signed(W, x) < Signed(W, y))
    [] n = "ORLTU" -> KeepLow(d, d % 2 = 1 \/ x < y)

Garbage == 85
LowerContext == 0 .. 7
\* A function of the library or an instruction that does what op asks.
Apply(s, op, d, a, b) ==
  LET operand(k, r) == IF Is64(ArgType(op, k)) THEN Pair(s, r) ELSE s[r]
      v == IF Arity(op) = 1 THEN <<operand(1, a)>> ELSE <<operand(1, a), operand(2, b)>>
      x == IF Trap(op, v) = "none" THEN Result(op, v) ELSE 0
  IN IF Is64(ResultType(op)) THEN SetPair(s, d, x) ELSE (d :> x) @@ s

WithCarry(s, d, v, carry) == (Carry :> carry) @@ (d :> v) @@ s
Exec(i, s) ==
  LET x == IF i.a = NONE THEN 0 ELSE s[i.a]
      y == IF i.b = NONE THEN i.i ELSE s[i.b]
      signed(v) == Signed(W, v)
  IN CASE i.n = "IMASK" -> (i.d :> Mask(W, i.a * 2 ^ i.b)) @@ ((i.d + 1) :> (2 ^ i.x - 1) * 2 ^ i.b) @@ s
       [] i.n = "MOVE" -> SetPair(s, i.d, SignExtend(W, 2 * W, y))
       [] i.n = "MOVP" -> (i.d :> x) @@ ((i.d + 1) :> y) @@ s
       [] i.n = "LDD" -> SetPair(s, i.d, Pair(s, i.a))
       [] i.n = "ADDX" -> WithCarry(s, i.d, Mask(W, x + y), Bool(x + y >= Size(W)))
       [] i.n = "ADDC" -> WithCarry(s, i.d, Mask(W, x + y + s[Carry]), Bool(x + y + s[Carry] >= Size(W)))
       [] i.n = "SUBX" -> WithCarry(s, i.d, Mask(W, x - y), Bool(x >= y))
       [] i.n = "SUBC" -> WithCarry(s, i.d, Mask(W, x - y - 1 + s[Carry]), Bool(x - y - 1 + s[Carry] >= 0))
       [] i.n = "MULU" -> SetPair(s, i.d, x * y)
       [] i.n = "DIV" -> (i.d :> Mask(W, Quotient(signed(x), signed(y))))
                         @@ ((i.d + 1) :> Mask(W, Remainder(signed(x), signed(y)))) @@ s
       [] i.n = "DIVU" -> (i.d :> x \div y) @@ ((i.d + 1) :> x % y) @@ s
       [] i.n \in {"DIV64", "FPU"} -> Apply(s, i.op, i.d, i.a, i.b)
       [] i.n = "CMPF" -> (i.d :> Flags("F32", x, y)) @@ s
       [] i.n = "CMPDF" -> (i.d :> Flags("F64", Pair(s, i.a), Pair(s, i.b))) @@ s
       [] i.n = "SEL" -> (i.d :> IF s[i.x] # 0 THEN x ELSE y) @@ s
       [] i.n = "SELN" -> (i.d :> IF s[i.x] = 0 THEN x ELSE y) @@ s
       [] i.n = "STLCX" -> [k \in {Context + r : r \in LowerContext} |-> s[k - Context]] @@ s
       [] i.n = "LDLCX" -> [r \in LowerContext |-> s[Context + r]] @@ s
       [] i.n = "CALL" -> [r \in (LowerContext \ {i.d, i.d + 1}) \cup {A4, A4 + 1} |-> Garbage]
                          @@ Apply(s, i.op, i.d, i.a, i.b)
       [] OTHER -> (i.d :> Alu(i.n, IF i.d = NONE THEN 0 ELSE s[i.d], x, y)) @@ s

\* The conditional jumps that skip.
Jumps(i, s) ==
  CASE i.n = "J" -> TRUE
    [] i.n = "JNE" -> s[i.a] # (IF i.b = NONE THEN i.i ELSE s[i.b])
    [] i.n = "JEQ" -> s[i.a] = i.i
    [] i.n = "JNZT" -> Bit(s[i.a], i.i) = 1
    [] OTHER -> FALSE
IsJump(i) == i.n \in {"J", "JNE", "JEQ", "JNZT"}
=============================================================================
