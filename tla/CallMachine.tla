----------------------------- MODULE CallMachine -----------------------------
(***************************************************************************)
(* What the code emitted around a call does to registers and stack, one    *)
(* instruction per step. The emitted code is a sequence of instructions,   *)
(* computed from a job (which call, of which signature, on which target)   *)
(* by CallsX86, CallsArm and CallsTriCore; this module is the machine that *)
(* runs it; what a callee does to registers and stack is in CallFrames.    *)
(*                                                                         *)
(* Storage is divided in cells of four bytes. A cell and a value are both  *)
(* <<space, name, number, half>>, and a cell that was not written holds    *)
(* its own name; so what must survive is what still holds its own name.    *)
(* The i-th argument (i from 0) is the value <<"args", "", 8 * i, 0>> and, *)
(* when of 64 bits, <<"args", "", 8 * i + 4, 0>>; the j-th result the      *)
(* value <<"res", "", 8 * j, 0>> and its successor. A pointer is           *)
(* <<"&", space, address, half>>.                                          *)
(***************************************************************************)
EXTENDS Integers, Sequences, SequencesExt, FiniteSets, TLC

VARIABLES job,    \* the call, constant during a behaviour
          cells,  \* what the written cells hold
          code    \* the instructions still to run

vars == <<job, cells, code>>

Is64(type) == type \in {"i64", "f64"}
IsInt(type) == type \in {"i32", "i64"}
Size(type) == IF Is64(type) THEN 8 ELSE 4
RoundUp(n, m) == ((n + m - 1) \div m) * m

-----------------------------------------------------------------------------
(* Operands: a register, w bytes at an offset from the address in a        *)
(* register, a field of the link data before the linear memory (addressed  *)
(* from the register that holds its base), a position of the frame of the  *)
(* function (counted downwards from above its parameters), or an immediate.*)

Reg(r, w) == [k |-> "reg", r |-> r, d |-> 0, f |-> "", w |-> w]
Mem(base, d, w) == [k |-> "mem", r |-> base, d |-> d, f |-> "", w |-> w]
Data(base, field, w) == [k |-> "data", r |-> base, d |-> 0, f |-> field, w |-> w]
Pos(p, w) == [k |-> "pos", r |-> <<"", 0>>, d |-> p, f |-> "", w |-> w]
Imm(name, w) == [k |-> "imm", r |-> <<"", 0>>, d |-> 0, f |-> name, w |-> w]

OfWidth(o, w) == [k |-> o.k, r |-> o.r, d |-> o.d, f |-> o.f, w |-> w]
SameRegister(o, p) == o.k = "reg" /\ p.k = "reg" /\ o.r = p.r

(* A 64-bit value takes two TriCore registers, and one register of the     *)
(* other targets.                                                          *)
RegCell(r, h) == IF r[1] \in {"D", "A"} THEN <<"reg", r[1], r[2] + h, 0>>
                                        ELSE <<"reg", r[1], r[2], h>>
Junk == <<"junk", "", 0, 0>>
Epoch == <<"epoch", "", 0, 0>>   \* how often the host has run: the job memory moves
Truth == <<"truth", "", 0, 0>>   \* which value of the global is the current one

Val(s, c) == IF c \in DOMAIN s THEN s[c] ELSE c

\* What the base of the linear memory, the cached size and a global should hold.
LinMem(s, h) == <<"&", "data", Val(s, Epoch)[3], h>>
MemSize(s, h) == <<"memSize", "", Val(s, Epoch)[3], h>>
Global(s, h) == <<"global", "", Val(s, Truth)[3], h>>

(* The cell that the h-th four bytes of an operand are in. What goes       *)
(* through something that is not a pointer, or through the base of a       *)
(* memory that was moved, goes astray.                                     *)
CellOf(s, o, h) ==
    LET p == Val(s, RegCell(o.r, 0))
    IN  CASE o.k = "reg"  -> RegCell(o.r, h)
          [] o.k = "imm"  -> <<"imm", o.f, 0, h>>
          [] o.k = "mem"  -> IF p[1] = "&" /\ p[2] # "data" THEN <<p[2], "", p[3] + o.d + 4 * h, 0>>
                                                          ELSE Junk
          [] o.k = "data" -> IF p = LinMem(s, 0) THEN <<"data", o.f, 0, h>> ELSE Junk

Halves(w) == IF w = 4 THEN {0} ELSE {0, 1}     \* of a vector register only what is used
Holds(s, o, v0) == \A h \in Halves(o.w) : Val(s, CellOf(s, o, h)) = v0[h]

PointerTo(space, d) == [h \in 0 .. 1 |-> <<"&", space, d, h>>]
Named(name, n) == [h \in 0 .. 1 |-> <<name, "", n, h>>]
Host == <<"host", 0>>        \* stands for the host's own pointer to the result array

Argument(i) == [h \in 0 .. 1 |-> <<"args", "", 8 * i + 4 * h, 0>>]
Result(j) == [h \in 0 .. 1 |-> <<"res", "", 8 * j + 4 * h, 0>>]

-----------------------------------------------------------------------------
(* Instructions.                                                           *)

Instruction(op, to, from) == [op |-> op, to |-> to, from |-> from]
Mov(to, from) == Instruction("mov", <<to>>, <<from>>)
Swap(to, from) == Instruction("mov", <<to, from>>, <<from, to>>)
Lea(to, base, d) == Instruction("lea", <<to>>, <<Mem(base, d, to.w)>>)
Spoil(regs, w) == Instruction("spoil", [n \in DOMAIN regs |-> Reg(regs[n], w)], <<>>)
Rebase(bases, slot) == Instruction("rebase", bases, <<slot>>)
Target(index) == Instruction("target", <<>>, <<index>>)
EnterFrame(sp, field) == Instruction("enter", <<field>>, <<sp>>)
LeaveFrame(sp, field) == Instruction("leave", <<field>>, <<sp>>)
CallWasm == Instruction("wasm", <<>>, <<>>)
CallHost == Instruction("host", <<>>, <<>>)
Jump == Instruction("jump", <<>>, <<>>)
Body == Instruction("body", <<>>, <<>>)           \* the body of a function starts
TrapEntry == Instruction("label", <<>>, <<>>)     \* where the handler of traps jumps to
Return(sp, width) == Instruction("ret", <<sp>>, <<Mem(sp.r, width, sp.w)>>)

(* Concatenation of the code of the members of a sequence.                 *)
Concat(seqs) == FoldLeft(LAMBDA acc, s : acc \o s, <<>>, seqs)
If(condition, instructions) == IF condition THEN instructions ELSE <<>>

-----------------------------------------------------------------------------
(* ParallelMoveResolver: the order of the moves that put arguments into    *)
(* registers (and, of a tail call, onto the stack). A move is emitted when *)
(* its target is no source of a pending one; what is left is on cycles,    *)
(* which are opened with a temporary, closed by swaps, or left alone. All  *)
(* sources are different here, so that the reuse of a register just loaded *)
(* (storageReplacement) does not occur.                                    *)

Copy(to, from, type) == [to |-> to, from |-> from, type |-> type]
Location(o) == OfWidth(o, 0)
Pushed(copies) == SelectSeq(copies, LAMBDA c : Location(c.to) # Location(c.from))

(* The records of a move: one more, for the second register, if the target *)
(* is a pair; a pair that goes to the stack has a record of its first      *)
(* register only.                                                          *)
IsPair(o) == o.k = "reg" /\ o.r[1] = "D" /\ o.w = 8
Registers(o) == {Location(o)} \cup (IF IsPair(o) THEN {Reg(<<"D", o.r[2] + 1>>, 0)} ELSE {})
UsedAsSource(left) ==
    UNION {IF IsPair(left[n].to) THEN Registers(left[n].from) ELSE {Location(left[n].from)} : n \in DOMAIN left}

Without(left, copy) == SelectSeq(left, LAMBDA c : c # copy)
Targeting(left, freed) == SelectSeq(left, LAMBDA c : Location(c.to) = Location(freed))
Step(op, to, from, type) == [op |-> op, to |-> to, from |-> from, type |-> type]
MoveStep(copy) == Step("move", copy.to, copy.from, copy.type)

(* The first pending move whose target is free is emitted, as long as      *)
(* there is one. Of a pair, only the first register is asked for.          *)
RECURSIVE MoveAllWithoutConflict(_)
MoveAllWithoutConflict(st) ==
    LET used == UsedAsSource(st.left)
        free == SelectSeq(st.left, LAMBDA c : Location(c.to) \notin used)
    IN  IF free = <<>> THEN st
        ELSE MoveAllWithoutConflict([left |-> Without(st.left, free[1]), steps |-> Append(st.steps, MoveStep(free[1]))])

(* The source of the first move is kept in a temporary, and the moves into *)
(* the place that the previous one has freed follow.                       *)
RECURSIVE MoveIntoFreed(_, _)
MoveIntoFreed(st, freed) ==
    LET next == Targeting(st.left, freed)
    IN  IF next = <<>> THEN st
        ELSE MoveIntoFreed([left |-> Without(st.left, next[1]), steps |-> Append(st.steps, MoveStep(next[1]))],
                           next[1].from)
ResolveCycleByTemp(st, temps) ==
    LET head == st.left[1]
        used == UsedAsSource(st.left)
        temp == SelectSeq(temps[head.type], LAMBDA t : Registers(t) \cap used = {})[1]
        chain == MoveIntoFreed([left |-> Tail(st.left),
                                steps |-> Append(st.steps, Step("move", temp, head.from, head.type))], head.from)
    IN  [left |-> chain.left, steps |-> Append(chain.steps, Step("move", head.to, temp, head.type))]

(* A swap completes one move, and the last one of a cycle completes two;   *)
(* then it is the turn of the first one left.                              *)
RECURSIVE SwapFrom(_, _, _)
SwapFrom(st, copy, w) ==
    LET left == Without(st.left, copy)
        next == Targeting(left, copy.from)
        closed == next # <<>> /\ Targeting(left, next[1].from) = <<>>
        rest == IF closed THEN Without(left, next[1]) ELSE left
        swapped == [left |-> rest, steps |-> Append(st.steps, Step("swap", OfWidth(copy.to, w), OfWidth(copy.from, w), copy.type))]
    IN  IF rest = <<>> THEN swapped
        ELSE SwapFrom(swapped, IF next = <<>> \/ closed THEN rest[1] ELSE next[1], w)
ResolveCycleBySwap(st) ==
    SwapFrom(st, st.left[1], IF \E n \in DOMAIN st.left : Is64(st.left[n].type) THEN 8 ELSE 4)

(* The steps that resolve the moves; "way" says what is done with cycles.  *)
RECURSIVE ResolveCycle(_, _, _)
ResolveCycle(st, way, temps) ==
    IF st.left = <<>> THEN st
    ELSE ResolveCycle(MoveAllWithoutConflict(IF way = "swap" THEN ResolveCycleBySwap(st)
                                                             ELSE ResolveCycleByTemp(st, temps)), way, temps)
Resolved(copies, way, temps) ==
    LET linear == MoveAllWithoutConflict([left |-> copies, steps |-> <<>>])
    IN  IF way = "linear" THEN linear.steps ELSE ResolveCycle(linear, way, temps).steps

-----------------------------------------------------------------------------
(* s with the value of one operand, as it is in s0, put into another, or   *)
(* with given halves; s with everything in some registers lost.            *)
PutValue(s, s0, to, v) ==
    IF to.w = 4 THEN (CellOf(s0, to, 0) :> v[0]) @@ s
    ELSE (CellOf(s0, to, 0) :> v[0]) @@ (CellOf(s0, to, 1) :> v[1]) @@ s
Put(s, s0, to, from) == PutValue(s, s0, to, [h \in Halves(to.w) |-> Val(s0, CellOf(s0, from, h))])
Lose(s, regs, w) == [c \in {RegCell(r, h) : r \in regs, h \in Halves(w)} |-> Junk] @@ s

Moved(s, i) == FoldLeft(LAMBDA acc, n : Put(acc, s, i.to[n], i.from[n]), s,
                        [n \in DOMAIN i.to |-> n])
Addressed(s, i) ==
    LET p == Val(s, RegCell(i.from[1].r, 0))
    IN  PutValue(s, s, i.to[1], [h \in 0 .. 1 |-> IF p[1] = "&" THEN <<"&", p[2], p[3] + i.from[1].d, h>>
                                                              ELSE Junk])
Spoiled(s, i) == Lose(s, {i.to[n].r : n \in DOMAIN i.to}, i.to[1].w)

(* The bases of job memory and linear memory (as one: their distance is    *)
(* constant) from the cached pointer to the pointer that the memory        *)
(* manager keeps up to date.                                               *)
Rebased(s, i) ==
    FoldLeft(LAMBDA acc, base :
                 PutValue(acc, s, base,
                          [h \in 0 .. 1 |-> IF Val(s, CellOf(s, i.from[1], 0)) = <<"data", "jobMemoryDataPtrPtr", 0, 0>>
                                            THEN LinMem(s, h) ELSE Junk]),
             s, i.to)

(* The first frame notes its stack pointer as the target of traps, and     *)
(* takes the note away.                                                    *)
NoFrame == [h \in 0 .. 1 |-> <<"null", "", 0, h>>]
Entered(s, i) == IF Holds(s, i.to[1], NoFrame) THEN Put(s, s, i.to[1], i.from[1]) ELSE s
Left(s, i) == IF Val(s, CellOf(s, i.to[1], 0)) = Val(s, CellOf(s, i.from[1], 0))
              THEN PutValue(s, s, i.to[1], NoFrame) ELSE s

Executed(s, i) ==
    CASE i.op = "mov"    -> Moved(s, i)
      [] i.op \in {"lea", "ret"} -> Addressed(s, i)
      [] i.op = "spoil"  -> Spoiled(s, i)
      [] i.op = "rebase" -> Rebased(s, i)
      [] i.op = "target" -> (<<"target", "", 0, 0>> :> Val(s, CellOf(s, i.from[1], 0))) @@ s
      [] i.op = "enter"  -> Entered(s, i)
      [] i.op = "leave"  -> Left(s, i)
      [] i.op = "label"  -> s
=============================================================================
