---------------------------- MODULE CompileStack ----------------------------
(***************************************************************************)
(* The single pass compiler's stack of deferred actions, its register      *)
(* allocation and the storage it believes each local to be in, against the *)
(* machine that executes the emitted instructions (the x86-64 backend).    *)
(*                                                                         *)
(* One record `c` holds both.  What the compiler knows:                    *)
(*   stk   the operands not yet consumed, the deferred actions over them   *)
(*         and the open blocks (Stack, StackElement)                       *)
(*   st    where each local is: "const" (still zero), "reg", "mem" or      *)
(*         "stackreg" (register and home agree)                            *)
(*   pend  hasPendingSideEffectInstructions_                               *)
(* What the emitted code does on one execution of the function:            *)
(*   m     the contents of registers, homes and spill slots                *)
(*   val   what the locals and the global hold by the WebAssembly semantics *)
(*   to    0 while the execution is at the end of the emitted code; n if it *)
(*         jumped to the label of the n-th open block, whose code is not   *)
(*         emitted yet; Left if it went elsewhere                          *)
(*   res   the values the jump carries                                     *)
(*   overtaken, wrong   something went wrong on the way                    *)
(* A value is a number standing for "this result"; 0 is no result at all.  *)
(***************************************************************************)
EXTENDS Naturals, Sequences, FiniteSets, SequencesExt, FiniteSetsExt

CONSTANTS
  Scratch,     \* the scratch registers, in the order they are given out
  ParamRegs,   \* the registers of the first parameters of a call
  Returns,     \* the registers of the first results
  Reserved,    \* registers kept free when loads are scheduled early
  Signatures,  \* of blocks and of functions: <<parameters, results>>
  Results,     \* how many results the function itself has
  Liberties,   \* which states the code does not handle are admitted: "unmerged"
  Shapes       \* bound: the functions, each a sequence of sets of instructions

VARIABLE c

\* One local in a register, one in memory only, one global in a register.
Locals == {"x", "y"}
Register == [x |-> "X", g |-> "G"]
Home == [x |-> "home x", y |-> "home y"]
GetOf == [x |-> "x.get", y |-> "y.get"]
SetOf == [x |-> "x.set", y |-> "y.set"]
TeeOf == [x |-> "x.tee", y |-> "y.tee"]
Registers == {"X", "G"} \union Range(Scratch)
Slots == <<"s1", "s2", "s3", "s4", "s5", "s6", "s7", "s8">>
Locations == Registers \union {"home x", "home y"} \union Range(Slots)

Left == 99
Zero == 1    \* the value of a local that was not set yet
Constant == 2

Blocks == {"block", "loop", "ifblock"}
Arity == [add |-> 2, sub |-> 2, cmp |-> 2, load |-> 1, loado |-> 1, div |-> 2,
          select |-> 3]
SideEffect == {"load", "loado", "div"}

Place(k, at) == [k |-> k, at |-> at]
NoHint == Place("none", "none")

\* An element of the compile stack; `ref` says whether it is in the chain of the
\* references to its variable.
StackElement(k, at, op, v, ref, sig, dead, header) ==
  [k |-> k, at |-> at, op |-> op, v |-> v, ref |-> ref,
   sig |-> sig, dead |-> dead, header |-> header]
Element(k, at, op, v) ==
  StackElement(k, at, op, v, k \in {"local", "saved", "global", "scratch", "temp"},
               <<0, 0>>, FALSE, <<>>)
Referenced(e, ref) == StackElement(e.k, e.at, e.op, e.v, ref, e.sig, e.dead, e.header)

(***************************************************************************)
(* Elements, their storage and their chains of references.                 *)
(***************************************************************************)
Storage(s, e) ==
  CASE e.k \in {"const", "def", "saved"} \union Blocks -> "none"
    [] e.at = "y" \/ (e.at = "x" /\ e.k = "local" /\ s.st.x = "mem") -> Home[e.at]
    [] e.at \in DOMAIN Register -> Register[e.at]
    [] OTHER -> e.at

Content(s, e) == IF e.k = "const" THEN e.v ELSE s.m[Storage(s, e)]
Denotes(s, e) == Content(s, e) = e.v

Occurrences(s, at) == {i \in DOMAIN s.stk : s.stk[i].ref /\ s.stk[i].at = at}
Free(s, prot) == SelectSeq(Scratch, LAMBDA r : r \notin prot /\ Occurrences(s, r) = {})

IsDeferred(e) == e.k = "def"
Pending(s) == \E i \in DOMAIN s.stk : IsDeferred(s.stk[i]) /\ s.stk[i].op \in SideEffect

\* A scratch register that nothing else on the stack refers to may be overwritten.
isWritableScratchReg(s, i) ==
  s.stk[i].k = "scratch" /\ Occurrences(s, s.stk[i].at) = {i}

OpenBlocks(s) == {i \in DOMAIN s.stk : s.stk[i].k \in Blocks}
LastBlock(s) == Max(OpenBlocks(s) \union {0})
FrameBase(s) == LastBlock(s) + 1
Reachable(s) == LastBlock(s) # 0 => ~s.stk[LastBlock(s)].dead

(***************************************************************************)
(* The emitted code.                                                       *)
(***************************************************************************)
Executing(s) == s.to = 0

\* A trap must leave the global as it was when the instruction before finished.
Write(s, loc, v) ==
  IF Executing(s)
    THEN [s EXCEPT !.m[loc] = v, !.overtaken = @ \/ (loc = "G" /\ Pending(s))]
    ELSE s

emitMove(s, loc, e) ==
  IF e.k # "const" /\ Storage(s, e) = loc THEN s ELSE Write(s, loc, Content(s, e))

\* What the host or another instruction can see must not overtake a load or a
\* division that was deferred.
Visible(s) == [s EXCEPT !.overtaken = @ \/ (Executing(s) /\ Pending(s))]
Expect(s, b) == [s EXCEPT !.wrong = @ \/ (Executing(s) /\ ~b)]

Used(s) == {s.stk[i].v : i \in DOMAIN s.stk} \union {s.m[l] : l \in Locations}
             \union Range(s.val)
Fresh(s) ==
  IF Executing(s) THEN Min((3 .. 3 + Cardinality(Used(s))) \ Used(s)) ELSE 0

(***************************************************************************)
(* Spilling and allocation.                                                *)
(***************************************************************************)
\* The element keeps its value and changes its place.
replaceAndUpdateReference(s, i, p) ==
  [s EXCEPT !.stk[i] = Element(p.k, p.at, "", @.v)]

\* The highest gap between the slots in use, or the slot above them.
slotBesides(used) ==
  LET gaps == (1 .. Max(used \union {0})) \ used
  IN Slots[Max({n \in used : gaps # {} => n < Max(gaps)} \union {0}) + 1]
findFreeTempStackSlot(s) ==
  slotBesides({n \in DOMAIN Slots : Occurrences(s, Slots[n]) # {}})

reqSpillTarget(s, prot, forceToStack) ==
  LET free == Free(s, prot)
  IN IF ~forceToStack /\ free # <<>>
       THEN Place("scratch", Head(free))
       ELSE Place("temp", findFreeTempStackSlot(s))

\* One move, after which all the given elements refer to the new place.
moveElements(s, found, to) ==
  FoldSet(LAMBDA i, a : replaceAndUpdateReference(a, i, to),
          emitMove(s, Storage(s, to), s.stk[Max(found)]), found)
spillElements(s, found, prot, forceToStack) ==
  IF found = {} THEN s ELSE moveElements(s, found, reqSpillTarget(s, prot, forceToStack))

spillFromStack(s, at, prot, forceToStack) ==
  spillElements(s, Occurrences(s, at), prot, forceToStack)

\* A faulty variant, to show what the properties detect: only scratch registers are
\* looked for, not the locals and globals an operand may still refer to.
spillOutsideScratchOnly(s, at, prot, forceToStack, zone) ==
  spillElements(s, {i \in Occurrences(s, at) :
                      i >= FrameBase(s) /\ i \notin zone /\ s.stk[i].k = "scratch"},
                prot, forceToStack)

\* Only elements of the current frame outside of the zone are spilled.
spillOutside(s, at, prot, forceToStack, zone) ==
  spillElements(s, {i \in Occurrences(s, at) :
                      /\ i >= FrameBase(s)
                      /\ i \notin zone
                      /\ s.stk[i].k \in {"local", "global", "scratch"}},
                prot, forceToStack)

\* A free register, or the register of the lowest scratch element, spilled.
victimRegister(s, prot) ==
  s.stk[Min({i \in DOMAIN s.stk : s.stk[i].k = "scratch" /\ s.stk[i].at \notin prot})].at
takeRegister(s, reg) == [s |-> spillFromStack(s, reg, {}, TRUE), p |-> Place("scratch", reg)]
reqScratchReg(s, prot) ==
  IF Free(s, prot) # <<>> THEN [s |-> s, p |-> Place("scratch", Head(Free(s, prot)))]
  ELSE takeRegister(s, victimRegister(s, prot))

OrNone(loc) == IF loc \in Registers THEN loc ELSE "none"
getUnderlyingReg(s, hint) == OrNone(Storage(s, hint))

getResultStackElement(e) ==
  Place(IF e.k \in {"local", "global"} THEN "temp" ELSE e.k, e.at)

reqScratchRegProt(s, hint, prot) ==
  IF getUnderlyingReg(s, hint) \in Registers \ prot
    THEN [s |-> s, p |-> getResultStackElement(hint)]
    ELSE reqScratchReg(s, prot)

RegisterOf(s, e) == {Storage(s, e)} \intersect Registers

\* Brings element i into a register.  The tracker (RegAllocTracker) names what was
\* allocated to be written, what is only read and what other operands still need.
Tracker(write, read, future) == [write |-> write, read |-> read, future |-> future]
NoTracker == Tracker({}, {}, {})
moveToRegister(r, i) ==
  [s |-> replaceAndUpdateReference(emitMove(r.s, Storage(r.s, r.p), r.s.stk[i]), i, r.p),
   reg |-> Storage(r.s, r.p), writable |-> TRUE]
liftFrom(s, i, loc, mine, needsWritable, hint, t) ==
  IF loc \in Registers /\ (IF needsWritable THEN mine ELSE loc \notin t.write)
    THEN [s |-> s, reg |-> loc, writable |-> mine]
    ELSE moveToRegister(reqScratchRegProt(s, hint, t.write \union t.read \union (t.future \ {loc})),
                        i)
isWritable(s, i, loc, hint, t) ==
  loc \notin t.write \union t.read
    /\ (isWritableScratchReg(s, i) \/ getUnderlyingReg(s, hint) = loc)
liftAt(s, i, loc, needsWritable, hint, t) ==
  liftFrom(s, i, loc, isWritable(s, i, loc, hint, t), needsWritable, hint, t)
liftToRegInPlace(s, i, needsWritable, hint, t) ==
  liftAt(s, i, Storage(s, s.stk[i]), needsWritable, hint, t)

(***************************************************************************)
(* Evaluating one deferred action: its operands lie directly below it, all *)
(* of them condensed.  The result takes the place of action and operands.  *)
(***************************************************************************)
finishInstruction(s, i, p, right) ==
  LET n == Arity[s.stk[i].op]
      w == Write(replaceAndUpdateReference(s, i, p), Storage(s, p),
                 IF right THEN s.stk[i].v ELSE 0)
  IN [w EXCEPT !.stk = SubSeq(@, 1, i - n - 1) \o SubSeq(@, i, Len(@))]

\* An instruction that overwrites its first operand, or either one when it is
\* commutative; without an operand that may be overwritten one is copied.
overwrite(s, i, dst) ==
  finishInstruction(s, i, getResultStackElement(s.stk[dst]),
                    Denotes(s, s.stk[i - 2]) /\ Denotes(s, s.stk[i - 1]))
copied(r, i) == emitMove(r.s, Storage(r.s, r.p), r.s.stk[i])
operateOn(s, i, p, lifted, other) ==
  finishInstruction(s, i, p, s.m[Storage(s, p)] = s.stk[lifted].v /\ Denotes(s, s.stk[other]))
copyAndOperate(r, i, lifted, other) == operateOn(copied(r, lifted), i, r.p, lifted, other)
overwriteOrCopy(s, i, hint, dsts, preferred, lifted) ==
  LET other == 2 * i - 3 - lifted
  IN IF dsts # {} THEN overwrite(s, i, IF preferred \in dsts THEN preferred ELSE Min(dsts))
     ELSE copyAndOperate(reqScratchRegProt(s, hint, RegisterOf(s, s.stk[other])),
                         i, lifted, other)
selectInstr(s, i, hint) ==
  LET commutative == s.stk[i].op = "add"
      a == s.stk[i - 2]
      b == s.stk[i - 1]
      same == a.k # "const" /\ a.k = b.k /\ a.at = b.at
      inHint == {k \in {i - 2, i - 1} : /\ Storage(s, s.stk[k]) \in Registers
                                       /\ Storage(s, s.stk[k]) = Storage(s, hint)}
      dsts == {k \in {i - 2} \union (IF commutative /\ ~same THEN {i - 1} ELSE {}) :
                 isWritableScratchReg(s, k) \/ k \in inHint}
  IN overwriteOrCopy(s, i, hint, dsts, IF i - 1 \in inHint THEN i - 1 ELSE i - 2,
       IF commutative /\ a.k = "const" /\ b.k # "const" THEN i - 1 ELSE i - 2)

\* Sets the flags; nothing is written, but two operands in memory (or two
\* constants) are too many.
compareFirstIn(s, i, reg) ==
  [s |-> s, right |-> s.m[reg] = s.stk[i - 2].v /\ Denotes(s, s.stk[i - 1])]
compareCopy(r, i) == compareFirstIn(copied(r, i - 2), i, Storage(r.s, r.p))
emitComparison(s, i) ==
  LET a == s.stk[i - 2]
      b == s.stk[i - 1]
      inRegister(e) == Storage(s, e) \in Registers
      fits == inRegister(a) \/ inRegister(b) \/ (a.k = "const") # (b.k = "const")
  IN IF fits THEN [s |-> s, right |-> Denotes(s, a) /\ Denotes(s, b)]
     ELSE compareCopy(reqScratchReg(s, RegisterOf(s, b)), i)

\* The result may go to the home of a local without a register.
finishIn(r, i, right) == finishInstruction(r.s, i, r.p, right)
cmpResult(flags, i, hint) ==
  finishIn(IF hint # NoHint THEN [s |-> flags.s, p |-> getResultStackElement(hint)]
           ELSE reqScratchReg(flags.s, {}), i, flags.right)
emitCmpResult(s, i, hint) == cmpResult(emitComparison(s, i), i, hint)

\* With an offset the address register is changed, so it has to be writable.
loadFrom(l, i, hint, v) ==
  IF l.writable
    THEN finishInstruction(l.s, i, getResultStackElement(l.s.stk[i - 1]), l.s.m[l.reg] = v)
    ELSE finishIn(reqScratchRegProt(l.s, hint, {l.reg}), i, l.s.m[l.reg] = v)
executeLinearMemoryLoad(s, i, hint) ==
  IF s.stk[i - 1].k = "const" THEN finishIn(reqScratchRegProt(s, hint, {}), i, TRUE)
  ELSE loadFrom(liftToRegInPlace(s, i - 1, s.stk[i].op = "loado", hint, NoTracker),
                i, hint, s.stk[i - 1].v)

\* The dividend is expected in A, the instruction overwrites A and D.
dividendInA(s, i, prot) ==
  LET inA == s.stk[i - 2].k = "scratch" /\ s.stk[i - 2].at = "A"
      put(a) == IF inA THEN a ELSE emitMove(a, "A", a.stk[i - 2])
  IN IF inA /\ Occurrences(s, "A") = {i - 2} THEN s
     ELSE put(spillFromStack(s, "A", prot, FALSE))
divisorAnywhere(s, i) ==
  IF s.stk[i - 1].k # "const" THEN s
  ELSE liftToRegInPlace(s, i - 1, FALSE, NoHint, Tracker({"A", "D"}, {}, {})).s
divide(s, i, v) ==
  finishInstruction(s, i, Place("scratch", "A"), s.m["A"] = v /\ Denotes(s, s.stk[i - 1]))
emitInstrsDivRem(s, i, hint) ==
  LET prot == {"A", "D"} \union RegisterOf(s, hint)
  IN divide(Write(divisorAnywhere(dividendInA(spillFromStack(s, "D", prot, FALSE), i, prot),
                                  i), "D", 0),
            i, s.stk[i - 2].v)

\* The result register first takes one of the values, then the other one if the
\* condition says so.
selectSecond(s, i, p, first, second, cond) ==
  finishInstruction(s, i, p, /\ s.m[cond] = s.stk[i - 1].v
                             /\ s.m[Storage(s, p)] = s.stk[first].v
                             /\ Denotes(s, s.stk[second]))
secondAnywhere(s, second, t) ==
  IF s.stk[second].k # "const" /\ Storage(s, s.stk[second]) \notin Registers THEN s
  ELSE liftToRegInPlace(s, second, FALSE, NoHint, t).s
selectOrder(cond, i, p, first, second, values) ==
  selectSecond(secondAnywhere(emitMove(cond.s, Storage(cond.s, p), cond.s.stk[first]), second,
                              Tracker({Storage(cond.s, p)}, {cond.reg}, values)),
               i, p, first, second, cond.reg)
selectBetween(cond, i, p, values) ==
  LET swap == Storage(cond.s, cond.s.stk[i - 2]) = Storage(cond.s, p)
  IN selectOrder(cond, i, p, IF swap THEN i - 2 ELSE i - 3, IF swap THEN i - 3 ELSE i - 2, values)
selectInto(r, i, values, condition) ==
  selectBetween(liftToRegInPlace(r.s, i - 1, FALSE, NoHint,
                                 Tracker({Storage(r.s, r.p)}, {}, values \union condition)),
                i, r.p, values \ condition)
selectAmong(s, i, hint, values, condition) ==
  selectInto(reqScratchRegProt(s, hint, values \union condition), i, values, condition)
emitSelect(s, i, hint) ==
  selectAmong(s, i, hint, RegisterOf(s, s.stk[i - 3]) \union RegisterOf(s, s.stk[i - 2]),
              RegisterOf(s, s.stk[i - 1]))

\* The hint is used when nothing but these operands is stored in it.
checkIfEnforcedTargetIsOnlyInArgs(s, i, hint) ==
  Occurrences(s, hint.at) \subseteq (i - Arity[s.stk[i].op]) .. (i - 1)

evaluateWithHint(s, i, hint) ==
  CASE s.stk[i].op \in {"add", "sub"} -> selectInstr(s, i, hint)
    [] s.stk[i].op = "cmp" -> emitCmpResult(s, i, hint)
    [] s.stk[i].op \in {"load", "loado"} -> executeLinearMemoryLoad(s, i, hint)
    [] s.stk[i].op = "div" -> emitInstrsDivRem(s, i, hint)
    [] s.stk[i].op = "select" -> emitSelect(s, i, hint)
evaluateInstruction(s, i, recommended) ==
  evaluateWithHint(s, i, IF checkIfEnforcedTargetIsOnlyInArgs(s, i, recommended)
                           THEN recommended ELSE NoHint)

(***************************************************************************)
(* Valent blocks: a deferred action with everything it is computed from.   *)
(* Evaluation takes elements away below a position only, so a position is  *)
(* named by the number of elements above it.                               *)
(***************************************************************************)
Bases(stk) ==
  LET base[n \in DOMAIN stk] ==
        IF ~IsDeferred(stk[n]) THEN n
        ELSE CASE Arity[stk[n].op] = 1 -> base[n - 1]
               [] Arity[stk[n].op] = 2 -> base[base[n - 1] - 1]
               [] Arity[stk[n].op] = 3 -> base[base[base[n - 1] - 1] - 1]
  IN base
findBaseOfValentBlock(s, n) == Bases(s.stk)[n]

Index(s, above) == Len(s.stk) - above
Above(s, i) == Len(s.stk) - i

\* The number of elements above what lies below `count` valent blocks.
skipValentBlock(s, above, count) ==
  FoldLeft(LAMBDA a, k : Above(s, findBaseOfValentBlock(s, Index(s, a))) + 1,
           above, [k \in 1 .. count |-> k])

\* The elements of the valent block at i from the bottom to the top.
Between(s, base, i) == [k \in 1 .. (i - base + 1) |-> Above(s, base + k - 1)]
Upwards(s, i) == Between(s, findBaseOfValentBlock(s, i), i)

onlyOnce(s, k) ==
  /\ s.stk[k].k = "scratch" \/ (s.stk[k].k = "temp" /\ Storage(s, s.stk[k]) \in Registers)
  /\ Occurrences(s, s.stk[k].at) = {k}
inRegOrConst(s, k) == s.stk[k].k = "const" \/ Storage(s, s.stk[k]) \in Registers

\* Evaluates deferred actions of a valent block, each phase with its own choice.
freesRegister(s, i) ==
  LET args == (i - Arity[s.stk[i].op]) .. (i - 1)
  IN IF Arity[s.stk[i].op] = 1 THEN s.stk[i - 1].k = "scratch"
     ELSE (\E k \in args : onlyOnce(s, k)) /\ (\A k \in args : inRegOrConst(s, k))
picked(s, above, phase) ==
  /\ IsDeferred(s.stk[Index(s, above)])
  /\ CASE phase.kind = "scratch" -> above # phase.at /\ freesRegister(s, Index(s, above))
       [] phase.kind = "below" -> above # phase.at
       [] OTHER -> TRUE
evaluateEach(s, hint, phase) ==
  FoldLeft(LAMBDA a, above : IF picked(a, above, phase)
                               THEN evaluateInstruction(a, Index(a, above), hint) ELSE a,
           s, Upwards(s, Index(s, phase.at)))

hasEnoughScratchReg(s) == Len(Free(s, {})) > Reserved

\* Loads and divisions below the root first, while there are registers, each with
\* what it is computed from; then what frees a scratch register; then all, or all
\* below the root.
HasSideEffect(s, above) == s.stk[Index(s, above)].op \in SideEffect
Phase(kind, at) == [kind |-> kind, at |-> at]
condensePhase(a, hint, phase) ==
  IF phase.kind = "side" /\ (a.stop \/ ~hasEnoughScratchReg(a.s))
    THEN [s |-> a.s, stop |-> TRUE]
    ELSE [s |-> evaluateEach(a.s, hint, phase), stop |-> a.stop]
condenseCore(s, root, hint, last) ==
  LET sides == SelectSeq(Upwards(s, Index(s, root)),
                         LAMBDA above : above # root /\ HasSideEffect(s, above))
      phases == [k \in DOMAIN sides |-> Phase("side", sides[k])]
                  \o <<Phase("scratch", root), Phase(last, root)>>
  IN FoldLeft(LAMBDA a, phase : condensePhase(a, hint, phase),
              [s |-> s, stop |-> FALSE], phases).s

condenseWithTargetHint(s, root, hint) == condenseCore(s, root, hint, "all")

\* Leaves the result of the valent block with `above` elements above it, in the
\* target if one is given; what else was stored in the target is spilled before.
toTarget(s, i, target) ==
  IF target = NoHint THEN s
  ELSE replaceAndUpdateReference(emitMove(s, Storage(s, target), s.stk[i]), i, target)
clearTarget(s, i, target) ==
  IF target = NoHint THEN s
  ELSE spillOutside(s, target.at, {}, FALSE, findBaseOfValentBlock(s, i) .. i)
resultToTarget(s, above, target) == toTarget(s, Index(s, above), target)
condenseValentBlock(s, above, target) ==
  resultToTarget(condenseWithTargetHint(clearTarget(s, Index(s, above), target),
                                        above, target), above, target)

\* The flags of a condition, which leaves the top of the stack: `right` tells that
\* they are those of its value.
compareOperands(flags) == Expect([flags.s EXCEPT !.stk = SubSeq(@, 1, Len(@) - 3)], flags.right)
valueAsFlags(s) ==
  Expect([s EXCEPT !.stk = SubSeq(@, 1, Len(@) - 1)], Denotes(s, s.stk[Len(s.stk)]))
comparisonOnTop(s) == compareOperands(emitComparison(s, Len(s.stk)))
conditionOnTop(s) ==
  IF s.stk[Len(s.stk)].op = "cmp" THEN comparisonOnTop(s) ELSE valueAsFlags(s)
condenseComparison(s) ==
  conditionOnTop(condenseCore(s, 0, NoHint,
                              IF s.stk[Len(s.stk)].op = "cmp" THEN "below" ELSE "all"))

\* n valent blocks below `above`, the lowest one first, with the targets given.
condenseMultipleValentBlocks(s, above, n, targets) ==
  FoldLeft(LAMBDA a, k : condenseValentBlock(a, skipValentBlock(a, above, n - k), targets[k]),
           s, [k \in 1 .. n |-> k])
NoTargets == [k \in 1 .. 3 |-> NoHint]
ReturnTargets == [k \in DOMAIN Returns |-> Place("scratch", Returns[k])]

\* What may trap or reads the memory is evaluated below `count` valent blocks.
condenseSideEffectInstructionBlew(s, count) ==
  LET step(a, above) ==
        IF HasSideEffect(a, above)
          THEN condenseValentBlock(a, above, NoHint) ELSE a
      below == Index(s, skipValentBlock(s, 0, count))
  IN IF ~s.pend THEN s
     ELSE [FoldLeft(step, s, Between(s, FrameBase(s), below)) EXCEPT !.pend = FALSE]

(***************************************************************************)
(* Locals, and what several instructions do with the stack.                *)
(***************************************************************************)
initializedLocal(s, l) ==
  IF s.st[l] # "const" THEN s
  ELSE IF l \in DOMAIN Register
    THEN [Write(s, Register[l], Zero) EXCEPT !.st[l] = "reg"]
    ELSE [Write(s, Home[l], Zero) EXCEPT !.st[l] = "mem"]

recoverLocalToReg(s, l) ==
  IF l \in DOMAIN Register /\ s.st[l] = "mem"
    THEN [Write(s, Register[l], s.m[Home[l]]) EXCEPT !.st[l] = "stackreg"] ELSE s

initializeAllLocals(s) == FoldSet(LAMBDA l, a : initializedLocal(a, l), s, Locals)

\* A local with a register is in it and in its home.  Code emitted for a point that
\* cannot be reached moves nothing.
recoverAllLocalsToRegBranch(s, isReachable) ==
  [CASE isReachable /\ s.st.x = "mem" -> Write(s, Register.x, s.m[Home.x])
     [] isReachable /\ s.st.x = "reg" -> Write(s, Home.x, s.m[Register.x])
     [] OTHER -> s
     EXCEPT !.st.x = "stackreg"]

\* A faulty variant: a branch leaves the locals where they are.
emitBranchDivergeLazily(s, isReachable) == initializeAllLocals(s)

emitBranchDivergePoint(s, isReachable) ==
  recoverAllLocalsToRegBranch(initializeAllLocals(s), isReachable)
emitBranchMergePoint(s, isReachable) ==
  recoverAllLocalsToRegBranch(initializeAllLocals(s), isReachable)

prepareLocalForSetValue(s, l) ==
  LET inRegister == l \in DOMAIN Register
      recovered == IF Occurrences(s, l) # {} THEN recoverLocalToReg(s, l) ELSE s
  IN IF s.st[l] = "const" \/ ~inRegister
       THEN [s EXCEPT !.st[l] = IF inRegister THEN "reg" ELSE "mem"]
       ELSE [recovered EXCEPT !.st[l] = "reg"]

\* The locals, scratch registers and globals the current frame still needs below
\* a position go to slots.
spillBelow(s, variables, below) ==
  FoldLeft(LAMBDA a, at : spillOutside(a, at, {}, TRUE, below .. Len(a.stk)), s, variables)
spillAllVariables(s, below) == spillBelow(s, <<"x", "y">> \o Scratch \o <<"g">>, below)
spillScratchRegsOutOfCallParams(s, below) == spillBelow(s, Scratch \o <<"g">>, below)

push(s, e) ==
  [s EXCEPT !.stk = Append(@, Element(e.k, e.at, e.op, IF Executing(s) THEN e.v ELSE 0))]
pop(s, n) == [s EXCEPT !.stk = SubSeq(@, 1, Len(@) - n)]
pushResults(s, values) ==
  FoldLeft(LAMBDA a, k : push(a, Element("scratch", Returns[k], "", values[k])),
           s, [k \in DOMAIN values |-> k])

TopValues(s, n) == [k \in 1 .. n |-> s.stk[Len(s.stk) - n + k].v]

\* The top n elements go to the registers of the results; the elements stay.
loadReturnValues(s, n) ==
  LET top(a, k) == Len(a.stk) - n + k
      put(a, k) == emitMove(a, Returns[k], a.stk[top(a, k)])
      clear(a, k) == spillOutside(a, Returns[k], {Returns[j] : j \in 1 .. k - 1}, FALSE,
                                  {top(a, k)})
  IN FoldLeft(LAMBDA a, k : put(clear(a, k), k), s, [k \in 1 .. n |-> k])

condenseReturnValues(s, n) ==
  loadReturnValues(condenseMultipleValentBlocks(s, 0, n, ReturnTargets), n)

(***************************************************************************)
(* Blocks and branches.                                                    *)
(***************************************************************************)
BlockElement(k, sig, header) == StackElement(k, "", "", 0, FALSE, sig, FALSE, header)
Ordinal(s, i) == Cardinality({j \in OpenBlocks(s) : j <= i})
ParamCount(e) == e.sig[1]
ResultCount(e) == e.sig[2]

\* A branch names blocks and loops from the inside out, 0 is the function.
findTargetBlock(s, depth) ==
  LET targets == {i \in OpenBlocks(s) : s.stk[i].k # "ifblock"}
  IN CHOOSE i \in targets \union {0} :
       Cardinality({j \in targets : j > i}) = depth
BranchDepths(s) == 0 .. Cardinality({i \in OpenBlocks(s) : s.stk[i].k # "ifblock"})
BranchValues(s, target) ==
  IF target = 0 THEN Results
  ELSE IF s.stk[target].k = "loop" THEN ParamCount(s.stk[target])
  ELSE ResultCount(s.stk[target])

LocalsHold(s) ==
  /\ \A l \in Locals :
       /\ s.st[l] = "const" => s.val[l] = Zero
       /\ s.st[l] \in {"reg", "stackreg"} => s.m[Register[l]] = s.val[l]
       /\ s.st[l] \in {"mem", "stackreg"} => s.m[Home[l]] = s.val[l]
  /\ s.m[Register.g] = s.val.g

\* The code at the start of a loop was emitted for this state.
headerHolds(s, target) ==
  /\ s.st.x = "stackreg" /\ LocalsHold(s)
  /\ \A i \in 1 .. target - 1 :
       /\ Place(s.stk[i].k, s.stk[i].at) = s.stk[target].header[i]
       /\ s.stk[i].ref => Denotes(s, s.stk[i])

returnsToHeader(s, target) == target # 0 /\ s.stk[target].k = "loop"

\* The execution takes a branch with these values, in the registers of results.
branchTaken(s, target, values) ==
  [Expect(Visible(s), /\ \A k \in DOMAIN values : s.m[Returns[k]] = values[k]
                      /\ returnsToHeader(s, target) => headerHolds(s, target))
     EXCEPT !.to = IF target = 0 \/ returnsToHeader(s, target) THEN Left ELSE Ordinal(s, target),
            !.res = values]
emitBranch(s, target, values) ==
  IF Executing(s) THEN branchTaken(s, target, values) ELSE s

\* The label of an open block: an execution that jumped here goes on.
finalizeBlock(s, i) ==
  IF s.to = Ordinal(s, i) THEN [s EXCEPT !.to = 0] ELSE s

setCurrentFrameFormallyUnreachable(s) ==
  LET last == LastBlock(s)
      dropped == [s EXCEPT !.stk = SubSeq(@, 1, last)]
      e == s.stk[last]
  IN IF last = 0 THEN dropped
     ELSE [dropped EXCEPT !.stk[last] =
             StackElement(e.k, "", "", 0, FALSE, e.sig, TRUE, e.header)]

\* A faulty variant: the block is one element too low.
insertBlockLow(s, i, e) ==
  LET at == IF i > 1 THEN i - 1 ELSE i
  IN [s EXCEPT !.stk = SubSeq(@, 1, at - 1) \o <<e>> \o SubSeq(@, at, Len(@))]

insertBlock(s, i, e) ==
  [s EXCEPT !.stk = SubSeq(@, 1, i - 1) \o <<e>> \o SubSeq(@, i, Len(@))]
removeBlock(s, i) ==
  [s EXCEPT !.stk = SubSeq(@, 1, i - 1) \o SubSeq(@, i + 1, Len(@))]

(***************************************************************************)
(* The instructions.                                                       *)
(***************************************************************************)
\* Nothing survives in a place the compiler does not refer to.
settle(s) ==
  LET trusted(l) ==
        CASE l \in Range(Scratch) \union Range(Slots) -> Occurrences(s, l) # {}
          [] l = Register.x -> s.st.x \in {"reg", "stackreg"}
          [] l = Home.x -> s.st.x \in {"mem", "stackreg"}
          [] l = Home.y -> s.st.y = "mem"
          [] OTHER -> TRUE
  IN IF ~Executing(s) THEN s
     ELSE [s EXCEPT !.m = [l \in Locations |-> IF trusted(l) THEN @[l] ELSE 0],
                    !.res = <<>>]
Emit(s) == c' = [settle(s) EXCEPT !.todo = Tail(c.todo)]

Operands(s) ==
  LET base == Bases(s.stk)
      depth[n \in (FrameBase(s) - 1) .. Len(s.stk)] ==
        IF n < FrameBase(s) THEN 0 ELSE 1 + depth[base[n] - 1]
  IN depth[Len(s.stk)]
Top(s) == s.stk[Len(s.stk)]

Chosen(instruction) ==
  c.todo # <<>> /\ instruction \in Head(c.todo) /\ c.to # Left /\ ~c.wrong /\ ~c.overtaken
\* The code of an instruction is emitted in a frame that can be reached.
Emitting(instruction, operands) ==
  Chosen(instruction) /\ Reachable(c) /\ Operands(c) >= operands

Init == \E shape \in Shapes :
  c = [stk |-> <<>>, st |-> [x |-> "reg", y |-> "const"], pend |-> FALSE,
       m |-> [l \in Locations |-> CASE l = Register.x -> 3 [] l = Register.g -> 4
                                    [] OTHER -> 0],
       val |-> [x |-> 3, y |-> Zero, g |-> 4],
       todo |-> shape, to |-> 0, res |-> <<>>, overtaken |-> FALSE, wrong |-> FALSE]

Const == Emitting("const", 0) /\ Emit(push(c, Element("const", "const", "", Constant)))

LocalGet(l) ==
  /\ Emitting(GetOf[l], 0)
  /\ Emit(IF c.st[l] = "const" THEN push(c, Element("const", "const", "", Zero))
          ELSE push(recoverLocalToReg(c, l), Element("local", l, "", c.val[l])))

LocalSet(l, tee) ==
  /\ Emitting(IF tee THEN TeeOf[l] ELSE SetOf[l], 1)
  /\ \E s \in {condenseValentBlock(
                  prepareLocalForSetValue(condenseSideEffectInstructionBlew(c, 1), l),
                  0, Place("local", l))} :
       LET value == [s.val EXCEPT ![l] = IF Executing(c) THEN Top(c).v ELSE @]
       IN Emit([IF tee THEN s ELSE pop(s, 1) EXCEPT !.val = value])

GlobalGet == Emitting("global.get", 0) /\ Emit(push(c, Element("global", "g", "", c.val.g)))

\* Here the operand's own loads are evaluated first, without the target.
GlobalSet ==
  /\ Emitting("global.set", 1)
  /\ \E s \in {condenseValentBlock(condenseSideEffectInstructionBlew(c, 0), 0,
                                   Place("global", "g"))} :
       Emit([pop(Visible(s), 1) EXCEPT !.val.g = IF Executing(c) THEN Top(c).v ELSE @])

\* A faulty variant: a division is not remembered to have a side effect.
pushDeferredActionLoads(op) ==
  LET n == Arity[op]
  IN /\ Emitting(op, n)
     /\ op = "cmp" => \E i \in {Len(c.stk) - 1, Len(c.stk)} : c.stk[i].k # "const"
     /\ Emit([push(c, Element("def", "", op, Fresh(c)))
                EXCEPT !.pend = @ \/ op \in SideEffect \ {"div"}])

\* A comparison of constants is folded and never becomes a deferred action.
pushDeferredAction(op) ==
  LET n == Arity[op]
  IN /\ Emitting(op, n)
     /\ op = "cmp" => \E i \in {Len(c.stk) - 1, Len(c.stk)} : c.stk[i].k # "const"
     /\ Emit([push(c, Element("def", "", op, Fresh(c)))
                EXCEPT !.pend = @ \/ op \in SideEffect])

Drop ==
  LET base == findBaseOfValentBlock(c, Len(c.stk))
      sideEffect == \E i \in base .. Len(c.stk) : IsDeferred(c.stk[i]) /\ c.stk[i].op \in SideEffect
  IN /\ Emitting("drop", 1)
     /\ Emit(IF sideEffect THEN pop(condenseValentBlock(c, 0, NoHint), 1)
             ELSE pop(c, Len(c.stk) - base + 1))

\* The value first, then the address below it.
storeThrough(l) ==
  pop(Expect(Visible(l.s), /\ l.s.m[l.reg] = l.s.stk[Len(l.s.stk) - 1].v
                           /\ Denotes(l.s, Top(l.s))), 2)
executeLinearMemoryStore(offset) ==
  /\ Emitting("store", 2)
  /\ \E s \in {condenseValentBlock(condenseValentBlock(
                  condenseSideEffectInstructionBlew(c, 2), 0, NoHint), 1, NoHint)} :
       LET i == Len(s.stk) - 1
       IN Emit(IF s.stk[i].k = "const" THEN pop(Expect(Visible(s), Denotes(s, Top(s))), 2)
               ELSE storeThrough(liftToRegInPlace(s, i, offset, NoHint,
                                                  Tracker({}, {}, RegisterOf(s, Top(s))))))

pushFresh(r, v) == push(Write(r.s, r.p.at, v), Element("scratch", r.p.at, "", v))
executeGetMemSize ==
  Emitting("memory.size", 0) /\ Emit(pushFresh(reqScratchReg(c, {}), Fresh(c)))

\* The operand leaves the stack when the register of the result is chosen.
executeMemGrow ==
  /\ Emitting("memory.grow", 1)
  /\ \E s \in {condenseValentBlock(condenseSideEffectInstructionBlew(c, 1), 0, NoHint)} :
       \E r \in {reqScratchReg(s, {})} :
         LET done == pop(Expect(Visible(r.s), Denotes(r.s, Top(r.s))), 1)
         IN Emit(pushFresh([s |-> done, p |-> r.p], Fresh(r.s)))

\* One parameter of a call: its register is the target unless another parameter
\* is in it; a value that is there already moves only to make room.
parameterTarget(s, reg) ==
  IF reg = Register.x /\ s.st.x # "mem" THEN Place("temp", "x") ELSE Place("scratch", reg)
takesTarget(s, i, others, k, n) ==
  /\ \A j \in others : Storage(s, s.stk[j]) # ParamRegs[k]
  /\ IsDeferred(s.stk[i]) \/ Storage(s, s.stk[i]) \in {ParamRegs[j] : j \in 1 .. n}
parameterAt(s, start, i, k, n) ==
  LET others == (i + 1 .. Len(s.stk)) \union (start .. findBaseOfValentBlock(s, i) - 1)
  IN condenseValentBlock(s, Above(s, i), IF takesTarget(s, i, others, k, n)
                                           THEN parameterTarget(s, ParamRegs[k]) ELSE NoHint)
condenseParameter(s, start, k, n) ==
  parameterAt(s, start, Index(s, skipValentBlock(s, 0, n - k)), k, n)

setKind(s, from, to, kind, below) ==
  LET turns(e) == e.k = from /\ (kind = "any" \/ Storage(s, e) \in Registers)
  IN [s EXCEPT !.stk =
        [i \in 1 .. below - 1 |-> IF turns(@[i]) THEN Element(to, @[i].at, "", @[i].v)
                                  ELSE @[i]]
          \o SubSeq(@, below, Len(@))]

\* A call: every local's home holds its value, every argument is in its register.
saveLocals(s) ==
  IF s.st.x = "reg" THEN [Write(s, Home.x, s.m[Register.x]) EXCEPT !.st.x = "stackreg"] ELSE s
ArgumentsStart(s, n) == Index(s, skipValentBlock(s, 0, n)) + 1
passAbove(s, start, n) ==
  setKind(FoldLeft(LAMBDA a, k : condenseParameter(a, start, k, n),
                   IF n = 0 THEN s ELSE setKind(s, "local", "saved", "register", start),
                   [k \in 1 .. n |-> k]),
          "saved", "local", "any", start)
makeRoom(s, n) == spillScratchRegsOutOfCallParams(s, ArgumentsStart(s, n))
passSpilled(s, n) == passAbove(s, ArgumentsStart(s, n), n)
passArguments(s, n) ==
  passSpilled(makeRoom(saveLocals(condenseSideEffectInstructionBlew(s, n)), n), n)

\* The function called is one of the module: it may change the global, and leaves
\* nothing in the other registers but its results.
clobberRegisters(s) == FoldSet(LAMBDA r, a : Write(a, r, 0), s, Registers \ {Register.g})
setGlobal(s, g, v) ==
  IF g /\ Executing(s) THEN [Write(s, Register.g, v) EXCEPT !.val.g = v] ELSE s
forgetRegister(s) == [s EXCEPT !.st.x = IF @ = "stackreg" THEN "mem" ELSE @]
afterCall(s, n, g) ==
  LET right == \A i \in Len(s.stk) - n + 1 .. Len(s.stk) : Denotes(s, s.stk[i])
  IN setGlobal(forgetRegister(clobberRegisters(pop(Expect(Visible(s), right), n))), g,
               Fresh(s))

Call(sig, g) ==
  /\ Emitting("call", sig[1])
  /\ \E arguments \in {passArguments(c, sig[1])} :
       \E returned \in {afterCall(arguments, sig[1], g)} :
         LET v == Fresh(returned)
         IN Emit(IF sig[2] = 0 THEN returned
                 ELSE pushResults(Write(returned, Returns[1], v), <<v>>))

\* n operands that are condensed are the parameters of a new block.
ParamsBase(s, n) == Len(s.stk) - n + 1
spillBelowParams(s, n) == spillAllVariables(s, ParamsBase(s, n))
insertBelowParams(s, n, e) == insertBlock(s, ParamsBase(s, n), e)

Block(sig) ==
  LET n == sig[1]
  IN /\ Emitting("block", n)
     /\ \E s \in {condenseMultipleValentBlocks(condenseSideEffectInstructionBlew(c, n), 0, n,
                                               NoTargets)} :
          Emit(insertBelowParams(spillBelowParams(s, n), n, BlockElement("block", sig, <<>>)))

\* A loop starts with its parameters in the registers of results.
openLoop(s, sig) ==
  [s EXCEPT !.stk = Append(@, BlockElement("loop", sig,
                      [i \in DOMAIN @ |-> Place(@[i].k, @[i].at)]))]
Loop(sig) ==
  LET n == sig[1]
  IN /\ Emitting("loop", n)
     /\ \E s1 \in {condenseMultipleValentBlocks(condenseSideEffectInstructionBlew(c, n), 0, n,
                                                ReturnTargets)} :
          \E s2 \in {loadReturnValues(emitBranchMergePoint(spillBelowParams(s1, n), TRUE), n)} :
            Emit(pushResults(openLoop(pop(s2, n), sig), TopValues(s2, n)))

\* The parameters stay below the inner block for an else, out of the chains of
\* references, and again above it.  A false condition jumps to the inner block's end.
openIf(s, sig) ==
  LET n == sig[1]
      params == SubSeq(s.stk, ParamsBase(s, n), Len(s.stk))
  IN [s EXCEPT !.stk =
        SubSeq(@, 1, Len(@) - n) \o <<BlockElement("block", sig, <<>>)>>
          \o [k \in 1 .. n |-> Referenced(params[k], FALSE)]
          \o <<BlockElement("ifblock", sig, <<>>)>> \o params]
If(sig, taken) ==
  LET n == sig[1]
      below(s) == skipValentBlock(s, 0, 1)
  IN /\ Emitting("if", n + 1) /\ Top(c).k # "const"
     /\ ~Executing(c) => taken
     /\ \E s1 \in {condenseSideEffectInstructionBlew(c, n)} :
        \E s2 \in {condenseMultipleValentBlocks(s1, below(s1), n, NoTargets)} :
        \E s3 \in {condenseComparison(spillAllVariables(s2, Index(s2, below(s2)) + 1))} :
        \E s4 \in {emitBranchDivergePoint(openIf(s3, sig), TRUE)} :
          Emit(IF taken THEN Visible(s4) ELSE emitBranch(s4, LastBlock(s4), <<>>))

\* What the first branch leaves behind is gone, the parameters are back.
OuterBlock(s) == Max({i \in OpenBlocks(s) : i < LastBlock(s)} \union {0})
reopenOuterBlock(s) ==
  LET back(e) == Referenced(e, e.k # "const")
      outer == OuterBlock(s)
  IN [s EXCEPT !.stk =
        SubSeq(@, 1, outer)
          \o [k \in 1 .. LastBlock(s) - 1 - outer |-> back(@[outer + k])]]
cleanCurrentBlock(s) == [s EXCEPT !.stk = SubSeq(@, 1, LastBlock(s))]

Else ==
  LET ifBlock == LastBlock(c)
      n == ResultCount(c.stk[ifBlock])
      through(s) == emitBranch(emitBranchDivergePoint(pop(s, n), TRUE), OuterBlock(c),
                               TopValues(s, n))
  IN /\ Chosen("else") /\ ifBlock # 0 /\ c.stk[ifBlock].k = "ifblock"
     /\ Reachable(c) => Operands(c) = n
     /\ \E s \in {IF Reachable(c) THEN through(condenseReturnValues(c, n))
                 ELSE emitBranchDivergePoint(cleanCurrentBlock(c), FALSE)} :
          Emit(reopenOuterBlock(finalizeBlock(s, ifBlock)))

\* A loop's end is no label: its results stay where they are.
EndLoop ==
  LET loop == LastBlock(c)
      n == ResultCount(c.stk[loop])
      dummies(s) == FoldLeft(LAMBDA a, k : push(a, Element("const", "const", "", 0)),
                             s, [k \in 1 .. n |-> k])
  IN /\ Chosen("end") /\ loop # 0 /\ c.stk[loop].k = "loop"
     /\ Reachable(c) => Operands(c) = n
     /\ Emit(IF Reachable(c)
               THEN removeBlock(condenseMultipleValentBlocks(c, 0, n, NoTargets), loop)
               ELSE dummies(pop(cleanCurrentBlock(c), 1)))

\* The end of a block is the label of its branches; the results are in the
\* registers of results on every way there.
closeBlock(s, results) ==
  LET block == LastBlock(s)
      values == IF s.to = Ordinal(s, block) THEN s.res ELSE results
  IN pushResults(removeBlock(finalizeBlock(s, block), block), values)
endBlock(s) ==
  LET n == ResultCount(s.stk[LastBlock(s)])
      fallThrough(a) == closeBlock(emitBranchMergePoint(pop(a, n), TRUE), TopValues(a, n))
  IN Emit(IF Reachable(s) THEN fallThrough(condenseReturnValues(s, n))
          ELSE closeBlock(emitBranchMergePoint(cleanCurrentBlock(s), FALSE),
                          [k \in 1 .. n |-> 0]))

EndBlock ==
  LET block == LastBlock(c)
  IN /\ Chosen("end") /\ block # 0 /\ c.stk[block].k = "block"
     /\ Reachable(c) => Operands(c) = ResultCount(c.stk[block])
     /\ endBlock(c)

\* The end's code finds the local in its register and in its home on every way,
\* except on the branch that was emitted first.
leavesUnmerged(s, n) == n # 0 /\ Reachable(s) /\ s.st.x # "stackreg"

\* An if without else: the parameters are the results when the condition was
\* false.  With results the branch to the end is emitted before the locals are
\* brought where the end expects them.
EndIf ==
  LET ifBlock == LastBlock(c)
      n == ResultCount(c.stk[ifBlock])
      through(s) == emitBranch(pop(s, n), OuterBlock(c), TopValues(s, n))
  IN /\ Chosen("end") /\ ifBlock # 0 /\ c.stk[ifBlock].k = "ifblock"
     /\ ParamCount(c.stk[ifBlock]) = n
     /\ "unmerged" \notin Liberties => ~leavesUnmerged(c, n)
     /\ Reachable(c) => Operands(c) = n
     /\ \E s \in {IF ~Reachable(c) THEN emitBranchMergePoint(cleanCurrentBlock(c), FALSE)
                 ELSE emitBranchMergePoint(IF n = 0 THEN c ELSE through(condenseReturnValues(c, n)),
                                           TRUE)} :
          \E outer \in {reopenOuterBlock(finalizeBlock(s, ifBlock))} : endBlock(outer)

Branch(depth) ==
  LET target == findTargetBlock(c, depth)
      n == BranchValues(c, target)
      merged(s) == IF target = 0 THEN s ELSE emitBranchDivergePoint(s, TRUE)
  IN /\ Emitting("br", n)
     /\ \E s \in {condenseReturnValues(condenseSideEffectInstructionBlew(c, n), n)} :
          Emit(setCurrentFrameFormallyUnreachable(
                 emitBranch(merged(pop(s, n)), target, TopValues(s, n))))

\* The values are loaded after the comparison, and stay on the stack.
BranchIf(depth, taken) ==
  LET target == findTargetBlock(c, depth)
      n == BranchValues(c, target)
      merged(s) == IF target = 0 THEN s ELSE emitBranchDivergePoint(s, TRUE)
  IN /\ Emitting("br_if", n + 1) /\ Top(c).k # "const"
     /\ ~Executing(c) => ~taken
     /\ \E s1 \in {condenseSideEffectInstructionBlew(c, n + 1)} :
        \E s2 \in {condenseComparison(condenseMultipleValentBlocks(s1, skipValentBlock(s1, 0, 1),
                                                                 n, ReturnTargets))} :
        \E s3 \in {merged(loadReturnValues(s2, n))} :
          Emit(IF taken THEN emitBranch(s3, target, TopValues(s3, n)) ELSE Visible(s3))

Next ==
  \/ Const
  \/ \E l \in Locals : LocalGet(l)
  \/ \E l \in Locals, tee \in BOOLEAN : LocalSet(l, tee)
  \/ GlobalGet
  \/ GlobalSet
  \/ \E op \in DOMAIN Arity : pushDeferredAction(op)
  \/ Drop
  \/ \E offset \in BOOLEAN : executeLinearMemoryStore(offset)
  \/ executeGetMemSize
  \/ executeMemGrow
  \/ \E sig \in Signatures, g \in BOOLEAN : Call(sig, g)
  \/ \E sig \in Signatures : Block(sig)
  \/ \E sig \in Signatures : Loop(sig)
  \/ \E sig \in Signatures, taken \in BOOLEAN : If(sig, taken)
  \/ Else
  \/ EndLoop
  \/ EndBlock
  \/ EndIf
  \/ \E depth \in BranchDepths(c) : Branch(depth)
  \/ \E depth \in BranchDepths(c), taken \in BOOLEAN : BranchIf(depth, taken)

Spec == Init /\ [][Next]_c

(***************************************************************************)
(* What the compiler promises.                                             *)
(***************************************************************************)
Kinds == {"const", "local", "saved", "global", "scratch", "temp", "def"} \union Blocks

\* TypeOK: the compile stack is well formed: every element has a storage of its
\* kind, and what a deferred action is computed from lies below it and inside the
\* same block (Stack.hpp: the parent, sibling and block links of the elements).
TypeOK ==
  /\ c.m \in [Locations -> Nat] /\ c.to \in Nat
  /\ c.st.x \in {"reg", "mem", "stackreg"} /\ c.st.y \in {"const", "mem"}
  /\ \A i \in DOMAIN c.stk : c.stk[i].k \in Kinds /\ c.stk[i].v \in Nat
  /\ \A i \in DOMAIN c.stk : IsDeferred(c.stk[i]) =>
       \A j \in findBaseOfValentBlock(c, i) .. i : c.stk[j].k \notin Blocks

\* OperandsDenote: wherever the compiler believes an operand to be (a register, a
\* spill slot, the home of a local), the emitted code put the value there that
\* WebAssembly's operand stack has at that position, whatever was spilled, hoisted,
\* overwritten in place or jumped over since (Common.cpp: condenseValentBlock,
\* spillFromStackImpl, liftToRegInPlaceProt; the backend's reqSpillTarget).
OperandsDenote ==
  Executing(c) => \A i \in DOMAIN c.stk : c.stk[i].ref => Denotes(c, c.stk[i])

\* LocalsDenote: each local and the global is where the compiler's current storage
\* type says it is, on every way into the current point: a local that is in its
\* register and in its home is in both (Common.cpp: recoverAllLocalsToRegBranch,
\* "we cannot store local states ... so we recover them in each cases").
LocalsDenote == Executing(c) => LocalsHold(c)

\* StateDenotes: the compiler's picture of the machine, operands and locals, is the
\* state that the emitted code is in.
StateDenotes == OperandsDenote /\ LocalsDenote

\* EffectsInOrder: no write the outside can see, and no branch, is emitted before a
\* load or a division that was deferred earlier and may trap or see the write
\* (Common.cpp: condenseSideEffectInstructionBlewValentBlock).
EffectsInOrder == ~c.overtaken

\* ExecutesAsWritten: what an instruction consumes while it is emitted is right at
\* that moment: the condition of a branch, the address and the value of a store, all
\* arguments of a call together, the values a branch carries in the registers of
\* results, and everything the code at the start of a loop was emitted for when it
\* is entered again.
ExecutesAsWritten == ~c.wrong
=============================================================================
