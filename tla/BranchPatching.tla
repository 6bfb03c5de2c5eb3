--------------------------- MODULE BranchPatching ---------------------------
(***************************************************************************)
(* The control flow of a function body, compiled in one pass.              *)
(*                                                                         *)
(* The frontend keeps a stack of open blocks. It asks the backend to       *)
(* branch to a block whose end is not known, to finalize the block there,  *)
(* and keeps for each block the frame size at its start, to which the end  *)
(* of the block and every branch to it return. An IF is two blocks: the    *)
(* inner one ends where the else branch starts, the outer one at the end.  *)
(* Beside the frame size it follows the largest frame whose end was        *)
(* compared with the end of the stack, merged where paths meet, so as not  *)
(* to emit that comparison twice.                                          *)
(*                                                                         *)
(* The state s is that of BranchCode. Programs are sequences of the        *)
(* operators a plan allows. groups and labels are history: the positions   *)
(* of the branches and what they are meant to do, and where the blocks     *)
(* and loops they target begin or end.                                     *)
(***************************************************************************)
EXTENDS BranchCode

CONSTANT Plans   \* the programs: [isas, debug, ops, conds, length, functions]

VARIABLES s, plan, steps, groups, labels, inherited, ended

vars == <<s, plan, steps, groups, labels, inherited, ended>>

X86 == INSTANCE BranchesX86
Arm == INSTANCE BranchesArm
TriCore == INSTANCE BranchesTriCore

-----------------------------------------------------------------------------
(* The backend the compiler was built with.                                *)

emitBranch(t, b, bc, isNegative) ==
    CASE t.isa = "x86" -> X86!emitBranch(t, b, bc, isNegative)
      [] t.isa = "arm" -> Arm!emitBranch(t, b, bc, isNegative)
      [] OTHER         -> TriCore!emitBranch(t, b, bc, isNegative)
executeTableBranch(t, targets) ==
    CASE t.isa = "x86" -> X86!executeTableBranch(t, targets)
      [] t.isa = "arm" -> Arm!executeTableBranch(t, targets)
      [] OTHER         -> TriCore!executeTableBranch(t, targets)
finalizeBlock(t, b) ==
    CASE t.isa = "x86" -> X86!finalizeBlock(t, b)
      [] t.isa = "arm" -> Arm!finalizeBlock(t, b)
      [] OTHER         -> TriCore!finalizeBlock(t, b)
TRAP(t, trapCode) ==
    CASE t.isa = "x86" -> X86!TRAP(t, trapCode)
      [] t.isa = "arm" -> Arm!TRAP(t, trapCode)
      [] OTHER         -> TriCore!TRAP(t, trapCode)
cTRAP(t, trapCode, cc) ==
    CASE t.isa = "x86" -> X86!cTRAP(t, trapCode, cc)
      [] t.isa = "arm" -> Arm!cTRAP(t, trapCode, cc)
      [] OTHER         -> TriCore!cTRAP(t, trapCode, cc)
emitRawWasmInternalCall(t, f) ==
    CASE t.isa = "x86" -> X86!emitRawWasmInternalCall(t, f)
      [] t.isa = "arm" -> Arm!emitRawWasmInternalCall(t, f)
      [] OTHER         -> TriCore!emitRawWasmInternalCall(t, f)
enteredFunction(t, frameSize) ==
    CASE t.isa = "x86" -> X86!enteredFunction(t, frameSize)
      [] t.isa = "arm" -> Arm!enteredFunction(t, frameSize)
      [] OTHER         -> TriCore!enteredFunction(t, frameSize)
reserveStackFrame(t, frameSize) ==
    CASE t.isa = "x86" -> X86!updateStackFrameSizeHelper(t, frameSize)
      [] t.isa = "arm" -> Arm!reserveStackFrame(t, frameSize)
      [] OTHER         -> TriCore!reserveStackFrame(t, frameSize)
checkForInterruptionRequest(t) ==
    CASE t.isa = "x86" -> X86!checkForInterruptionRequest(t)
      [] t.isa = "arm" -> Arm!checkForInterruptionRequest(t)
      [] OTHER         -> TriCore!checkForInterruptionRequest(t)
emitReturnAndUnwindStack(t) ==
    CASE t.isa = "x86" -> X86!emitReturnAndUnwindStack(t, FALSE)
      [] t.isa = "arm" -> Arm!emitReturnAndUnwindStack(t, FALSE)
      [] OTHER         -> TriCore!emitReturnAndUnwindStack(t, FALSE)

-----------------------------------------------------------------------------
(* The control flow state: which frame size was checked on every path.     *)

mergeControlFlowState(a, b) == IF a < b THEN a ELSE b

(* Where a block ends: b is 0 if no block does.                            *)
emitBranchMergePoint(t, isReachable, b) ==
    IF b = 0 THEN t
    ELSE [t EXCEPT !.checked = IF isReachable THEN mergeControlFlowState(@, t.blocks[b].endChecked)
                                              ELSE t.blocks[b].endChecked]

(* Where control may leave for the end of block b.                         *)
\* A faulty variant: what is known where a block ends ignores the branches to it.
emitBranchDivergePointIgnored(t, isReachable, b) == t
emitBranchDivergePoint(t, isReachable, b) ==
    IF isReachable /\ b # 0 /\ t.blocks[b].kind # "loop"
    THEN [t EXCEPT !.blocks[b].endChecked = mergeControlFlowState(@, t.checked)]
    ELSE t

-----------------------------------------------------------------------------
(* The open blocks.                                                        *)

block(kind, t, unreachable, results, id) ==
    [kind |-> kind, link |-> IF kind = "loop" THEN t.size ELSE NoLink, frame |-> t.frame, unreachable |-> unreachable,
     endChecked |-> MaxChecked, results |-> results, id |-> id]

push(t, b) == [t EXCEPT !.blocks = Append(@, b)]
pop(t) == [t EXCEPT !.blocks = Front(@)]
top(t) == Len(t.blocks)

currentFrameIsUnreachable(t) == IF t.blocks = <<>> THEN t.unreachable ELSE Last(t.blocks).unreachable

setCurrentFrameFormallyUnreachable(t) ==
    IF t.blocks = <<>> THEN [t EXCEPT !.unreachable = TRUE] ELSE [t EXCEPT !.blocks[top(t)].unreachable = TRUE]

(* The block that is depth blocks out, 0 for the function. The inner block *)
(* of an IF is not counted.                                                *)
Targets(t) == SelectSeq([i \in 1 .. top(t) |-> i], LAMBDA i : t.blocks[i].kind # "if")
Depths(t) == 0 .. Len(Targets(t))
findTargetBlock(t, depth) == IF depth = Len(Targets(t)) THEN 0 ELSE Targets(t)[Len(Targets(t)) - depth]

-----------------------------------------------------------------------------
(* A condition on top of the operand stack becomes a comparison; a value   *)
(* is compared with zero. The operands may have been swapped.              *)

Compared(op) == IF op = "VALUE" THEN "EQZ" ELSE op
Meaning(op) == IF op = "VALUE" THEN "NEQZ" ELSE op
Swappable(t, op) == t.isa # "tricore" /\ op \notin {"VALUE", "EQZ"}

emitComparison(t, op) ==
    [Emit(t, IF t.isa = "arm" /\ Compared(op) = "EQZ" THEN "cmp0" ELSE "cmp", "", 0) EXCEPT !.lastBC = Compared(op)]
evaluateCondition(op, reversed) == IF reversed THEN reverseBC(op) ELSE op
condenseComparisonBelow(op, reversed) == IF op = "VALUE" THEN "NEQZ" ELSE evaluateCondition(op, reversed)

\* Loads of results, which keep the flags.
LoadReturnValues(t, results) == IF results THEN Emit(t, "plain", "", 0) ELSE t

-----------------------------------------------------------------------------
(* What was emitted from before to after, and where it is to go.           *)

ToBlock(t, b) == [to |-> IF b = 0 THEN "return" ELSE "block", id |-> IF b = 0 THEN 0 ELSE t.blocks[b].id]
Group(before, after, goals) ==
    [from |-> before.size, past |-> after.size, frame |-> before.frame, op |-> "EQZ", reversed |-> FALSE,
     cond |-> "ALWAYS", negative |-> FALSE, goals |-> goals]
ConditionalGroup(before, after, goals, op, reversed, negative) ==
    [Group(before, after, goals) EXCEPT !.op = Compared(op), !.reversed = reversed, !.cond = Meaning(op),
                                        !.negative = negative]

-----------------------------------------------------------------------------
(* One action for each operator. steps counts them against the length of   *)
(* the plan, but an END is always allowed.                                 *)

Compiling == ~ended /\ s.limit = NoLimit
Allowed(op) == Compiling /\ op \in plan.ops /\ steps < plan.length
Operator(t) == s' = [t EXCEPT !.bytecode = steps + 1] /\ steps' = steps + 1 /\ UNCHANGED <<plan, ended>>
NoGroup == groups' = groups /\ labels' = labels
Emitted(group) == groups' = Append(groups, group) /\ labels' = labels
Reachable == ~currentFrameIsUnreachable(s)

(* A block whose results do not fit into registers has a part of the frame *)
(* reserved for them, also where it cannot be reached.                     *)
BLOCK ==
    /\ Allowed("BLOCK") /\ NoGroup /\ UNCHANGED inherited
    /\ \E results \in {r \in BOOLEAN : r => "RESULTS" \in plan.ops} :
           LET reserved == IF results /\ s.frame < 2 THEN reserveStackFrame(s, 2) ELSE s
           IN  Operator(push(reserved, block("block", reserved, ~Reachable, results, 2 * steps)))

(* A loop starts with a look at the flag by which the host interrupts.     *)
LOOP ==
    /\ Allowed("LOOP") /\ UNCHANGED <<groups, inherited>>
    /\ LET merged == emitBranchMergePoint(s, Reachable, 0)
       IN  /\ Operator(checkForInterruptionRequest(push(merged, block("loop", merged, ~Reachable, FALSE, 2 * steps))))
           /\ labels' = labels @@ (2 * steps :> [at |-> merged.size, frame |-> merged.frame])

IfBlocks(t, elseUnreachable, ifUnreachable, results) ==
    LET outer == push(t, block("block", t, elseUnreachable, results, 2 * steps))
    IN  push(outer, block("if", t, ifUnreachable, results, 2 * steps + 1))

(* An IF of a constant emits no branch.                                    *)
IF_constant ==
    /\ Allowed("IF_constant") /\ NoGroup /\ UNCHANGED inherited
    /\ \E isTrue \in BOOLEAN, results \in {r \in BOOLEAN : r => "RESULTS" \in plan.ops} :
           LET both == IfBlocks(s, ~Reachable \/ isTrue, ~Reachable \/ ~isTrue, results)
           IN  Operator(emitBranchDivergePoint(both, Reachable, top(both)))

(* Other IFs branch to the else part when the condition does not hold.     *)
IF_ ==
    /\ Allowed("IF") /\ UNCHANGED <<labels, inherited>>
    /\ \E op \in plan.conds, reversed \in BOOLEAN, results \in {r \in BOOLEAN : r => "RESULTS" \in plan.ops} :
           /\ reversed => Swappable(s, op)
           /\ LET compared == IF Reachable THEN emitComparison(s, op) ELSE s
                  both == IfBlocks(compared, ~Reachable, ~Reachable, results)
                  diverged == emitBranchDivergePoint(both, Reachable, top(both))
                  branched == emitBranch(diverged, top(both), condenseComparisonBelow(op, reversed), TRUE)
              IN  IF Reachable
                  THEN /\ Operator(branched)
                       /\ groups' = Append(groups, ConditionalGroup(s, branched, <<ToBlock(both, top(both))>>,
                                                                    op, reversed, TRUE))
                  ELSE Operator(diverged) /\ UNCHANGED groups

ELSE_ ==
    /\ Allowed("ELSE") /\ s.blocks # <<>> /\ Last(s.blocks).kind = "if"
    /\ UNCHANGED inherited
    /\ LET outer == top(s) - 1
           loaded == LoadReturnValues(s, Reachable /\ Last(s.blocks).results)
           diverged == emitBranchDivergePoint(loaded, Reachable, outer)
           merged == emitBranchMergePoint(diverged, FALSE, top(s))
           branched == IF Reachable THEN emitBranch(merged, outer, "UNCONDITIONAL", FALSE) ELSE merged
           finalized == finalizeBlock(branched, top(s))
       IN  /\ Operator(pop(finalized))
           /\ groups' = IF Reachable THEN Append(groups, Group(loaded, branched, <<ToBlock(s, outer)>>)) ELSE groups
           /\ labels' = labels @@ (Last(s.blocks).id :> [at |-> finalized.size, frame |-> finalized.frame])

-----------------------------------------------------------------------------
EndBlock(t) ==
    LET reachable == ~currentFrameIsUnreachable(t)
        loaded == LoadReturnValues(t, reachable /\ Last(t.blocks).results)
    IN  finalizeBlock(emitBranchMergePoint(loaded, reachable, top(t)), top(t))

END_loop ==
    /\ Compiling /\ s.blocks # <<>> /\ Last(s.blocks).kind = "loop"
    /\ s' = pop(finalizeBlock(s, top(s)))
    /\ NoGroup /\ UNCHANGED <<plan, steps, inherited, ended>>

END_block ==
    /\ Compiling /\ s.blocks # <<>> /\ Last(s.blocks).kind = "block"
    /\ LET finalized == EndBlock(s)
       IN  /\ s' = pop(finalized)
           /\ labels' = labels @@ (Last(s.blocks).id :> [at |-> finalized.size, frame |-> finalized.frame])
    /\ UNCHANGED <<plan, steps, groups, inherited, ended>>

(* The end of an IF that had no else part ends both of its blocks.         *)
END_if ==
    /\ Compiling /\ s.blocks # <<>> /\ Last(s.blocks).kind = "if"
    /\ LET inner == Last(s.blocks)
           outer == s.blocks[top(s) - 1]
           leaves == Reachable /\ inner.results
           loaded == LoadReturnValues(s, leaves)
           branched == IF leaves THEN emitBranch(loaded, top(s) - 1, "UNCONDITIONAL", FALSE) ELSE loaded
           first == finalizeBlock(emitBranchMergePoint(branched, Reachable, top(s)), top(s))
           second == EndBlock(pop(first))
       IN  /\ s' = pop(second)
           /\ groups' = IF leaves THEN Append(groups, Group(loaded, branched, <<ToBlock(s, top(s) - 1)>>)) ELSE groups
           /\ labels' = labels @@ (inner.id :> [at |-> first.size, frame |-> first.frame])
                               @@ (outer.id :> [at |-> second.size, frame |-> second.frame])
           /\ inherited' = (inherited \/ (outer.unreachable /\ ~currentFrameIsUnreachable(pop(second))))
    /\ UNCHANGED <<plan, steps, ended>>

(* After the last END the code is padded and followed by its size, and the *)
(* next function is entered.                                               *)
Entered(t) == checkForInterruptionRequest(enteredFunction(t, 1))

END_function ==
    /\ Compiling /\ s.blocks = <<>>
    /\ LET returned == IF Reachable THEN emitReturnAndUnwindStack(s) ELSE s
           written == [returned EXCEPT !.size = 4 * ((@ + 3) \div 4) + 4]
           next == [written EXCEPT !.index = 1, !.unreachable = FALSE, !.frame = 0]
       IN  IF s.index + 1 < plan.functions
           THEN s' = Entered(next) /\ UNCHANGED ended
           ELSE s' = written /\ ended' = TRUE
    /\ NoGroup /\ UNCHANGED <<plan, steps, inherited>>

-----------------------------------------------------------------------------
compileBR(depth) ==
    LET b == findTargetBlock(s, depth)
        branched == emitBranch(emitBranchDivergePoint(s, TRUE, b), b, "UNCONDITIONAL", FALSE)
    IN  /\ Operator(setCurrentFrameFormallyUnreachable(branched))
        /\ Emitted(Group(s, branched, <<ToBlock(s, b)>>))

BR == Allowed("BR") /\ Reachable /\ UNCHANGED inherited /\ \E depth \in Depths(s) : compileBR(depth)

BR_IF ==
    /\ Allowed("BR_IF") /\ Reachable /\ UNCHANGED inherited
    /\ \E depth \in Depths(s), op \in plan.conds, reversed \in BOOLEAN, moves \in BOOLEAN :
           /\ reversed => Swappable(s, op)
           /\ moves => "RESULTS" \in plan.ops
           /\ LET b == findTargetBlock(s, depth)
                  compared == LoadReturnValues(emitComparison(s, op), moves)
                  diverged == emitBranchDivergePoint(compared, TRUE, b)
                  branched == emitBranch(diverged, b, condenseComparisonBelow(op, reversed), FALSE)
              IN  /\ Operator(branched)
                  /\ Emitted(ConditionalGroup(s, branched, <<ToBlock(s, b)>>, op, reversed, FALSE))

BR_TABLE ==
    /\ Allowed("BR_TABLE") /\ Reachable /\ UNCHANGED inherited
    /\ \E depths \in UNION {[1 .. n -> Depths(s)] : n \in 1 .. 3} :
           LET targets == [i \in DOMAIN depths |-> findTargetBlock(s, depths[i])]
               diverged == FoldLeft(LAMBDA t, b : emitBranchDivergePoint(t, TRUE, b), s, targets)
               branched == executeTableBranch(diverged, targets)
           IN  /\ Operator(setCurrentFrameFormallyUnreachable(branched))
               /\ Emitted([Group(s, branched, [i \in DOMAIN targets |-> ToBlock(s, targets[i])]) EXCEPT !.cond = "TABLE"])

-----------------------------------------------------------------------------
(* A trap, and a comparison that traps when its first operand is smaller.  *)
ToTrap(trapCode) == [to |-> trapCode, id |-> IF s.debug THEN steps ELSE 0]

UNREACHABLE ==
    /\ Allowed("UNREACHABLE") /\ Reachable /\ UNCHANGED inherited
    /\ LET trapped == TRAP(s, "A")
       IN  Operator(setCurrentFrameFormallyUnreachable(trapped)) /\ Emitted(Group(s, trapped, <<ToTrap("A")>>))

CheckedOperation ==
    /\ Allowed("CHECK") /\ Reachable /\ UNCHANGED inherited
    /\ LET trapped == cTRAP(Emit(s, "cmp", "", 0), "A", "B")
       IN  Operator(trapped) /\ Emitted(ConditionalGroup(s, trapped, <<ToTrap("A")>>, "LT_U", FALSE, FALSE))

CALL ==
    /\ Allowed("CALL") /\ Reachable /\ UNCHANGED inherited
    /\ \E f \in 0 .. plan.functions - 1 :
           LET called == emitRawWasmInternalCall(s, f)
           IN  Operator(called) /\ Emitted(Group(s, called, <<[to |-> "function", id |-> f]>>))

(* A value is stored in the frame, which may have to grow for it.          *)
Spill ==
    /\ Allowed("SPILL") /\ Reachable /\ NoGroup /\ UNCHANGED inherited
    /\ \E frame \in 2 .. 3 :
           frame >= s.frame /\ Operator(Emit(reserveStackFrame(s, frame), "store", "", 0))

(* A long stretch of code without branches.                                *)
OtherCode == Allowed("OTHER") /\ NoGroup /\ UNCHANGED inherited /\ Operator(Emit(s, "far", "", 0))

-----------------------------------------------------------------------------
Init ==
    /\ plan \in Plans
    /\ \E isa \in plan.isas, debug \in plan.debug :
           s = IF isa = "tricore" THEN Nothing(isa, FALSE) ELSE Nothing(isa, debug)
    /\ steps = 0 /\ groups = <<>> /\ labels = <<>> /\ inherited = FALSE /\ ended = FALSE

(* The trap handler is emitted before the functions.                       *)
EnterFirst ==
    /\ s.code = <<>>
    /\ s' = Entered(Emit(s, "handler", "", 0))
    /\ UNCHANGED <<plan, steps, groups, labels, inherited, ended>>

Operators ==
    \/ BLOCK \/ LOOP \/ IF_constant \/ IF_ \/ ELSE_ \/ BR \/ BR_IF \/ BR_TABLE
    \/ END_loop \/ END_block \/ END_if \/ END_function
    \/ UNREACHABLE \/ CheckedOperation \/ CALL \/ Spill \/ OtherCode

Next == EnterFirst \/ (s.code # <<>> /\ Operators)

Spec == Init /\ [][Next]_vars

-----------------------------------------------------------------------------
(* Properties                                                              *)

(* The machine runs from cpu.pos while it is inside.                       *)
RECURSIVE Run(_, _, _, _)
Run(code, cpu, inside, fuel) ==
    IF cpu.pos \in inside /\ fuel > 0 THEN Run(code, Step(code, cpu), inside, fuel - 1) ELSE cpu

(* The states of the machine after the branches of a group, for operands   *)
(* that relate as o says and the index idx.                                *)
After(g, o, idx) ==
    Run(s.code, Cpu(s.isa, g.op, g.reversed, o, g.from, g.frame, idx),
        IF g.goals[1].to \in {"return", "block", "function"} THEN g.from .. g.past - 1
                                                             ELSE (1 .. s.size) \ {g.past, s.handler}, 40)

At(goal, cpu, frame) ==
    CASE goal.to = "return"   -> cpu.pos = -2 /\ cpu.frame = 0
      [] goal.to = "block"    -> cpu.pos = labels[goal.id].at /\ cpu.frame = labels[goal.id].frame
      [] goal.to = "function" -> cpu.pos = s.cells[goal.id] /\ cpu.frame = frame
      [] OTHER -> cpu.pos = s.handler /\ cpu.frame = frame /\ cpu.trap = goal.to /\ (s.debug => cpu.trapPos = goal.id)

Leaves(g, o) == g.cond = "ALWAYS" \/ Holds(g.cond, o) # g.negative

GroupLands(g) ==
    IF g.cond = "TABLE"
    THEN \A idx \in 0 .. Len(g.goals) : At(g.goals[IF idx < Len(g.goals) THEN idx + 1 ELSE idx], After(g, <<0, 0>>, idx), 0)
    ELSE \A o \in Outcomes(g.op) :
             LET lands(cpu) == IF Leaves(g, o) THEN At(g.goals[1], cpu, g.frame) ELSE cpu.pos = g.past /\ cpu.frame = g.frame
             IN  lands(After(g, o, 0))

(* When the program is compiled, every branch of it, taken or not, for     *)
(* every outcome of its comparison (of floating point operands that have   *)
(* no order too) and every index of a table, leads to where WebAssembly    *)
(* says, and arrives with the frame size that the code there expects; a    *)
(* trap reaches the handler with its code and, in debug mode, its position.*)
BranchesLand == ended => \A i \in DOMAIN groups : GroupLands(groups[i])

(* A compilation that ends because a branch is too far away has a branch   *)
(* that cannot reach: links between the branches to one target, which      *)
(* share the displacement fields, are never the reason. (On AArch64 a link *)
(* from a conditional branch back to an unconditional one can be.) And the *)
(* short jumps, whose range is only asserted, are short.                   *)
NoFalseLimit ==
    /\ s.limit.why # "assert"
    /\ s.limit.why = "range" =>
           LET a == s.limit.from
               link == s.limit.to
               bits(i) == IF i.op \in {"jmp", "call"} \/ s.isa = "x86" THEN JumpBits ELSE CondBits
           IN  \/ link \notin DOMAIN s.code \/ s.limit.to = s.handler \/ link > a
               \/ \E i \in DOMAIN labels : labels[i].at = link
               \/ ~Fits(bits(s.code[link]), a - link)
               \/ s.isa = "arm" /\ s.code[a].op \notin {"jmp", "call"} /\ s.code[link].op = "jmp"

(* Where control may go from c = <<position, frame, checked>>, up to the   *)
(* trap handler and the end of the function.                               *)
Successors(code, c) ==
    LET a == InstructionAt(code, c[1])
        i == code[a]
        past == c[1] + i.len
        frame == IF i.op = "frame" THEN c[2] + i.val ELSE c[2]
        checked == IF i.op = "fence" /\ c[2] > c[3] THEN c[2] ELSE c[3]
        branches == {"jcc", "jcc8", "cbz", "cbnz", "jza", "jnza", "jltu", "jmp"}
        words == {w \in DOMAIN code : code[w].op = "word"}
        table == {w \in words : \A p \in past .. code[w].at : (p - past) % 4 = 0 => \E v \in words : code[v].at = p}
        entries == {past + code[w].val : w \in {v \in table : code[v].at >= past}}
        to == (IF i.op \in branches THEN {a + i.disp} ELSE IF i.op = "jmpx" THEN entries ELSE {})
                \cup (IF i.op \in {"jmp", "jmpx", "ret", "handler"} THEN {} ELSE {past})
    IN  {<<p, frame, checked>> : p \in to}

RECURSIVE Closure(_, _, _)
Closure(code, known, new) ==
    IF new = {} THEN known
    ELSE LET next == UNION {Successors(code, c) : c \in new} \ known
         IN  Closure(code, known \cup next, next)

Checked(f) ==
    LET start == {<<s.cells[f], 0, 0>>}
    IN  \A c \in Closure(s.code, start, start) :
            s.code[InstructionAt(s.code, c[1])].op \in {"store", "call"} => c[2] <= c[3]

StackCheckedAlways == ended => \A f \in 0 .. plan.functions - 1 : Checked(f)

(* On no path through a function does it store in a part of its frame, or  *)
(* call, before the end of a frame as large was compared with the end of   *)
(* the stack, although most growths of the frame are not checked. (Not so  *)
(* after an IF without ELSE whose condition is a constant other than 0:    *)
(* run stack_check.)                                                       *)
StackChecked == ~inherited => StackCheckedAlways
=============================================================================
