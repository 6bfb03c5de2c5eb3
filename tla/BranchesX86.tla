---------------------------- MODULE BranchesX86 ----------------------------
(***************************************************************************)
(* Branches on x86-64: conditional jumps of 32 bits, short jumps of 8 bits *)
(* inside one emitted sequence, and the parity flag to look at when the    *)
(* operands of a floating point comparison may have no order.              *)
(***************************************************************************)
EXTENDS BranchCode

CCforBC(bc) ==
    CASE bc \in {"EQZ", "EQ", "EQ_F"} -> "E"    [] bc \in {"NEQZ", "NE", "NE_F"} -> "NE"
      [] bc = "LT_S" -> "L"                     [] bc \in {"LT_U", "LT_F"} -> "B"
      [] bc = "GT_S" -> "G"                     [] bc \in {"GT_U", "GT_F"} -> "A"
      [] bc = "LE_S" -> "LE"                    [] bc \in {"LE_U", "LE_F"} -> "BE"
      [] bc = "GE_S" -> "GE"                    [] bc \in {"GE_U", "GE_F"} -> "AE"
      [] OTHER -> "NONE"

(* Only jumps that are known to be near are short: their displacement is   *)
(* asserted, that of the others checked.                                   *)
linkToBinaryPos(s, a, pos) ==
    LET d == pos - a
    IN  CASE s.code[a].op = "jcc8" -> IF Fits(8, d) THEN SetDisp(s, a, d) ELSE Fail(s, "assert", a, pos)
          [] OTHER -> IF d <= -(2 ^ (JumpBits - 1)) \/ d >= 2 ^ (JumpBits - 1) - 1 THEN Fail(s, "range", a, pos)
                                                                                   ELSE SetDisp(s, a, d)
linkToHere(s, a) == linkToBinaryPos(s, a, s.size)

prepareJMP(s, shortJmp, cc) ==
    IF cc = "NONE" THEN Emit(s, "jmp", cc, 0) ELSE Emit(s, IF shortJmp THEN "jcc8" ELSE "jcc", cc, 0)

-----------------------------------------------------------------------------
(* Branches to what is not emitted yet.                                    *)

(* A faulty variant: the branches before the last one are forgotten.       *)
registerPendingBranchAlone(s, a, link) == linkToBinaryPos(s, a, a)
registerPendingBranch(s, a, link) == linkToBinaryPos(s, a, IF link = NoLink THEN a ELSE link)

finalizeBranch(s, link) ==
    IF link = NoLink THEN s ELSE FoldSet(LAMBDA a, t : linkToHere(t, a), s, Chain(s.code, link))

linkBranchToBlock(s, a, b) ==
    IF s.blocks[b].kind = "loop" THEN linkToBinaryPos(s, a, s.blocks[b].link)
    ELSE [registerPendingBranch(s, a, s.blocks[b].link) EXCEPT !.blocks[b].link = a]

\* LEA, because the flags of a comparison must survive it.
setStackFrameSize(s, frameSize, temporary) ==
    IF s.frame = frameSize THEN s
    ELSE [Emit(s, "frame", "", frameSize - s.frame) EXCEPT !.frame = IF temporary THEN @ ELSE frameSize]

finalizeBlock(s, b) ==
    IF s.blocks[b].kind = "loop" THEN s
    ELSE finalizeBranch(setStackFrameSize(s, s.blocks[b].frame, FALSE), s.blocks[b].link)

emitReturnAndUnwindStack(s, temporary) == Emit(setStackFrameSize(s, 0, temporary), "ret", "", 0)

-----------------------------------------------------------------------------
(* Body, skipped by a short jump when the condition cc does not hold and,  *)
(* after a floating point comparison, unless nan when there is no order.   *)
Guarded(s, float, nan, cc, Body(_)) ==
    LET jumpOver(t) == prepareJMP(t, TRUE, negateCC(cc))
        nanJump == s.size + 2
    IN  CASE ~float       -> linkToHere(Body(jumpOver(s)), s.size + 2)
          [] float /\ nan -> linkToHere(Body(linkToHere(jumpOver(prepareJMP(s, TRUE, "P")), nanJump)), s.size + 4)
          [] OTHER        -> linkToHere(linkToHere(Body(jumpOver(prepareJMP(s, TRUE, "P"))), nanJump), s.size + 4)

(* One conditional jump to the block, and for floating point one more      *)
(* around it or to it, for operands that have no order.                    *)
JumpToBlockShort(s, b, float, nan, cc) ==   \* a faulty variant: the block is assumed to end soon
    linkBranchToBlock(prepareJMP(s, TRUE, cc), LastAnchor(prepareJMP(s, TRUE, cc)), b)
JumpToBlock(s, b, float, nan, cc) ==
    LET jump(t, c) == linkBranchToBlock(prepareJMP(t, FALSE, c), LastAnchor(prepareJMP(t, FALSE, c)), b)
    IN  CASE ~float       -> jump(s, cc)
          [] float /\ nan -> jump(jump(s, "P"), cc)
          [] OTHER        -> linkToHere(jump(prepareJMP(s, TRUE, "P"), cc), s.size + 2)

emitBranch(s, b, bc, isNegative) ==
    LET float == bc \in FloatConditions
        nan == IF isNegative THEN bc # "NE_F" ELSE bc = "NE_F"
        cc == IF isNegative THEN negateCC(CCforBC(bc)) ELSE CCforBC(bc)
        frame == s.blocks[b].frame
        leave(t) == prepareJMP(setStackFrameSize(t, frame, TRUE), FALSE, "NONE")
        return(t) == emitReturnAndUnwindStack(t, TRUE)
        jumped == Guarded(s, float, nan, cc, leave)
    IN  CASE b = 0 /\ bc = "UNCONDITIONAL" -> return(s)
          [] b = 0 /\ bc # "UNCONDITIONAL" -> Guarded(s, float, nan, cc, return)
          [] b # 0 /\ (bc = "UNCONDITIONAL" \/ s.frame = frame) ->
                 JumpToBlock(setStackFrameSize(s, frame, TRUE), b, float, nan, cc)
          [] OTHER -> linkBranchToBlock(jumped, LastAnchor(jumped), b)

(* The index is saturated, an entry of the table that follows is added to  *)
(* the address of the table, and each entry leads to a branch of its own.  *)
executeTableBranch(s, targets) ==
    LET n == Len(targets) - 1
        skip == prepareJMP(Emit(s, "cmpidx", "", n), TRUE, "BE")
        load == Emit(linkToHere(Emit(skip, "mov", "idx", n), LastAnchor(skip)), "lea", "", 0)
        table == linkToHere(Emit(Emit(Emit(load, "plain", "", 0), "plain", "", 0), "jmpx", "", 0), LastAnchor(load))
        reserved == FoldLeft(LAMBDA t, i : Emit(t, "word", "", 0), table, [i \in 1 .. n + 1 |-> i])
        entry(t, i) == emitBranch([t EXCEPT !.code[table.size + 4 * i].val = t.size - table.size],
                                  targets[i], "UNCONDITIONAL", FALSE)
    IN  FoldLeft(entry, reserved, [i \in 1 .. n + 1 |-> i])

-----------------------------------------------------------------------------
(* Traps, calls and the frame.                                             *)

TRAP(s, trapCode) ==
    LET position(t) == IF s.debug THEN Emit(t, "mov", "trapPos", s.bytecode) ELSE t
        code(t) == IF trapCode = "NONE" THEN t ELSE Emit(t, "mov", "trapReg", trapCode)
        jump == prepareJMP(code(position(s)), FALSE, "NONE")
    IN  linkToBinaryPos(jump, LastAnchor(jump), s.handler)

cTRAP(s, trapCode, cc) ==
    LET over == prepareJMP(s, TRUE, negateCC(cc))
    IN  linkToHere(TRAP(over, trapCode), LastAnchor(over))

checkStackFence(s) == cTRAP(Emit(s, "fence", "", 0), "FENCE", "B")

checkForInterruptionRequest(s) ==
    LET over == prepareJMP(Emit(s, "plain", "", 0), TRUE, "E")
    IN  linkToHere(TRAP(Emit(over, "mov", "trapReg", "STATUS"), "NONE"), LastAnchor(over))

emitRawWasmInternalCall(s, f) ==
    LET call == Emit(s, "call", "", 0)
    IN  IF f <= s.index THEN linkToBinaryPos(call, LastAnchor(call), s.cells[f])
        ELSE [registerPendingBranch(call, LastAnchor(call), s.cells[f]) EXCEPT !.cells[f] = LastAnchor(call)]

enteredFunction(s, frameSize) ==
    LET entered == [finalizeBranch(s, s.cells[s.index]) EXCEPT !.cells[s.index] = s.size]
    IN  checkStackFence([setStackFrameSize(entered, frameSize, FALSE) EXCEPT !.checked = frameSize])

(* The frame grows when a value finds no register; its end is compared     *)
(* with the end of the stack unless that was done for a frame as large.    *)
updateStackFrameSizeHelper(s, frameSize) ==
    LET grown == setStackFrameSize(s, frameSize, FALSE)
    IN  IF s.checked < frameSize THEN checkStackFence([grown EXCEPT !.checked = frameSize]) ELSE grown
=============================================================================
