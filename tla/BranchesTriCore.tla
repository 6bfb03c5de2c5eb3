-------------------------- MODULE BranchesTriCore --------------------------
(***************************************************************************)
(* Branches on TriCore: a comparison leaves its result in a register, a    *)
(* branch to a block is always a jump of 24 bits, skipped by a conditional *)
(* one of 15 bits, and traps share their code as on AArch64.               *)
(***************************************************************************)
EXTENDS BranchCode

linkToBinaryPos(s, a, pos) ==
    IF Fits(IF s.code[a].op \in {"jmp", "call"} THEN JumpBits ELSE CondBits, pos - a) THEN SetDisp(s, a, pos - a)
                                                                                      ELSE Fail(s, "range", a, pos)
linkToHere(s, a) == linkToBinaryPos(s, a, s.size)

-----------------------------------------------------------------------------
registerPendingBranch(s, a, link) == linkToBinaryPos(s, a, IF link = NoLink THEN a ELSE link)

finalizeBranch(s, link) ==
    IF link = NoLink THEN s ELSE FoldSet(LAMBDA a, t : linkToHere(t, a), s, Chain(s.code, link))

linkBranchToBlock(s, a, b) ==
    IF s.blocks[b].kind = "loop" THEN linkToBinaryPos(s, a, s.blocks[b].link)
    ELSE [registerPendingBranch(s, a, s.blocks[b].link) EXCEPT !.blocks[b].link = a]

setStackFrameSize(s, frameSize, temporary) ==
    IF s.frame = frameSize THEN s
    ELSE [Emit(s, "frame", "", frameSize - s.frame) EXCEPT !.frame = IF temporary THEN @ ELSE frameSize]

finalizeBlock(s, b) ==
    IF s.blocks[b].kind = "loop" THEN s
    ELSE finalizeBranch(setStackFrameSize(s, s.blocks[b].frame, FALSE), s.blocks[b].link)

emitReturnAndUnwindStack(s, temporary) == Emit(setStackFrameSize(s, 0, temporary), "ret", "", 0)

-----------------------------------------------------------------------------
(* The register holds the outcome of the comparison that was emitted, the  *)
(* branch may mean its opposite.                                           *)
emitBranch(s, b, bc, isNegative) ==
    LET negEffBC == negateBC(IF isNegative THEN negateBC(bc) ELSE bc)
        frame == s.blocks[b].frame
        over == Emit(s, IF negEffBC = s.lastBC THEN "jnza" ELSE "jza", "", 0)
        leave(t) == Emit(setStackFrameSize(t, frame, TRUE), "jmp", "", 0)
    IN  CASE b = 0 /\ bc = "UNCONDITIONAL" -> emitReturnAndUnwindStack(s, TRUE)
          [] b = 0 /\ bc # "UNCONDITIONAL" -> linkToHere(emitReturnAndUnwindStack(over, TRUE), LastAnchor(over))
          [] b # 0 /\ bc = "UNCONDITIONAL" -> linkBranchToBlock(leave(s), LastAnchor(leave(s)), b)
          [] OTHER -> linkBranchToBlock(linkToHere(leave(over), LastAnchor(over)), LastAnchor(leave(over)), b)

(* The address of the table is that of the next instruction, from a call   *)
(* to it, plus an offset.                                                  *)
loadPCRelAddr(s) == Emit(Emit(Emit(s, "plain", "", 0), "plain", "", 0), "lea", "", 0)

executeTableBranch(s, targets) ==
    LET n == Len(targets) - 1
        skip == Emit(s, "jltu", "", n + 1)
        load == loadPCRelAddr(linkToHere(Emit(skip, "mov", "idx", n), LastAnchor(skip)))
        after == FoldLeft(LAMBDA t, i : Emit(t, "plain", "", 0), load, <<1, 2, 3, 4>>)
        table == linkToHere(Emit(after, "jmpx", "", 0), LastAnchor(load))
        reserved == FoldLeft(LAMBDA t, i : Emit(t, "word", "", 0), table, [i \in 1 .. n + 1 |-> i])
        entry(t, i) == emitBranch([t EXCEPT !.code[table.size + 4 * (i - 1)].val = t.size - table.size],
                                  targets[i], "UNCONDITIONAL", FALSE)
    IN  FoldLeft(entry, reserved, [i \in 1 .. n + 1 |-> i])

-----------------------------------------------------------------------------
LastTrap(s, trapCode, bits) == s.traps[trapCode] # 0 /\ Fits(bits, s.traps[trapCode] - s.size)

jumpTo(s, pos) == SetDisp(Emit(s, "jmp", "", 0), s.size, pos - s.size)   \* checked by the caller

TRAP(s, trapCode) ==
    LET load(t) == IF trapCode = "NONE" THEN t
                   ELSE Emit([t EXCEPT !.traps[trapCode] = t.size], "mov", "trapReg", trapCode)
        toHandler(t) ==
            CASE Fits(JumpBits, s.handler - t.size) -> jumpTo([t EXCEPT !.traps["NONE"] = t.size], s.handler)
              [] ~Fits(JumpBits, s.handler - t.size) /\ LastTrap(t, "NONE", JumpBits) -> jumpTo(t, t.traps["NONE"])
              [] OTHER -> Fail(t, "handler", t.size, s.handler)
    IN  IF LastTrap(s, trapCode, JumpBits) THEN jumpTo(s, s.traps[trapCode]) ELSE toHandler(load(s))

cTRAP(s, trapCode, cc) ==
    LET over == Emit(s, "jcc", negateCC(cc), 0)
    IN  IF LastTrap(s, trapCode, CondBits) THEN linkToBinaryPos(Emit(s, "jcc", cc, 0), s.size, s.traps[trapCode])
        ELSE linkToHere(TRAP(over, trapCode), LastAnchor(over))

checkStackFence(s) == cTRAP(Emit(Emit(s, "plain", "", 0), "fence", "", 0), "FENCE", "B")

checkForInterruptionRequest(s) ==
    LET over == Emit(Emit(s, "plain", "", 0), "jcc", "E", 0)
    IN  linkToHere(TRAP(Emit(over, "mov", "trapReg", "STATUS"), "NONE"), LastAnchor(over))

emitRawWasmInternalCall(s, f) ==
    LET call == Emit(s, "call", "", 0)
    IN  IF f <= s.index THEN linkToBinaryPos(call, LastAnchor(call), s.cells[f])
        ELSE [registerPendingBranch(call, LastAnchor(call), s.cells[f]) EXCEPT !.cells[f] = LastAnchor(call)]

enteredFunction(s, frameSize) ==
    LET entered == [finalizeBranch(s, s.cells[s.index]) EXCEPT !.cells[s.index] = s.size]
    IN  checkStackFence([setStackFrameSize(entered, frameSize, FALSE) EXCEPT !.checked = frameSize])

reserveStackFrame(s, frameSize) ==
    LET grown == setStackFrameSize(s, frameSize, FALSE)
    IN  IF s.checked < frameSize THEN checkStackFence([grown EXCEPT !.checked = frameSize]) ELSE grown
=============================================================================
