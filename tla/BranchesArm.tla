---------------------------- MODULE BranchesArm ----------------------------
(***************************************************************************)
(* Branches on AArch64: conditional branches and address loads reach 1 MB, *)
(* jumps and calls 128 MB; a comparison with zero is merged into the       *)
(* branch that follows it, and a trap jumps to an earlier one of its code. *)
(***************************************************************************)
EXTENDS BranchCode

CCforBC(bc) ==
    CASE bc \in {"EQZ", "EQ", "EQ_F"} -> "E"    [] bc \in {"NEQZ", "NE", "NE_F"} -> "NE"
      [] bc = "LT_S" -> "L"                     [] bc \in {"LT_U", "LT_F"} -> "B"
      [] bc \in {"GT_S", "GT_F"} -> "G"         [] bc = "GT_U" -> "A"
      [] bc = "LE_S" -> "LE"                    [] bc \in {"LE_U", "LE_F"} -> "BE"
      [] bc \in {"GE_S", "GE_F"} -> "GE"        [] bc = "GE_U" -> "AE"
      [] OTHER -> "NONE"

linkToBinaryPos(s, a, pos) ==
    IF Fits(IF s.code[a].op \in {"jmp", "call"} THEN JumpBits ELSE CondBits, pos - a) THEN SetDisp(s, a, pos - a)
                                                                                      ELSE Fail(s, "range", a, pos)
linkToHere(s, a) == linkToBinaryPos(s, a, s.size)

prepareJMP(s, cc) == Emit(s, IF cc = "NONE" THEN "jmp" ELSE "jcc", cc, 0)

(* The jump for cc, in the place of the comparison with zero if that is    *)
(* the last instruction.                                                   *)
prepareCondJMPAndMergeWithCMPIfPossible(s, cc) ==
    IF cc \in {"E", "NE"} /\ s.code[s.size - 4].op = "cmp0"
    THEN [s EXCEPT !.code[s.size - 4].op = IF cc = "E" THEN "cbz" ELSE "cbnz"]
    ELSE prepareJMP(s, cc)

-----------------------------------------------------------------------------
registerPendingBranch(s, a, link) == linkToBinaryPos(s, a, IF link = NoLink THEN a ELSE link)

finalizeBranch(s, link) ==
    IF link = NoLink THEN s ELSE FoldSet(LAMBDA a, t : linkToHere(t, a), s, Chain(s.code, link))

linkBranchToBlock(s, a, b) ==
    IF s.blocks[b].kind = "loop" THEN linkToBinaryPos(s, a, s.blocks[b].link)
    ELSE [registerPendingBranch(s, a, s.blocks[b].link) EXCEPT !.blocks[b].link = a]

setStackFrameSize(s, frameSize, temporary) ==
    IF s.frame = frameSize THEN s
    ELSE [Emit(s, "frame", "", frameSize - s.frame) EXCEPT !.frame = IF temporary THEN @ ELSE frameSize]

finalizeBlock(s, b) ==
    IF s.blocks[b].kind = "loop" THEN s
    ELSE finalizeBranch(setStackFrameSize(s, s.blocks[b].frame, FALSE), s.blocks[b].link)

emitReturnAndUnwindStack(s, temporary) == Emit(setStackFrameSize(s, 0, temporary), "ret", "", 0)

-----------------------------------------------------------------------------
emitBranch(s, b, bc, isNegative) ==
    LET cc == IF isNegative THEN negateCC(CCforBC(bc)) ELSE CCforBC(bc)
        frame == s.blocks[b].frame
        jump(t) == prepareCondJMPAndMergeWithCMPIfPossible(t, cc)
        over == prepareCondJMPAndMergeWithCMPIfPossible(s, negateCC(cc))
        direct == jump(setStackFrameSize(s, frame, TRUE))
        leave == prepareJMP(setStackFrameSize(over, frame, TRUE), "NONE")
    IN  CASE b = 0 /\ bc = "UNCONDITIONAL" -> emitReturnAndUnwindStack(s, TRUE)
          [] b = 0 /\ bc # "UNCONDITIONAL" -> linkToHere(emitReturnAndUnwindStack(over, TRUE), LastAnchor(over))
          [] b # 0 /\ (bc = "UNCONDITIONAL" \/ s.frame = frame) -> linkBranchToBlock(direct, LastAnchor(direct), b)
          [] OTHER -> linkBranchToBlock(linkToHere(leave, LastAnchor(over)), LastAnchor(leave), b)

executeTableBranch(s, targets) ==
    LET n == Len(targets) - 1
        index == Emit(Emit(Emit(s, "mov", "scratch", n), "cmpidx", "", n), "csel", "B", n)
        load == Emit(index, "lea", "", 0)
        table == linkToHere(Emit(Emit(Emit(load, "plain", "", 0), "plain", "", 0), "jmpx", "", 0), LastAnchor(load))
        reserved == FoldLeft(LAMBDA t, i : Emit(t, "word", "", 0), table, [i \in 1 .. n + 1 |-> i])
        entry(t, i) == emitBranch([t EXCEPT !.code[table.size + 4 * (i - 1)].val = t.size - table.size],
                                  targets[i], "UNCONDITIONAL", FALSE)
    IN  FoldLeft(entry, reserved, [i \in 1 .. n + 1 |-> i])

-----------------------------------------------------------------------------
(* Where the code of a trap was last loaded, and for NONE where the        *)
(* handler was last jumped to. A position is of use while a conditional    *)
(* branch reaches it.                                                      *)
LastTrap(s, trapCode) == s.traps[trapCode] # 0 /\ Fits(CondBits, s.size - s.traps[trapCode])

jumpTo(s, cc, pos) == linkToBinaryPos(prepareJMP(s, cc), s.size, pos)

TRAP(s, trapCode) ==
    LET load(t) == IF trapCode = "NONE" THEN t
                   ELSE Emit([t EXCEPT !.traps[trapCode] = t.size], "mov", "trapReg", trapCode)
        toHandler(t) ==
            CASE Fits(JumpBits, t.size - s.handler) -> jumpTo([t EXCEPT !.traps["NONE"] = t.size], "NONE", s.handler)
              [] ~Fits(JumpBits, t.size - s.handler) /\ LastTrap(t, "NONE") -> jumpTo(t, "NONE", t.traps["NONE"])
              [] OTHER -> Fail(t, "handler", t.size, s.handler)
        debugCode == IF trapCode = "NONE" THEN Emit(s, "mov", "trapPos", s.bytecode)
                     ELSE Emit(Emit(s, "mov", "trapPos", s.bytecode), "mov", "trapReg", trapCode)
    IN  CASE s.debug -> jumpTo(debugCode, "NONE", s.handler)
          [] ~s.debug /\ LastTrap(s, trapCode) -> jumpTo(s, "NONE", s.traps[trapCode])
          [] OTHER -> toHandler(load(s))

cTRAP(s, trapCode, cc) ==
    LET over == prepareJMP(s, negateCC(cc))
    IN  IF LastTrap(s, trapCode) THEN jumpTo(s, cc, s.traps[trapCode])
        ELSE linkToHere(TRAP(over, trapCode), LastAnchor(over))

checkStackFence(s) ==
    LET inRange == prepareJMP(Emit(Emit(s, "plain", "", 0), "fence", "", 0), "AE")
    IN  linkToHere(TRAP(inRange, "FENCE"), LastAnchor(inRange))

checkForInterruptionRequest(s) ==
    LET over == Emit(Emit(s, "plain", "", 0), "cbz", "E", 0)
    IN  linkToHere(TRAP(Emit(over, "mov", "trapReg", "STATUS"), "NONE"), LastAnchor(over))

emitRawWasmInternalCall(s, f) ==
    LET call == Emit(s, "call", "", 0)
    IN  IF f <= s.index THEN linkToBinaryPos(call, LastAnchor(call), s.cells[f])
        ELSE [registerPendingBranch(call, LastAnchor(call), s.cells[f]) EXCEPT !.cells[f] = LastAnchor(call)]

enteredFunction(s, frameSize) ==
    LET entered == [finalizeBranch(s, s.cells[s.index]) EXCEPT !.cells[s.index] = s.size]
    IN  checkStackFence([setStackFrameSize(entered, frameSize, FALSE) EXCEPT !.checked = frameSize])

reserveStackFrame(s, frameSize) ==
    LET grown == setStackFrameSize(s, frameSize, FALSE)
    IN  IF s.checked < frameSize THEN checkStackFence([grown EXCEPT !.checked = frameSize]) ELSE grown
=============================================================================
