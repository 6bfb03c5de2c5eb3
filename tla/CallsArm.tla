------------------------------ MODULE CallsArm ------------------------------
(***************************************************************************)
(* The code around calls on AArch64: every value in one 64-bit register or *)
(* 8 bytes of stack, the return address in the link register, which a      *)
(* caller keeps in its frame during a call. The native convention is that  *)
(* of Arm ("linux") or Apple's, where an argument on the stack takes its   *)
(* own size ("apple").                                                     *)
(***************************************************************************)
EXTENDS CallMachine

LOCAL R(n) == <<"R", n>>
LOCAL F(n) == <<"F", n>>
LOCAL LR == <<"LR", 0>>
SP == <<"SP", 0>>
LOCAL LM == <<"FP", 0>>               \* WasmABI::REGS::linMem
LOCAL JobMem == R(28)
LOCAL MemSizeReg == R(27)
LOCAL Field(f) == Data(LM, f, 8)
LOCAL Scr == <<R(9), R(10), R(11)>>   \* callScrRegs
LOCAL MoveHelper == F(31)
LOCAL IndirectCallReg == Reg(R(0), 4)

ReturnAddrWidth == 0
Gpr(os) == <<R(19), R(8), R(1), R(2), R(3), R(4), R(5), R(6), R(7), R(12), R(13), R(14), R(15), R(16), R(17)>> \o
           If(os = "linux", <<R(18)>>) \o
           <<R(20), R(21), R(22), R(23), R(24), R(25), R(0), R(26), R(9), R(10), R(11)>>
Fpr == [n \in 1 .. 31 |-> F(<<8, 1, 2, 3, 4, 5, 6, 7, 12, 13, 14, 15, 16, 17, 18, 19, 20, 21, 22, 23, 24, 25, 27, 28, 29, 30,
                              0, 26, 9, 10, 11>>[n])]
RegsForParams == 8
GpRetRegs == <<R(0), R(26)>>
FpRetRegs == <<F(0), F(26)>>
NativeGp == [n \in 1 .. 8 |-> R(n - 1)]
NativeFp == [n \in 1 .. 8 |-> F(n - 1)]
NonvolRegs == [n \in 1 .. 10 |-> R(18 + n)] \o [n \in 1 .. 8 |-> F(7 + n)] \o <<LR, LM>>

-----------------------------------------------------------------------------
(* Where arguments and results are.                                        *)

NoReg == R(-1)
Tracker == [gpr |-> 0, fpr |-> 0, bytes |-> 0]
Start(j) == IF j.global THEN 1 ELSE 0
Nth(regs, n) == IF n < Len(regs) THEN regs[n + 1] ELSE NoReg

REGForArg(j, type, imported, t) ==
    CASE imported -> IF IsInt(type) THEN Nth(NativeGp, t.gpr) ELSE Nth(NativeFp, t.fpr)
      [] ~imported /\ ~j.debug /\ IsInt(type) /\ t.gpr < RegsForParams -> Gpr(j.os)[Start(j) + t.gpr + 1]
      [] ~imported /\ ~j.debug /\ ~IsInt(type) /\ t.fpr < RegsForParams -> Fpr[t.fpr + 1]
      [] OTHER -> NoReg

WidthInStackArgs(j, imported, type) == IF imported /\ j.os = "apple" THEN Size(type) ELSE 8
(* Where the next argument on the stack starts.                            *)
NextOnStack(j, imported, type, t) ==
    IF imported THEN RoundUp(t.bytes, IF j.os = "apple" THEN Size(type) ELSE 8) ELSE t.bytes

Taken(t, type, reg, bytes) ==
    [gpr |-> t.gpr + (IF reg # NoReg /\ IsInt(type) THEN 1 ELSE 0),
     fpr |-> t.fpr + (IF reg # NoReg /\ ~IsInt(type) THEN 1 ELSE 0),
     bytes |-> IF reg = NoReg THEN bytes ELSE t.bytes]
AfterArg(j, type, imported, t) ==
    Taken(t, type, REGForArg(j, type, imported, t),
          NextOnStack(j, imported, type, t) + WidthInStackArgs(j, imported, type))
Trackers(j, params, imported) ==
    FoldLeft(LAMBDA acc, type : Append(acc, AfterArg(j, type, imported, acc[Len(acc)])), <<Tracker>>, params)

(* An import has the context as one argument more.                         *)
WithContext(params, imported) == IF imported THEN Append(params, "i64") ELSE params
StackParamWidth(j, params, imported) ==
    LET all == WithContext(params, imported) IN RoundUp(Trackers(j, all, imported)[Len(all) + 1].bytes, 8)
OffsetInStackArgs(j, imported, paramWidth, type, t) ==
    IF imported THEN NextOnStack(j, imported, type, t) ELSE paramWidth - 8 - t.bytes

(* The places of the arguments (with the context, if imported).            *)
Args(j, params, imported, base, d) ==
    LET all == WithContext(params, imported)
        ts == Trackers(j, all, imported)
        width == RoundUp(ts[Len(all) + 1].bytes, 8)
    IN  [i \in DOMAIN all |->
            LET reg == REGForArg(j, all[i], imported, ts[i])
            IN  IF reg # NoReg THEN Reg(reg, Size(all[i]))
                ELSE Mem(base, d + OffsetInStackArgs(j, imported, width, all[i], ts[i]), Size(all[i]))]

(* Where a function looks for its own parameters.                          *)
AllocateLocal(j, params) ==
    FoldLeft(LAMBDA acc, type :
                LET regs == IF IsInt(type) THEN Gpr(j.os) ELSE Fpr
                    n == IF IsInt(type) THEN acc.gpr ELSE acc.fpr
                IN  IF ~j.debug /\ n < RegsForParams
                    THEN [gpr |-> IF IsInt(type) THEN n + 1 ELSE acc.gpr, fpr |-> IF IsInt(type) THEN acc.fpr ELSE n + 1,
                          size |-> acc.size,
                          homes |-> Append(acc.homes, Reg(regs[(IF IsInt(type) THEN Start(j) ELSE 0) + n + 1], Size(type)))]
                    ELSE [gpr |-> acc.gpr, fpr |-> acc.fpr, size |-> acc.size + 8,
                          homes |-> Append(acc.homes, Pos(acc.size + 8, Size(type)))],
             [gpr |-> 0, fpr |-> 0, size |-> 0, homes |-> <<>>], params)
Homes(j) == AllocateLocal(j, j.params).homes

REGForReturnValue(type, t) == IF IsInt(type) THEN Nth(GpRetRegs, t.gpr) ELSE Nth(FpRetRegs, t.fpr)
Results(results, base, d) ==
    LET ts == FoldLeft(LAMBDA acc, type :
                           Append(acc, Taken(acc[Len(acc)], type, REGForReturnValue(type, acc[Len(acc)]),
                                             acc[Len(acc)].bytes + 8)),
                       <<Tracker>>, results)
    IN  [n \in DOMAIN results |->
            LET reg == REGForReturnValue(results[n], ts[n])
            IN  IF reg # NoReg THEN Reg(reg, Size(results[n])) ELSE Mem(base, d + ts[n].bytes, Size(results[n]))]
StackReturnValueWidth(results) == 8 * Cardinality({n \in DOMAIN results : Results(results, SP, 0)[n].k = "mem"})

Slots(types, d) == [i \in DOMAIN types |-> Mem(SP, d + 8 * (i - 1), Size(types[i]))]

-----------------------------------------------------------------------------
(* Pieces.                                                                 *)

CacheJobMemoryPtrPtr(offset) ==
    <<Mov(Reg(Scr[1], 8), Field("jobMemoryDataPtrPtr")), Mov(Mem(SP, offset, 8), Reg(Scr[1], 8))>>
RestoreFromJobMemoryPtrPtr(offset) == <<Rebase(<<Reg(JobMem, 8), Reg(LM, 8)>>, Mem(SP, offset, 8))>>

ShallRecordStacktrace(j) == j.trace \/ j.debug
(* The two words of a record are stored as a pair, the index known or not. *)
PushStacktrace(j, index, offset, scr3) ==
    If(ShallRecordStacktrace(j),
       <<Lea(Reg(scr3, 8), SP, offset), Mov(Reg(Scr[1], 8), Field("lastFrameRef"))>> \o
       If(index # "unknown", <<Mov(Reg(Scr[2], 4), Imm(index, 4))>>) \o
       <<Mov(Mem(scr3, 0, 8), Reg(Scr[1], 8)), Mov(Mem(scr3, 8, 8), Reg(Scr[2], 8))>> \o
       If(j.debug, <<Mov(Reg(Scr[1], 4), Imm("toStartOfFrame", 4)), Mov(Reg(Scr[2], 4), Imm("bytecodePos", 4)),
                     Mov(Mem(scr3, 12, 4), Reg(Scr[1], 4)), Mov(Mem(scr3, 16, 4), Reg(Scr[2], 4))>>) \o
       <<Mov(Field("lastFrameRef"), Reg(scr3, 8))>>)
PopStacktrace(j, offset) ==
    If(ShallRecordStacktrace(j), <<Mov(Reg(Scr[1], 8), Mem(SP, offset, 8)), Mov(Field("lastFrameRef"), Reg(Scr[1], 8))>>)
(* A faulty variant: the record keeps the index it has.                    *)
PatchStacktraceForgotten(j) == <<>>
PatchStacktrace(j) ==
    If(ShallRecordStacktrace(j), <<Mov(Reg(Scr[1], 8), Field("lastFrameRef")), Mov(Reg(Scr[2], 4), Imm("callee", 4)),
                                   Mov(Mem(Scr[1], 8, 4), Reg(Scr[2], 4))>>)

GlobalReg == Reg(R(19), 4)
MoveGlobals(global) == If(global, <<Mov(Data(LM, "global", 4), GlobalReg)>>)
RecoverGlobals(global) == If(global, <<Mov(GlobalReg, Data(LM, "global", 4))>>)
SetupMemSize == <<Mov(Reg(MemSizeReg, 4), Data(LM, "memSize", 4))>>
CheckStackFence(scr) == <<Spoil(<<scr>>, 8)>>
AddSp(d) == If(d # 0, <<Lea(Reg(SP, 8), SP, d)>>)
StoreLR(offset) == <<Mov(Mem(SP, offset, 8), Reg(LR, 8))>>
(* A faulty variant: the link register is not restored.                    *)
RestoreLRForgotten(offset) == <<>>
RestoreLR(offset) == <<Mov(Reg(LR, 8), Mem(SP, offset, 8))>>

(* emitMoveImpl: through the move helper from memory to memory.            *)
Move(to, from) ==
    IF to.k = "mem" /\ from.k \in {"mem", "data"}
    THEN If(to # from, <<Mov(Reg(MoveHelper, to.w), from), Mov(to, Reg(MoveHelper, to.w))>>)
    ELSE If(~SameRegister(to, from), <<Mov(to, from)>>)
Through(to, from, scr) == <<Mov(Reg(scr, to.w), from), Mov(to, Reg(scr, to.w))>>

(* selectDefaultParallelMoveTemp, without the register of an index, and    *)
(* the moves of the resolver.                                              *)
Temps == [type \in {"i32", "f32", "i64", "f64"} |->
             LET regs == IF IsInt(type) THEN <<R(26), R(9), R(10), R(11)>> ELSE SubSeq(Fpr, 27, 31)
             IN  [n \in DOMAIN regs |-> Reg(regs[n], Size(type))]]
Resolve(copies) ==
    LET steps == Resolved(Pushed(copies), "temp", Temps)
    IN  Concat([n \in DOMAIN steps |-> Move(steps[n].to, steps[n].from)])

(* The address of the function is loaded first, its offset in the link     *)
(* data before that if it is large.                                        *)
RawFunctionCall(imported) == IF imported THEN <<Spoil(<<Scr[1], Scr[2]>>, 8), CallHost>> ELSE <<CallWasm>>
IndirectWasmTargetAddress == <<Target(IndirectCallReg), Spoil(<<Scr[1], Scr[2], Scr[3]>>, 8)>>

-----------------------------------------------------------------------------
(* Calls out of a WebAssembly function.                                    *)

AlignStackFrameSize(j, size) == RoundUp(size - j.frame.paramWidth, 16) + j.frame.paramWidth
At(p, size, w) == Mem(SP, size - p, w)
Source(source, size) == IF source.k = "pos" THEN At(source.d, size, source.w) ELSE source

Imported(j) == j.callee \in {"v1", "v2"}
ParamWidthOf(j) == IF j.callee = "v2" THEN 8 * Len(j.params) ELSE StackParamWidth(j, j.params, Imported(j))
ReturnWidthOf(j) == IF j.callee = "v2" THEN 8 * Len(j.results) ELSE StackReturnValueWidth(j.results)

(* | Stack Params | Stack Return Values | LR | Record + Debug Info |       *)
(* | jobMemoryPtrPtr | Padding |                                           *)
OfLr(j) == ParamWidthOf(j) + ReturnWidthOf(j)
OfRecord(j) == OfLr(j) + 8
OfJobPtr(j) == OfRecord(j) + (IF ShallRecordStacktrace(j) THEN 16 ELSE 0) + (IF j.debug THEN 8 ELSE 0)
FrameSize(j) == AlignStackFrameSize(j, j.frame.lastMax + OfJobPtr(j) + 8)
PrepareStackFrame(j) ==
    AddSp(j.frame.size - FrameSize(j)) \o If(j.frame.checked < FrameSize(j), CheckStackFence(Scr[1]))

Sources(j) == [i \in DOMAIN j.params |-> Source(j.sources[i], FrameSize(j))]
V2Params(j) == Concat([i \in DOMAIN j.params |-> Move(Slots(j.params, 0)[i], Sources(j)[i])])
V2Pointers(ofReturns) ==
    <<Lea(Reg(R(0), 8), SP, 0), Lea(Reg(R(1), 8), SP, ofReturns), Mov(Reg(R(2), 8), Field("ctx"))>>

IndexCopy(j, size) == If(j.callee = "indirect", <<Copy(IndirectCallReg, Source(j.index, size), "i32")>>)
Targets(j) == Args(j, j.params, Imported(j), SP, 0)
WithCtx(j) == IF Imported(j) THEN Append(Sources(j), Field("ctx")) ELSE Sources(j)
V1Stores(j) ==
    Concat([i \in DOMAIN Targets(j) |-> If(Targets(j)[i].k = "mem", Move(Targets(j)[i], WithCtx(j)[i]))])
V1Copies(j) ==
    LET types == WithContext(j.params, Imported(j))
        copies == [i \in DOMAIN Targets(j) |-> Copy(Targets(j)[i], WithCtx(j)[i], types[i])]
    IN  Resolve(SelectSeq(copies, LAMBDA c : c.to.k = "reg") \o IndexCopy(j, FrameSize(j)))

FncCallWrapper(j) ==
    PushStacktrace(j, IF j.callee = "indirect" THEN "unknown" ELSE "callee", OfRecord(j), Scr[3]) \o
    If(Imported(j), CacheJobMemoryPtrPtr(OfJobPtr(j))) \o
    (IF j.callee = "indirect" THEN IndirectWasmTargetAddress \o <<CallWasm>> ELSE RawFunctionCall(Imported(j))) \o
    If(Imported(j), RestoreFromJobMemoryPtrPtr(OfJobPtr(j))) \o
    PopStacktrace(j, OfRecord(j))

DirectFncCall(j) ==
    If(Imported(j), MoveGlobals(j.global)) \o PrepareStackFrame(j) \o StoreLR(OfLr(j)) \o
    (IF j.callee = "v2" THEN V2Params(j) \o V2Pointers(ParamWidthOf(j)) ELSE V1Stores(j) \o V1Copies(j)) \o
    FncCallWrapper(j) \o RestoreLR(OfLr(j)) \o
    If(Imported(j), SetupMemSize \o RecoverGlobals(j.global))

IterateResults(j) == IF j.callee = "v2" THEN Slots(j.results, ParamWidthOf(j))
                                        ELSE Results(j.results, SP, ParamWidthOf(j))

-----------------------------------------------------------------------------
(* Return and tail calls.                                                  *)

ReturnAndUnwind(j, size) == AddSp(size - j.frame.paramWidth) \o <<Return(Reg(SP, 8), 0)>>

(* The results are left right above the parameters.                        *)
LoadReturnValues(j, size) ==
    Concat([n \in DOMAIN j.results |-> Move(Results(j.results, SP, size)[n], IterateResults(j)[n])])

CanTailJump(j) ==
    /\ ~Imported(j)
    /\ \/ ParamWidthOf(j) = j.frame.paramWidth
       \/ StackReturnValueWidth(j.results) = 0 /\ ParamWidthOf(j) < j.frame.paramWidth

TailTargets(j) ==
    [i \in DOMAIN j.params |->
        IF Targets(j)[i].k = "reg" THEN Targets(j)[i]
        ELSE At(j.frame.paramWidth - Targets(j)[i].d, j.frame.size, Size(j.params[i]))]
TailJump(j) ==
    Resolve([i \in DOMAIN j.params |-> Copy(TailTargets(j)[i], Source(j.sources[i], j.frame.size), j.params[i])]
            \o IndexCopy(j, j.frame.size)) \o
    AddSp(j.frame.size - j.frame.paramWidth) \o
    If(j.callee = "indirect", IndirectWasmTargetAddress) \o <<Jump>>

ReturnCall(j) ==
    IF CanTailJump(j) THEN TailJump(j)
    ELSE DirectFncCall(j) \o LoadReturnValues(j, FrameSize(j)) \o ReturnAndUnwind(j, FrameSize(j))

-----------------------------------------------------------------------------
(* The wrapper that the host calls with the argument array in R0, the base *)
(* of the linear memory in R1, the address of the trap code in R2 and the  *)
(* result array in R3.                                                     *)

OfTrapCode == 0
OfEntryRecord == 8
OfEntryJobPtr == OfEntryRecord + 16 + 8
OfReturnValuesPtr == OfEntryJobPtr + 8
EntryReserved == RoundUp(OfReturnValuesPtr + 8, 16)

SpillBytes == 8 * Len(NonvolRegs)
SpillRegs == [n \in DOMAIN NonvolRegs |-> Mov(Mem(SP, 8 * (n - 1), 8), Reg(NonvolRegs[n], 8))]
RestoreRegs == [n \in DOMAIN NonvolRegs |-> Mov(Reg(NonvolRegs[n], 8), Mem(SP, 8 * (n - 1), 8))]

EntryProlog(j) ==
    AddSp(-SpillBytes) \o CheckStackFence(Scr[1]) \o SpillRegs \o
    <<Mov(Reg(Scr[3], 8), Reg(R(0), 8)), Mov(Reg(LM, 8), Reg(R(1), 8)), Mov(Reg(JobMem, 8), Reg(LM, 8))>> \o
    SetupMemSize \o RecoverGlobals(j.global) \o AddSp(-EntryReserved) \o
    PushStacktrace(j, "callee", OfEntryRecord, R(0)) \o
    If(Imported(j), CacheJobMemoryPtrPtr(OfEntryJobPtr)) \o
    <<Mov(Mem(SP, OfTrapCode, 8), Reg(R(2), 8)), Mov(Mem(SP, OfReturnValuesPtr, 8), Reg(R(3), 8)),
      EnterFrame(Reg(SP, 8), Field("trapStackReentry")), Spoil(<<Scr[1], Scr[2]>>, 8)>>

(* The wrapper has the V1 convention for every import.                     *)
EntryParamWidth(j) == StackParamWidth(j, j.params, Imported(j))
EntryReservation(j) ==
    RoundUp(SpillBytes + EntryReserved + EntryParamWidth(j) + StackReturnValueWidth(j.results), 16)
        - SpillBytes - EntryReserved

EntryParams(j) ==
    LET args == Args(j, j.params, Imported(j), SP, 0)
        from == [i \in DOMAIN args |-> IF i <= Len(j.params) THEN Mem(Scr[3], 8 * (i - 1), args[i].w) ELSE Field("ctx")]
    IN  Concat([i \in DOMAIN args |-> IF args[i].k = "reg" THEN <<Mov(args[i], from[i])>>
                                      ELSE Through(args[i], from[i], Scr[1])])
EntryResults(j) ==
    LET places == Results(j.results, SP, EntryParamWidth(j))
        slot(n) == Mem(Scr[2], 8 * (n - 1), places[n].w)
    IN  <<Mov(Reg(Scr[2], 8), Mem(SP, OfReturnValuesPtr + EntryReservation(j), 8))>> \o
        Concat([n \in DOMAIN places |-> IF places[n].k = "reg" THEN <<Mov(slot(n), places[n])>>
                                        ELSE Through(slot(n), places[n], Scr[1])])

FunctionEntryPoint(j) ==
    EntryProlog(j) \o AddSp(-EntryReservation(j)) \o CheckStackFence(Scr[1]) \o
    EntryParams(j) \o RawFunctionCall(Imported(j)) \o EntryResults(j) \o AddSp(EntryReservation(j)) \o
    If(Imported(j), RestoreFromJobMemoryPtrPtr(OfEntryJobPtr)) \o
    PopStacktrace(j, OfEntryRecord) \o
    <<TrapEntry>> \o MoveGlobals(j.global) \o
    <<Spoil(<<Scr[2]>>, 8), LeaveFrame(Reg(SP, 8), Field("trapStackReentry"))>> \o
    AddSp(EntryReserved) \o RestoreRegs \o AddSp(SpillBytes) \o <<Return(Reg(SP, 8), 0)>>

-----------------------------------------------------------------------------
(* The adapters through which a table entry reaches a host function.       *)

OldWidth(j) == StackParamWidth(j, j.params, FALSE)

AdapterCall(j, ofJobPtr) ==
    PatchStacktrace(j) \o CacheJobMemoryPtrPtr(ofJobPtr) \o RawFunctionCall(TRUE) \o
    RestoreFromJobMemoryPtrPtr(ofJobPtr) \o RecoverGlobals(j.global)

V2ImportAdapter(j) ==
    LET ofReturns == 8 * Len(j.params)
        ofLr == ofReturns + 8 * Len(j.results)
        reserved == RoundUp(ofLr + 8 + 8, 16)
        old == Args(j, j.params, FALSE, SP, reserved)
        rets == Results(j.results, SP, reserved + OldWidth(j))
        scr(type) == IF IsInt(type) THEN Scr[1] ELSE MoveHelper
        moved(to, from, type) == IF to.k = "reg" \/ from.k = "reg" THEN <<Mov(to, from)>> ELSE Through(to, from, scr(type))
    IN  MoveGlobals(j.global) \o AddSp(-reserved) \o CheckStackFence(Scr[2]) \o StoreLR(ofLr) \o
        Concat([i \in DOMAIN j.params |-> moved(Slots(j.params, 0)[i], old[i], j.params[i])]) \o
        V2Pointers(ofReturns) \o AdapterCall(j, ofLr + 8) \o
        Concat([n \in DOMAIN j.results |-> moved(rets[n], Slots(j.results, ofReturns)[n], j.results[n])]) \o
        SetupMemSize \o RestoreLR(ofLr) \o AddSp(reserved) \o <<Return(Reg(SP, 8), 0)>>

(* What goes to the stack and to floating-point registers at once, the     *)
(* others through a resolver that is not asked to break cycles.            *)
V1ImportAdapter(j) ==
    LET ofLr == StackParamWidth(j, j.params, TRUE)
        reserved == RoundUp(ofLr + 8 + 8, 16)
        to == Args(j, j.params, TRUE, SP, 0)
        from == Append(Args(j, j.params, FALSE, SP, reserved), Field("ctx"))
        atOnce(i) == to[i].k = "mem" \/ (i <= Len(j.params) /\ ~IsInt(j.params[i]))
        moved(i) == IF to[i].k = "reg" \/ from[i].k = "reg" THEN If(~SameRegister(to[i], from[i]), <<Mov(to[i], from[i])>>)
                    ELSE Through(to[i], from[i], Scr[1])
        types == WithContext(j.params, TRUE)
        copies == SelectSeq([i \in DOMAIN to |-> i], LAMBDA i : ~atOnce(i))
        steps == Resolved(Pushed([n \in DOMAIN copies |-> Copy(to[copies[n]], from[copies[n]], types[copies[n]])]),
                          "linear", Temps)
    IN  MoveGlobals(j.global) \o AddSp(-reserved) \o CheckStackFence(Scr[2]) \o StoreLR(ofLr) \o
        Concat([i \in DOMAIN to |-> If(atOnce(i), moved(i))]) \o
        [n \in DOMAIN steps |-> Mov(steps[n].to, steps[n].from)] \o
        AdapterCall(j, ofLr + 8) \o RestoreLR(ofLr) \o AddSp(reserved) \o <<Return(Reg(SP, 8), 0)>>

-----------------------------------------------------------------------------
(* The start of a function, and the handler of traps.                      *)
FrameGrowth(j) == RoundUp(j.frame.locals + 128, 16)
EnteredFunction(j) == AddSp(-FrameGrowth(j)) \o CheckStackFence(Scr[1]) \o PatchStacktrace(j) \o <<Body>>

TrapHandler ==
    <<Mov(Reg(Scr[1], 8), Field("trapStackReentry")), Mov(Reg(SP, 8), Reg(Scr[1], 8)),
      Mov(Reg(Scr[1], 8), Mem(SP, OfTrapCode, 8)), Mov(Mem(Scr[1], 0, 4), Imm("trapCode", 4)), Spoil(<<Scr[1]>>, 8)>>

Code(j) ==
    CASE j.kind = "entry"   -> FunctionEntryPoint(j)
      [] j.kind = "enter"   -> EnteredFunction(j)
      [] j.kind = "call"    -> DirectFncCall(j)
      [] j.kind = "return_call" -> ReturnCall(j)
      [] j.kind = "adapter" -> IF j.callee = "v2" THEN V2ImportAdapter(j) ELSE V1ImportAdapter(j)

-----------------------------------------------------------------------------
(* What the two sides of a call agree on.                                  *)

OwnWidth(j) == IF j.kind \in {"call", "return_call"} THEN j.frame.paramWidth ELSE OldWidth(j)
StartSp(j) == IF j.kind \in {"call", "return_call"} THEN j.frame.paramWidth - j.frame.size ELSE 0
InitialValues(j) ==
    <<<<Reg(SP, 8), PointerTo("sp", StartSp(j))>>>> \o
    (IF j.kind = "entry"
     THEN <<<<Reg(R(0), 8), PointerTo("args", 0)>>, <<Reg(R(1), 8), PointerTo("data", 0)>>,
            <<Reg(R(2), 8), PointerTo("trap", 0)>>, <<Reg(R(3), 8), PointerTo("rets", 0)>>>>
     ELSE <<<<Reg(LM, 8), PointerTo("data", 0)>>, <<Reg(JobMem, 8), PointerTo("data", 0)>>,
            <<Reg(MemSizeReg, 4), Named("memSize", 0)>>>> \o
          If(j.global, <<<<GlobalReg, Named("global", 0)>>>>))
IncomingArguments(j) == Args(j, j.params, FALSE, SP, 0)

Bases == <<Reg(LM, 8), Reg(JobMem, 8)>>
SizeRegister == Reg(MemSizeReg, 8)
SizeKept(j) == TRUE                \* a call of a WebAssembly function does not load it
GlobalRegister == GlobalReg
ReturnAddress == <<Reg(LR, 8)>>
ReturnCell == Mem(SP, 0, 8)
ReturnCellKept(j) == FALSE
Nonvolatile(j) == [n \in DOMAIN NonvolRegs |-> Reg(NonvolRegs[n], 8)]
CallAlignment == 16

CalleeArguments(j) ==
    CASE j.kind = "enter" -> [i \in DOMAIN j.params |-> Source(Homes(j)[i], OldWidth(j) + FrameGrowth(j))]
      [] j.kind = "return_call" /\ CanTailJump(j) -> Args(j, j.params, FALSE, SP, 0)
      [] j.callee = "v2" -> [i \in DOMAIN j.params |-> Mem(R(0), 8 * (i - 1), Size(j.params[i]))]
      [] OTHER -> SubSeq(Targets(j), 1, Len(j.params))
CalleeContext(j) == IF j.callee = "v2" THEN Reg(R(2), 8) ELSE Targets(j)[Len(j.params) + 1]
CalleeResults(j) ==
    IF j.callee = "v2" THEN [n \in DOMAIN j.results |-> Mem(R(1), 8 * (n - 1), Size(j.results[n]))]
    ELSE Results(j.results, SP, StackParamWidth(j, j.params, Imported(j)))
FinalResults(j) ==
    CASE j.kind = "entry" -> [n \in DOMAIN j.results |-> Mem(Host, 8 * (n - 1), Size(j.results[n]))]
      [] j.kind = "call" -> IterateResults(j)
      [] OTHER -> Results(j.results, SP, OwnWidth(j))

(* A host function keeps the lower half of F8 to F15, all that is used.    *)
SpoiledBy(j) ==
    IF Imported(j) THEN {R(n) : n \in 0 .. 18} \cup {LR} \cup {F(n) : n \in (0 .. 7) \cup (16 .. 31)}
    ELSE {Gpr(j.os)[n] : n \in DOMAIN Gpr(j.os)} \cup {F(n) : n \in 0 .. 31} \cup {LR}
RegisterWidth == 8
IntSources == Gpr("linux")
FloatSources == Fpr
=============================================================================
