------------------------------ MODULE CallsX86 ------------------------------
(***************************************************************************)
(* The code around calls on x86-64: every value in one 64-bit register or  *)
(* 8 bytes of stack, the return address on the stack. The native           *)
(* convention is that of Windows (four registers shared by integers and    *)
(* floats, a home space) or the System V one ("posix").                    *)
(***************************************************************************)
EXTENDS CallMachine

LOCAL R(name) == <<name, 0>>
SP == R("RSP")
LOCAL LM == R("RBX")
LOCAL Field(f) == Data(LM, f, 8)
LOCAL Scr == <<R("R13"), R("R14"), R("R15")>>       \* callScrRegs
LOCAL MoveHelper == R("XMM15")

ReturnAddrWidth == 8
Gpr == [n \in 1 .. 13 |-> R(<<"RBP", "RDI", "R9", "R10", "R11", "R12", "R13", "R14", "R15", "RAX", "RDX", "RCX", "R8">>[n])]
Fpr == [n \in 1 .. 15 |-> R(<<"XMM4", "XMM5", "XMM6", "XMM7", "XMM8", "XMM9", "XMM10", "XMM11", "XMM12", "XMM13", "XMM14",
                              "XMM0", "XMM1", "XMM2", "XMM3">>[n])]
RegsForParams == 4
GpRetRegs == <<R("RAX"), R("RCX")>>
FpRetRegs == <<R("XMM0"), R("XMM1")>>

NativeGp(os) == IF os = "posix" THEN <<R("RDI"), R("RSI"), R("RDX"), R("RCX"), R("R8"), R("R9")>>
                ELSE <<R("RCX"), R("RDX"), R("R8"), R("R9")>>
NativeFl(os) == [n \in 1 .. (IF os = "posix" THEN 8 ELSE 4) |->
                    R(<<"XMM0", "XMM1", "XMM2", "XMM3", "XMM4", "XMM5", "XMM6", "XMM7">>[n])]
Shadow(os) == IF os = "posix" THEN 0 ELSE 32
NonvolGPRs(os) == IF os = "posix" THEN <<R("RBX"), R("RBP"), R("R12"), R("R13"), R("R14"), R("R15")>>
                  ELSE <<R("RBX"), R("RBP"), R("RDI"), R("RSI"), R("R12"), R("R13"), R("R14"), R("R15")>>
NonvolFPRs(os) == IF os = "posix" THEN <<>>
                  ELSE [n \in 1 .. 10 |-> R(<<"XMM6", "XMM7", "XMM8", "XMM9", "XMM10", "XMM11", "XMM12", "XMM13", "XMM14",
                                              "XMM15">>[n])]

-----------------------------------------------------------------------------
(* Where arguments and results are.                                        *)

NoReg == R("")
Tracker == [gpr |-> 0, fpr |-> 0, bytes |-> 0]
Start(j) == IF j.global THEN 1 ELSE 0
Nth(regs, n) == IF n < Len(regs) THEN regs[n + 1] ELSE NoReg

REGForArg(j, type, imported, t) ==
    CASE imported  -> LET n == IF j.os = "windows" THEN t.gpr + t.fpr ELSE IF IsInt(type) THEN t.gpr ELSE t.fpr
                      IN  Nth(IF IsInt(type) THEN NativeGp(j.os) ELSE NativeFl(j.os), n)
      [] ~imported /\ ~j.debug /\ IsInt(type) /\ t.gpr < RegsForParams -> Gpr[Start(j) + t.gpr + 1]
      [] ~imported /\ ~j.debug /\ ~IsInt(type) /\ t.fpr < RegsForParams -> Fpr[t.fpr + 1]
      [] OTHER -> NoReg

Taken(t, type, reg) == [gpr |-> t.gpr + (IF reg # NoReg /\ IsInt(type) THEN 1 ELSE 0),
                        fpr |-> t.fpr + (IF reg # NoReg /\ ~IsInt(type) THEN 1 ELSE 0),
                        bytes |-> t.bytes + (IF reg = NoReg THEN 8 ELSE 0)]
Trackers(j, params, imported) ==
    FoldLeft(LAMBDA acc, type :
                 Append(acc, Taken(acc[Len(acc)], type, REGForArg(j, type, imported, acc[Len(acc)]))),
             <<Tracker>>, params)

(* An import has the context as one argument more.                         *)
WithContext(params, imported) == IF imported THEN Append(params, "i64") ELSE params
StackParamWidth(j, params, imported) ==
    LET all == WithContext(params, imported) IN Trackers(j, all, imported)[Len(all) + 1].bytes
(* A faulty variant: every convention counts upwards.                      *)
OffsetInStackArgsUpwards(imported, paramWidth, t) == t.bytes
OffsetInStackArgs(imported, paramWidth, t) == IF imported THEN t.bytes ELSE paramWidth - 8 - t.bytes

(* The places of the arguments (with the context, if imported).            *)
Args(j, params, imported, base, d) ==
    LET all == WithContext(params, imported)
        ts == Trackers(j, all, imported)
        width == ts[Len(all) + 1].bytes
    IN  [i \in DOMAIN all |->
            LET reg == REGForArg(j, all[i], imported, ts[i])
            IN  IF reg # NoReg THEN Reg(reg, Size(all[i]))
                ELSE Mem(base, d + OffsetInStackArgs(imported, width, ts[i]), Size(all[i]))]

(* Where a function looks for its own parameters.                          *)
AllocateLocal(j, params) ==
    FoldLeft(LAMBDA acc, type :
                LET regs == IF IsInt(type) THEN Gpr ELSE Fpr
                    n == IF IsInt(type) THEN acc.gpr ELSE acc.fpr
                IN  IF ~j.debug /\ n < RegsForParams
                    THEN [gpr |-> IF IsInt(type) THEN n + 1 ELSE acc.gpr, fpr |-> IF IsInt(type) THEN acc.fpr ELSE n + 1,
                          size |-> acc.size,
                          homes |-> Append(acc.homes, Reg(regs[(IF IsInt(type) THEN Start(j) ELSE 0) + n + 1], Size(type)))]
                    ELSE [gpr |-> acc.gpr, fpr |-> acc.fpr, size |-> acc.size + 8,
                          homes |-> Append(acc.homes, Pos(acc.size + 8, Size(type)))],
             [gpr |-> 0, fpr |-> 0, size |-> 0, homes |-> <<>>], params)
Homes(j) == AllocateLocal(j, j.params).homes

REGForReturnValue(type, t) == IF IsInt(type) THEN Nth(GpRetRegs, t.gpr) ELSE Nth(FpRetRegs, t.fpr)
Results(results, base, d) ==
    LET ts == FoldLeft(LAMBDA acc, type :
                           Append(acc, Taken(acc[Len(acc)], type, REGForReturnValue(type, acc[Len(acc)]))),
                       <<Tracker>>, results)
    IN  [n \in DOMAIN results |->
            LET reg == REGForReturnValue(results[n], ts[n])
            IN  IF reg # NoReg THEN Reg(reg, Size(results[n])) ELSE Mem(base, d + ts[n].bytes, Size(results[n]))]
StackReturnValueWidth(results) == 8 * Cardinality({n \in DOMAIN results : Results(results, SP, 0)[n].k = "mem"})

Slots(types, d) == [i \in DOMAIN types |-> Mem(SP, d + 8 * (i - 1), Size(types[i]))]

-----------------------------------------------------------------------------
(* Pieces.                                                                 *)

CacheJobMemoryPtrPtr(offset) ==
    <<Mov(Reg(Scr[1], 8), Field("jobMemoryDataPtrPtr")), Mov(Mem(SP, offset, 8), Reg(Scr[1], 8))>>
RestoreFromJobMemoryPtrPtr(offset) == <<Rebase(<<Reg(LM, 8)>>, Mem(SP, offset, 8))>>

ShallRecordStacktrace(j) == j.trace \/ j.debug
PushStacktrace(j, index, offset) ==
    If(ShallRecordStacktrace(j),
       If(j.debug, <<Mov(Mem(SP, offset + 12, 4), Imm("toStartOfFrame", 4)),
                     Mov(Mem(SP, offset + 16, 4), Imm("bytecodePos", 4))>>) \o
       <<Mov(Reg(Scr[1], 8), Field("lastFrameRef")), Mov(Mem(SP, offset, 8), Reg(Scr[1], 8))>> \o
       If(index # "unknown", <<Mov(Mem(SP, offset + 8, 4), Imm(index, 4))>>) \o
       <<Lea(Reg(Scr[1], 8), SP, offset), Mov(Field("lastFrameRef"), Reg(Scr[1], 8))>>)
PopStacktrace(j, offset) ==
    If(ShallRecordStacktrace(j), <<Mov(Reg(Scr[1], 8), Mem(SP, offset, 8)), Mov(Field("lastFrameRef"), Reg(Scr[1], 8))>>)
PatchStacktrace(j) ==
    If(ShallRecordStacktrace(j), <<Mov(Reg(Scr[1], 8), Field("lastFrameRef")), Mov(Mem(Scr[1], 8, 4), Imm("callee", 4))>>)

GlobalReg == Reg(Gpr[1], 4)
MoveGlobals(global) == If(global, <<Mov(Data(LM, "global", 4), GlobalReg)>>)
(* A faulty variant: the register of the global keeps what it holds.       *)
RecoverGlobalsForgotten(global) == <<>>
RecoverGlobals(global) == If(global, <<Mov(GlobalReg, Data(LM, "global", 4))>>)
SetupMemSize == <<Mov(Reg(R("RSI"), 4), Data(LM, "memSize", 4))>>
AddSp(d) == If(d # 0, <<Lea(Reg(SP, 8), SP, d)>>)

(* emitMoveImpl: through the move helper from memory to memory.            *)
Move(to, from) ==
    IF to.k = "mem" /\ from.k \in {"mem", "data"}
    THEN If(to # from, <<Mov(Reg(MoveHelper, to.w), from), Mov(to, Reg(MoveHelper, to.w))>>)
    ELSE If(~SameRegister(to, from), <<Mov(to, from)>>)
(* In the adapters integers go through a scratch register.                 *)
Through(to, from, scr) == <<Mov(Reg(scr, to.w), from), Mov(to, Reg(scr, to.w))>>

(* selectDefaultParallelMoveTemp, without the register of an index. The    *)
(* moves of the resolver: a swap is one instruction between two places of  *)
(* which one is a general register, and else goes through a helper (of a   *)
(* tail call the first temporary, as none takes part in a cycle).          *)
TempGprs == <<R("RAX"), R("RCX"), R("R8")>>
Temps == [type \in {"i32", "f32", "i64", "f64"} |->
             LET regs == IF IsInt(type) THEN TempGprs ELSE SubSeq(Fpr, 12, 15)
             IN  [n \in DOMAIN regs |-> Reg(regs[n], Size(type))]]
Exchange(step, helper) ==
    <<Swap(step.to, step.from)>> \o
    If(~IsInt(step.type) \/ (step.to.k = "mem" /\ step.from.k = "mem"), <<Spoil(<<helper>>, 8)>>)
Resolve(copies, way, helper) ==
    LET steps == Resolved(Pushed(copies), way, Temps)
    IN  Concat([n \in DOMAIN steps |-> IF steps[n].op = "swap" THEN Exchange(steps[n], helper)
                                       ELSE Move(steps[n].to, steps[n].from)])

(* The address of a statically linked function is loaded first.            *)
RawFunctionCall(imported) == IF imported THEN <<Spoil(<<Scr[1]>>, 8), CallHost>> ELSE <<CallWasm>>
IndirectWasmTargetAddress == <<Target(Reg(R("RDX"), 4)), Spoil(<<Scr[1], Scr[2]>>, 8)>>

-----------------------------------------------------------------------------
(* Calls out of a WebAssembly function.                                    *)

AlignStackFrameSize(j, size) == RoundUp(size - j.frame.paramWidth, 16) + j.frame.paramWidth
At(p, size, w) == Mem(SP, size - p, w)
Source(source, size) == IF source.k = "pos" THEN At(source.d, size, source.w) ELSE source

Imported(j) == j.callee \in {"v1", "v2"}
OfStackParams(j) == IF Imported(j) THEN Shadow(j.os) ELSE 0
ParamWidthOf(j) == IF j.callee = "v2" THEN 8 * Len(j.params) ELSE StackParamWidth(j, j.params, Imported(j))
ReturnWidthOf(j) == IF j.callee = "v2" THEN 8 * Len(j.results) ELSE StackReturnValueWidth(j.results)

(* | Shadow Space | Stack Params | Stack Return values | Record + Debug |  *)
(* | jobMemoryPtrPtr | Padding |                                           *)
OfReturnValues(j) == OfStackParams(j) + ParamWidthOf(j)
OfRecord(j) == OfReturnValues(j) + ReturnWidthOf(j)
OfJobPtr(j) == OfRecord(j) + (IF ShallRecordStacktrace(j) THEN 16 ELSE 0) + (IF j.debug THEN 8 ELSE 0)
FrameSize(j) == AlignStackFrameSize(j, j.frame.lastMax + OfJobPtr(j) + 8)
PrepareStackFrame(j) == AddSp(j.frame.size - FrameSize(j))

Sources(j) == [i \in DOMAIN j.params |-> Source(j.sources[i], FrameSize(j))]
V2Params(j) == Concat([i \in DOMAIN j.params |-> Move(Slots(j.params, OfStackParams(j))[i], Sources(j)[i])])
V2Pointers(j, ofParams, ofReturns) ==
    <<Lea(Reg(NativeGp(j.os)[1], 8), SP, ofParams), Lea(Reg(NativeGp(j.os)[2], 8), SP, ofReturns),
      Mov(Reg(NativeGp(j.os)[3], 8), Field("ctx"))>>

IndexCopy(j, size) == If(j.callee = "indirect", <<Copy(Reg(R("RDX"), 4), Source(j.index, size), "i32")>>)
Targets(j) == Args(j, j.params, Imported(j), SP, OfStackParams(j))
WithCtx(j) == IF Imported(j) THEN Append(Sources(j), Field("ctx")) ELSE Sources(j)
V1Stores(j) ==
    Concat([i \in DOMAIN Targets(j) |-> If(Targets(j)[i].k = "mem", Move(Targets(j)[i], WithCtx(j)[i]))])
V1Copies(j) ==
    LET types == WithContext(j.params, Imported(j))
        copies == [i \in DOMAIN Targets(j) |-> Copy(Targets(j)[i], WithCtx(j)[i], types[i])]
    IN  Resolve(SelectSeq(copies, LAMBDA c : c.to.k = "reg") \o IndexCopy(j, FrameSize(j)), "swap", Scr[1])

FncCallWrapper(j) ==
    PushStacktrace(j, IF j.callee = "indirect" THEN "unknown" ELSE "callee", OfRecord(j)) \o
    If(Imported(j), CacheJobMemoryPtrPtr(OfJobPtr(j))) \o
    (IF j.callee = "indirect" THEN IndirectWasmTargetAddress \o <<CallWasm>> ELSE RawFunctionCall(Imported(j))) \o
    If(Imported(j), RestoreFromJobMemoryPtrPtr(OfJobPtr(j))) \o
    PopStacktrace(j, OfRecord(j))

DirectFncCall(j) ==
    If(Imported(j), MoveGlobals(j.global)) \o PrepareStackFrame(j) \o
    (IF j.callee = "v2" THEN V2Params(j) \o V2Pointers(j, OfStackParams(j), OfReturnValues(j))
                        ELSE V1Stores(j) \o V1Copies(j)) \o
    FncCallWrapper(j) \o SetupMemSize \o If(Imported(j), RecoverGlobals(j.global))

IterateResults(j) == IF j.callee = "v2" THEN Slots(j.results, OfReturnValues(j))
                                        ELSE Results(j.results, SP, OfReturnValues(j))

-----------------------------------------------------------------------------
(* Return and tail calls.                                                  *)

SizeBeforeReturn(j) == j.frame.paramWidth + ReturnAddrWidth
ReturnAndUnwind(j, size) == AddSp(size - SizeBeforeReturn(j)) \o <<Return(Reg(SP, 8), ReturnAddrWidth)>>

(* The results are left right above the parameters.                        *)
LoadReturnValues(j, size) ==
    Concat([n \in DOMAIN j.results |-> Move(Results(j.results, SP, size)[n], IterateResults(j)[n])])

CanTailJump(j) ==
    /\ ~Imported(j)
    /\ \/ ParamWidthOf(j) = j.frame.paramWidth
       \/ StackReturnValueWidth(j.results) = 0 /\ ParamWidthOf(j) < j.frame.paramWidth

TailTargets(j) ==
    [i \in DOMAIN j.params |->
        IF Targets(j)[i].k = "reg" THEN Targets(j)[i]
        ELSE At(j.frame.paramWidth - Targets(j)[i].d, j.frame.size, Size(j.params[i]))]
TailJump(j) ==
    Resolve([i \in DOMAIN j.params |-> Copy(TailTargets(j)[i], Source(j.sources[i], j.frame.size), j.params[i])]
            \o IndexCopy(j, j.frame.size), IF j.callee = "indirect" THEN "temp" ELSE "swap", TempGprs[1]) \o
    AddSp(j.frame.size - SizeBeforeReturn(j)) \o
    If(j.callee = "indirect", IndirectWasmTargetAddress) \o <<Jump>>

ReturnCall(j) ==
    IF CanTailJump(j) THEN TailJump(j)
    ELSE DirectFncCall(j) \o LoadReturnValues(j, FrameSize(j)) \o ReturnAndUnwind(j, FrameSize(j))

-----------------------------------------------------------------------------
(* The wrapper that the host calls with the argument array, the base of    *)
(* the linear memory, the address of the trap code and the result array.   *)

OfTrapCode == 0
OfEntryRecord == 8
OfEntryJobPtr == OfEntryRecord + 16 + 8
OfReturnValuesPtr == OfEntryJobPtr + 8
EntryReserved == RoundUp(OfReturnValuesPtr + 8, 8)

SpillBytes(os) == 8 * Len(NonvolGPRs(os)) + 16 * Len(NonvolFPRs(os))
SpilledRegs(os) ==
    [n \in DOMAIN NonvolGPRs(os) |-> <<Mem(SP, 8 * (n - 1), 8), Reg(NonvolGPRs(os)[n], 8)>>] \o
    [n \in DOMAIN NonvolFPRs(os) |-> <<Mem(SP, 8 * Len(NonvolGPRs(os)) + 16 * (n - 1), 16), Reg(NonvolFPRs(os)[n], 16)>>]
SpillRegs(os) == [n \in DOMAIN SpilledRegs(os) |-> Mov(SpilledRegs(os)[n][1], SpilledRegs(os)[n][2])]
RestoreRegs(os) == [n \in DOMAIN SpilledRegs(os) |-> Mov(SpilledRegs(os)[n][2], SpilledRegs(os)[n][1])]

EntryProlog(j) ==
    AddSp(-SpillBytes(j.os)) \o SpillRegs(j.os) \o
    <<Mov(Reg(Scr[3], 8), Reg(NativeGp(j.os)[1], 8)), Mov(Reg(LM, 8), Reg(NativeGp(j.os)[2], 8))>> \o
    SetupMemSize \o RecoverGlobals(j.global) \o AddSp(-EntryReserved) \o
    PushStacktrace(j, "callee", OfEntryRecord) \o
    If(Imported(j), CacheJobMemoryPtrPtr(OfEntryJobPtr)) \o
    <<Mov(Mem(SP, OfTrapCode, 8), Reg(NativeGp(j.os)[3], 8)),
      Mov(Mem(SP, OfReturnValuesPtr, 8), Reg(NativeGp(j.os)[4], 8)),
      EnterFrame(Reg(SP, 8), Field("trapStackReentry")), Spoil(<<Scr[1]>>, 8)>>

(* The wrapper has the V1 convention for every import.                     *)
EntryParamWidth(j) == StackParamWidth(j, j.params, Imported(j))
EntryReservation(j) ==
    LET needed == OfStackParams(j) + EntryParamWidth(j) + StackReturnValueWidth(j.results)
        outside == 8 + SpillBytes(j.os) + EntryReserved
    IN  RoundUp(needed + outside, 16) - outside

EntryParams(j) ==
    LET args == Args(j, j.params, Imported(j), SP, OfStackParams(j))
        from == [i \in DOMAIN args |-> IF i <= Len(j.params) THEN Mem(Scr[3], 8 * (i - 1), args[i].w) ELSE Field("ctx")]
    IN  Concat([i \in DOMAIN args |-> IF args[i].k = "reg" THEN <<Mov(args[i], from[i])>>
                                      ELSE Through(args[i], from[i], Scr[1])])
EntryResults(j) ==
    LET places == Results(j.results, SP, OfStackParams(j) + EntryParamWidth(j))
        slot(n) == Mem(Scr[2], 8 * (n - 1), places[n].w)
    IN  <<Mov(Reg(Scr[2], 8), Mem(SP, OfReturnValuesPtr + EntryReservation(j), 8))>> \o
        Concat([n \in DOMAIN places |-> IF places[n].k = "reg" THEN <<Mov(slot(n), places[n])>>
                                        ELSE Through(slot(n), places[n], Scr[1])])

FunctionEntryPoint(j) ==
    EntryProlog(j) \o AddSp(-EntryReservation(j)) \o
    EntryParams(j) \o RawFunctionCall(Imported(j)) \o EntryResults(j) \o AddSp(EntryReservation(j)) \o
    If(Imported(j), RestoreFromJobMemoryPtrPtr(OfEntryJobPtr)) \o
    PopStacktrace(j, OfEntryRecord) \o
    <<TrapEntry>> \o MoveGlobals(j.global) \o <<LeaveFrame(Reg(SP, 8), Field("trapStackReentry"))>> \o
    AddSp(EntryReserved) \o RestoreRegs(j.os) \o AddSp(SpillBytes(j.os)) \o <<Return(Reg(SP, 8), ReturnAddrWidth)>>

-----------------------------------------------------------------------------
(* The adapters through which a table entry reaches a host function.       *)

OldWidth(j) == StackParamWidth(j, j.params, FALSE)

AdapterCall(j, ofJobPtr) ==
    PatchStacktrace(j) \o CacheJobMemoryPtrPtr(ofJobPtr) \o RawFunctionCall(TRUE) \o
    RestoreFromJobMemoryPtrPtr(ofJobPtr) \o RecoverGlobals(j.global)

V2ImportAdapter(j) ==
    LET ofReturns == Shadow(j.os) + 8 * Len(j.params)
        ofJobPtr == ofReturns + 8 * Len(j.results)
        reserved == RoundUp(ofJobPtr + 8 + 8, 16) - 8
        old == Args(j, j.params, FALSE, SP, reserved + 8)
        rets == Results(j.results, SP, reserved + 8 + OldWidth(j))
        scr(type) == IF IsInt(type) THEN Scr[1] ELSE MoveHelper
        moved(to, from, type) == IF to.k = "reg" \/ from.k = "reg" THEN <<Mov(to, from)>> ELSE Through(to, from, scr(type))
    IN  MoveGlobals(j.global) \o AddSp(-reserved) \o
        Concat([i \in DOMAIN j.params |-> moved(Slots(j.params, Shadow(j.os))[i], old[i], j.params[i])]) \o
        V2Pointers(j, Shadow(j.os), ofReturns) \o AdapterCall(j, ofJobPtr) \o
        Concat([n \in DOMAIN j.results |-> moved(rets[n], Slots(j.results, ofReturns)[n], j.results[n])]) \o
        AddSp(reserved) \o <<Return(Reg(SP, 8), ReturnAddrWidth)>>

(* What goes to the stack and to floating-point registers at once, the     *)
(* others through a resolver that is not asked to break cycles.            *)
V1ImportAdapter(j) ==
    LET ofJobPtr == Shadow(j.os) + StackParamWidth(j, j.params, TRUE)
        reserved == RoundUp(ofJobPtr + 8 + 8, 16) - 8
        to == Args(j, j.params, TRUE, SP, Shadow(j.os))
        from == Append(Args(j, j.params, FALSE, SP, reserved + 8), Field("ctx"))
        atOnce(i) == to[i].k = "mem" \/ (i <= Len(j.params) /\ ~IsInt(j.params[i]))
        moved(i) == IF to[i].k = "reg" \/ from[i].k = "reg" THEN If(~SameRegister(to[i], from[i]), <<Mov(to[i], from[i])>>)
                    ELSE Through(to[i], from[i], Scr[1])
        types == WithContext(j.params, TRUE)
        copies == SelectSeq([i \in DOMAIN to |-> i], LAMBDA i : ~atOnce(i))
        steps == Resolved(Pushed([n \in DOMAIN copies |-> Copy(to[copies[n]], from[copies[n]], types[copies[n]])]),
                          "linear", Temps)
    IN  MoveGlobals(j.global) \o AddSp(-reserved) \o
        Concat([i \in DOMAIN to |-> If(atOnce(i), moved(i))]) \o
        [n \in DOMAIN steps |-> Mov(steps[n].to, steps[n].from)] \o
        AdapterCall(j, ofJobPtr) \o AddSp(reserved) \o <<Return(Reg(SP, 8), ReturnAddrWidth)>>

-----------------------------------------------------------------------------
(* The start of a function, and the handler of traps.                      *)
GrownFrame(j) == RoundUp(ReturnAddrWidth + j.frame.locals + 128, 16) + OldWidth(j)
EnteredFunction(j) ==
    AddSp(OldWidth(j) + ReturnAddrWidth - GrownFrame(j)) \o PatchStacktrace(j) \o <<Body>>

TrapHandler ==
    <<Mov(Reg(SP, 8), Field("trapStackReentry")), Mov(Reg(Scr[1], 8), Mem(SP, OfTrapCode, 8)),
      Mov(Mem(Scr[1], 0, 4), Imm("trapCode", 4))>>

Code(j) ==
    CASE j.kind = "entry"   -> FunctionEntryPoint(j)
      [] j.kind = "enter"   -> EnteredFunction(j)
      [] j.kind = "call"    -> DirectFncCall(j)
      [] j.kind = "return_call" -> ReturnCall(j)
      [] j.kind = "adapter" -> IF j.callee = "v2" THEN V2ImportAdapter(j) ELSE V1ImportAdapter(j)

-----------------------------------------------------------------------------
(* What the two sides of a call agree on.                                  *)

OwnWidth(j) == IF j.kind \in {"call", "return_call"} THEN j.frame.paramWidth ELSE OldWidth(j)
StartSp(j) == IF j.kind \in {"call", "return_call"} THEN j.frame.paramWidth - j.frame.size ELSE -ReturnAddrWidth
InitialValues(j) ==
    <<<<Reg(SP, 8), PointerTo("sp", StartSp(j))>>>> \o
    (IF j.kind = "entry"
     THEN <<<<Reg(NativeGp(j.os)[1], 8), PointerTo("args", 0)>>, <<Reg(NativeGp(j.os)[2], 8), PointerTo("data", 0)>>,
            <<Reg(NativeGp(j.os)[3], 8), PointerTo("trap", 0)>>, <<Reg(NativeGp(j.os)[4], 8), PointerTo("rets", 0)>>>>
     ELSE <<<<Reg(LM, 8), PointerTo("data", 0)>>, <<Reg(R("RSI"), 4), Named("memSize", 0)>>>> \o
          If(j.global, <<<<GlobalReg, Named("global", 0)>>>>))
IncomingArguments(j) == Args(j, j.params, FALSE, SP, ReturnAddrWidth)

Bases == <<Reg(LM, 8)>>
SizeRegister == Reg(R("RSI"), 8)
SizeKept(j) == FALSE             \* every call is followed by a load of it
GlobalRegister == GlobalReg
ReturnAddress == <<>>
ReturnCell == Mem(SP, 0, 8)
ReturnCellKept(j) == TRUE
Nonvolatile(j) == [n \in DOMAIN SpilledRegs(j.os) |-> SpilledRegs(j.os)[n][2]]
CallAlignment == 16

CalleeArguments(j) ==
    CASE j.kind = "enter" -> [i \in DOMAIN j.params |-> Source(Homes(j)[i], GrownFrame(j))]
      [] j.kind = "return_call" /\ CanTailJump(j) -> Args(j, j.params, FALSE, SP, ReturnAddrWidth)
      [] j.callee = "v2" -> [i \in DOMAIN j.params |-> Mem(NativeGp(j.os)[1], 8 * (i - 1), Size(j.params[i]))]
      [] OTHER -> SubSeq(Targets(j), 1, Len(j.params))
CalleeContext(j) == IF j.callee = "v2" THEN Reg(NativeGp(j.os)[3], 8) ELSE Targets(j)[Len(j.params) + 1]
CalleeResults(j) ==
    IF j.callee = "v2" THEN [n \in DOMAIN j.results |-> Mem(NativeGp(j.os)[2], 8 * (n - 1), Size(j.results[n]))]
    ELSE Results(j.results, SP, OfStackParams(j) + StackParamWidth(j, j.params, Imported(j)))
FinalResults(j) ==
    CASE j.kind = "entry" -> [n \in DOMAIN j.results |-> Mem(Host, 8 * (n - 1), Size(j.results[n]))]
      [] j.kind = "call" -> IterateResults(j)
      [] OTHER -> Results(j.results, SP, OwnWidth(j))

Volatile(os) == {R("RAX"), R("RCX"), R("RDX"), R("R8"), R("R9"), R("R10"), R("R11"), R("XMM0"), R("XMM1"), R("XMM2"),
                 R("XMM3"), R("XMM4"), R("XMM5")} \cup
                (IF os = "windows" THEN {}
                 ELSE {R("RDI"), R("RSI"), R("XMM6"), R("XMM7"), R("XMM8"), R("XMM9"), R("XMM10"), R("XMM11"), R("XMM12"),
                       R("XMM13"), R("XMM14"), R("XMM15")})
SpoiledBy(j) == IF Imported(j) THEN Volatile(j.os)
                ELSE {Gpr[n] : n \in DOMAIN Gpr} \cup {Fpr[n] : n \in DOMAIN Fpr} \cup {R("RSI"), MoveHelper}
RegisterWidth == 8
IntSources == Gpr
FloatSources == Fpr
=============================================================================
