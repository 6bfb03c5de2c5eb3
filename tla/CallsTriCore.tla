---------------------------- MODULE CallsTriCore ----------------------------
(***************************************************************************)
(* The code around calls on TriCore: addresses in A registers, everything  *)
(* else in D registers, 64-bit values in register pairs or 8 bytes of      *)
(* stack, 32-bit values in 4. A WebAssembly function is reached by FCALL,  *)
(* which pushes A11 and nothing else; a host function by CALL, with which  *)
(* the hardware saves and restores the upper registers.                    *)
(***************************************************************************)
EXTENDS CallMachine

LOCAL D(n) == <<"D", n>>
LOCAL A(n) == <<"A", n>>
SP == A(10)
LOCAL LM == A(2)                       \* WasmABI::REGS::linMem
LOCAL Field(f) == Data(LM, f, 4)
LOCAL Scratch == <<D(14), D(15), D(1)>>     \* callScrRegs
LOCAL PreferredScr == D(15)
LOCAL AddrScr == <<A(12), A(13), A(7)>>
ReturnAddrWidth == 4
StackAdjustAfterCall == 4
Record == 8                          \* Widths::stacktraceRecord, reserved in any case
JobPtr == 4                          \* Widths::jobMemoryPtrPtr

Dr == <<8, 9, 6, 7, 10, 11, 12, 13, 14, 15, 0, 1, 2, 3, 4, 5>>
RegsForParams == 7
ParamRegs == <<4, 5, 6, 7>>
ReturnRegs == <<2, 3>>

-----------------------------------------------------------------------------
(* Where arguments and results are. "start" is the number of registers     *)
(* taken by globals.                                                       *)

NoReg == -1
Tracker == [drs |-> 0, missed |-> NoReg, bytes |-> 0]

(* The index of the pair a 64-bit argument would take: an even one.        *)
PairIndex(t) == IF t.drs % 2 = 0 THEN t.drs ELSE t.drs + 1
PairFits(t) == t.drs < Len(ParamRegs) /\ PairIndex(t) + 1 < Len(ParamRegs)

REGForArg(type, imported, start, t) ==
    IF imported
    THEN IF Is64(type)
         THEN IF PairFits(t) THEN ParamRegs[PairIndex(t) + 1] ELSE NoReg
         ELSE IF t.missed # NoReg THEN t.missed
              ELSE IF t.drs < Len(ParamRegs) THEN ParamRegs[t.drs + 1] ELSE NoReg
    ELSE IF ~Is64(type) /\ t.drs < RegsForParams THEN Dr[start + t.drs + 1] ELSE NoReg

AfterArg(type, imported, start, t) ==
    LET reg == REGForArg(type, imported, start, t)
        drs == t.drs + (IF reg = NoReg THEN 0 ELSE IF Is64(type) THEN 2 ELSE 1)
        missed == IF reg = NoReg THEN t.missed
                  ELSE IF ~Is64(type) THEN NoReg   \* consumed, or none
                  ELSE IF PairIndex(t) > t.drs THEN ParamRegs[t.drs + 1] ELSE NoReg
    IN  [drs |-> drs, missed |-> missed,
         bytes |-> t.bytes + (IF reg = NoReg THEN Size(type) ELSE 0)]

(* The trackers before each argument, and after the last.                  *)
Trackers(params, imported, start) ==
    FoldLeft(LAMBDA acc, type : Append(acc, AfterArg(type, imported, start, acc[Len(acc)])),
             <<Tracker>>, params)

StackParamWidth(params, imported, start) ==
    Trackers(params, imported, start)[Len(params) + 1].bytes

OffsetInStackArgs(type, imported, paramWidth, t) ==
    IF imported THEN t.bytes ELSE paramWidth - t.bytes - Size(type)

(* The places of the arguments, on the stack relative to an address that   *)
(* is "base" plus "d".                                                     *)
Args(params, imported, start, base, d) ==
    LET ts == Trackers(params, imported, start)
        width == ts[Len(params) + 1].bytes
    IN  [i \in DOMAIN params |->
            LET reg == REGForArg(params[i], imported, start, ts[i])
            IN  IF reg # NoReg THEN Reg(D(reg), Size(params[i]))
                ELSE Mem(base, d + OffsetInStackArgs(params[i], imported, width, ts[i]), Size(params[i]))]

(* Where a function looks for its own parameters: the first seven of 32    *)
(* bits in registers, the others at positions counted from the top of the  *)
(* parameters downwards.                                                   *)
AllocateLocal(params, start) ==
    FoldLeft(LAMBDA acc, type :
                IF Size(type) = 4 /\ acc.inDr < RegsForParams
                THEN [inDr |-> acc.inDr + 1, size |-> acc.size,
                      defs |-> Append(acc.defs, [reg |-> Dr[start + acc.inDr + 1], position |-> 0])]
                ELSE [inDr |-> acc.inDr, size |-> acc.size + Size(type),
                      defs |-> Append(acc.defs, [reg |-> NoReg, position |-> acc.size + Size(type)])],
             [inDr |-> 0, size |-> 0, defs |-> <<>>], params)
Homes(params, start) ==
    LET defs == AllocateLocal(params, start).defs
    IN  [i \in DOMAIN params |-> IF defs[i].reg # NoReg THEN Reg(D(defs[i].reg), 4)
                                 ELSE Pos(defs[i].position, Size(params[i]))]

REGForReturnValue(type, t) ==
    IF Is64(type) THEN IF t.drs < Len(ReturnRegs) THEN ReturnRegs[t.drs + 1] ELSE NoReg
    ELSE IF t.missed # NoReg THEN t.missed
         ELSE IF t.drs < Len(ReturnRegs) - 1 THEN ReturnRegs[t.drs + 1] ELSE NoReg
AfterReturnValue(type, t) ==
    LET reg == REGForReturnValue(type, t)
        fresh == reg # NoReg /\ (Is64(type) \/ t.missed = NoReg)
    IN  [drs |-> IF fresh THEN t.drs + 2 ELSE t.drs,
         missed |-> IF Is64(type) THEN t.missed
                    ELSE IF fresh THEN ReturnRegs[t.drs + 2]
                    ELSE IF reg # NoReg THEN NoReg ELSE t.missed,
         bytes |-> t.bytes + (IF reg = NoReg THEN Size(type) ELSE 0)]

(* The places of the results: a register, or from base + d upwards.        *)
Results(results, base, d) ==
    LET ts == FoldLeft(LAMBDA acc, type : Append(acc, AfterReturnValue(type, acc[Len(acc)])),
                       <<Tracker>>, results)
    IN  [j \in DOMAIN results |->
            LET reg == REGForReturnValue(results[j], ts[j])
            IN  IF reg # NoReg THEN Reg(D(reg), Size(results[j]))
                ELSE Mem(base, d + ts[j].bytes, Size(results[j]))]

(* Common's width of the results on the stack: 8 bytes for each, on every  *)
(* target.                                                                 *)
StackReturnValueWidth(results) ==
    8 * Cardinality({j \in DOMAIN results : Results(results, SP, 0)[j].k = "mem"})

(* 8-byte slots, for the arrays of a V2 import.                            *)
Slots(types, d) == [i \in DOMAIN types |-> Mem(SP, d + 8 * (i - 1), Size(types[i]))]

-----------------------------------------------------------------------------
(* Pieces.                                                                 *)

CacheJobMemoryPtrPtr(offset, scr) ==
    <<Mov(Reg(scr, 4), Field("jobMemoryDataPtrPtr")), Mov(Mem(SP, offset, 4), Reg(scr, 4))>>
RestoreFromJobMemoryPtrPtr(offset) == <<Rebase(<<Reg(LM, 4)>>, Mem(SP, offset, 4))>>

PushStacktrace(trace, index, offset) ==
    If(trace, <<Lea(Reg(AddrScr[1], 4), SP, offset),
                Mov(Reg(Scratch[1], 4), Field("lastFrameRef"))>> \o
              If(index # "unknown", <<Mov(Reg(Scratch[2], 4), Imm(index, 4))>>) \o
              <<Mov(Mem(AddrScr[1], 0, 8), Reg(Scratch[1], 8)),
                Mov(Field("lastFrameRef"), Reg(AddrScr[1], 4))>>)
PopStacktrace(trace, offset, scr) ==
    If(trace, <<Mov(Reg(scr, 4), Mem(SP, offset, 4)), Mov(Field("lastFrameRef"), Reg(scr, 4))>>)
PatchStacktrace(trace, index, addrScr, scr) ==
    If(trace, <<Mov(Reg(addrScr, 4), Field("lastFrameRef")),
                Mov(Reg(scr, 4), Imm(index, 4)), Mov(Mem(addrScr, 4, 4), Reg(scr, 4))>>)

MoveGlobals(global) == If(global, <<Mov(Field("global"), Reg(D(Dr[1]), 4))>>)
RecoverGlobals(global) == If(global, <<Mov(Reg(D(Dr[1]), 4), Field("global"))>>)
SetupMemSize == <<Mov(Reg(A(3), 4), Field("memSize"))>>
CheckStackFence(dataScr, addrScr) == <<Spoil(<<dataScr, addrScr>>, 4)>>
AddSp(d) == If(d # 0, <<Lea(Reg(SP, 4), SP, d)>>)

(* emitMoveImpl: through a pair of address registers from stack to stack.  *)
Move(to, from) == If(~SameRegister(to, from),
    <<Mov(to, from)>> \o If(to.k = "mem" /\ from.k # "reg", <<Spoil(<<A(12), A(13)>>, 4)>>))

(* selectDefaultParallelMoveTemp, from D0 to D5 without D0, and the moves  *)
(* of the resolver.                                                        *)
Temps == [type \in {"i32", "f32", "i64", "f64"} |->
             IF Is64(type) THEN <<Reg(D(2), 8), Reg(D(4), 8)>> ELSE [n \in 1 .. 5 |-> Reg(D(n), 4)]]
Resolve(copies) ==
    LET steps == Resolved(Pushed(copies), "temp", Temps)
    IN  Concat([n \in DOMAIN steps |-> Move(steps[n].to, steps[n].from)])

(* A host function may be too deep in the stack, and its address may come  *)
(* from the link data: both take scratch registers.                        *)
RawFunctionCall(imported) ==
    IF imported THEN <<Spoil(<<A(12), Scratch[1]>>, 4), CallHost>> ELSE <<CallWasm>>

IndirectWasmTargetAddress ==
    <<Target(Reg(D(0), 4)), Spoil(<<Scratch[1], Scratch[2], A(12), A(13)>>, 4)>>

-----------------------------------------------------------------------------
(* Calls out of a WebAssembly function. A position p of its frame is at    *)
(* the stack pointer plus the frame size minus p.                          *)

AlignStackFrameSize(j, size) == RoundUp(size - j.frame.paramWidth, 8) + j.frame.paramWidth
At(p, size, w) == Mem(SP, size - p, w)

(* The source of an argument: a register, or a position of the frame.      *)
Source(source, size) == IF source.k = "pos" THEN At(source.d, size, source.w) ELSE source

Start(j) == IF j.global THEN 1 ELSE 0
Imported(j) == j.callee \in {"v1", "v2"}
V2Width(types) == 8 * Len(types)

ParamWidthOf(j) == IF j.callee = "v2" THEN V2Width(j.params)
                     ELSE StackParamWidth(j.params, j.callee = "v1", Start(j))
ReturnWidthOf(j) == IF j.callee = "v2" THEN V2Width(j.results) ELSE StackReturnValueWidth(j.results)

(* | Stack Params | Stack Return values | Record | jobMemoryPtrPtr | Padding | *)
OfRecord(j) == ParamWidthOf(j) + ReturnWidthOf(j)
OfJobPtr(j) == OfRecord(j) + Record
FrameSize(j) ==
    AlignStackFrameSize(j, OfJobPtr(j) + (IF Imported(j) THEN JobPtr ELSE 0) + j.frame.lastMax)

PrepareStackFrame(j) ==
    AddSp(j.frame.size - FrameSize(j)) \o
    If(j.frame.checked < FrameSize(j), CheckStackFence(D(0), A(12)))

(* V2: the arguments into slots, and three pointers.                       *)
V2Params(j) ==
    Concat([i \in DOMAIN j.params |-> Move(Slots(j.params, 0)[i], Source(j.sources[i], FrameSize(j)))])
V2Pointers(ofReturns) ==
    <<Lea(Reg(A(4), 4), SP, 0), Lea(Reg(A(5), 4), SP, ofReturns), Mov(Reg(A(6), 4), Field("ctx"))>>

(* V1 and WebAssembly: what goes to the stack at once, what goes to        *)
(* registers collected for the resolver; the context in an address         *)
(* register; the index of an indirect call.                                *)
IndexCopy(j, size) == If(j.callee = "indirect", <<Copy(Reg(D(0), 4), Source(j.index, size), "i32")>>)
Targets(j) == Args(j.params, j.callee = "v1", Start(j), SP, 0)
V1Stores(j) ==
    Concat([i \in DOMAIN j.params |->
        If(Targets(j)[i].k = "mem", Move(Targets(j)[i], Source(j.sources[i], FrameSize(j))))])
V1Copies(j) ==
    LET copies == [i \in DOMAIN j.params |-> Copy(Targets(j)[i], Source(j.sources[i], FrameSize(j)), j.params[i])]
    IN  Resolve(SelectSeq(copies, LAMBDA c : c.to.k = "reg") \o IndexCopy(j, FrameSize(j)))

FncCallWrapper(j) ==
    PushStacktrace(j.trace, IF j.callee = "indirect" THEN "unknown" ELSE "callee", OfRecord(j)) \o
    If(Imported(j), CacheJobMemoryPtrPtr(OfJobPtr(j), PreferredScr)) \o
    (IF j.callee = "indirect" THEN IndirectWasmTargetAddress \o <<CallWasm>>
                              ELSE RawFunctionCall(Imported(j))) \o
    If(Imported(j), RestoreFromJobMemoryPtrPtr(OfJobPtr(j)) \o <<Spoil(<<Scratch[1]>>, 4)>>) \o
    PopStacktrace(j.trace, OfRecord(j), Scratch[1])

DirectFncCall(j) ==
    PrepareStackFrame(j) \o
    If(Imported(j), MoveGlobals(j.global)) \o
    (CASE j.callee = "v2" -> V2Params(j) \o V2Pointers(ParamWidthOf(j))
       [] j.callee = "v1" -> V1Stores(j) \o <<Mov(Reg(A(4), 4), Field("ctx"))>> \o V1Copies(j)
       [] OTHER           -> V1Stores(j) \o V1Copies(j)) \o
    FncCallWrapper(j) \o
    If(Imported(j), SetupMemSize \o RecoverGlobals(j.global))

(* Where the compile stack has the results afterwards.                     *)
IterateResults(j) == IF j.callee = "v2" THEN Slots(j.results, ParamWidthOf(j))
                                          ELSE Results(j.results, SP, ParamWidthOf(j))

-----------------------------------------------------------------------------
(* Return and tail calls.                                                  *)

SizeBeforeReturn(j) == j.frame.paramWidth + ReturnAddrWidth
ReturnAndUnwind(j, size) ==
    AddSp(size - SizeBeforeReturn(j)) \o <<Return(Reg(SP, 4), ReturnAddrWidth)>>

(* The results are left right above the parameters.                        *)
LoadReturnValues(j, size) ==
    Concat([n \in DOMAIN j.results |-> Move(Results(j.results, SP, size)[n], IterateResults(j)[n])])

CanTailJump(j) ==
    /\ ~Imported(j)
    /\ \/ ParamWidthOf(j) = j.frame.paramWidth
       \/ StackReturnValueWidth(j.results) = 0 /\ ParamWidthOf(j) < j.frame.paramWidth

TailTargets(j) ==
    [i \in DOMAIN j.params |->
        IF Targets(j)[i].k = "reg" THEN Targets(j)[i]
        ELSE At(j.frame.paramWidth - Targets(j)[i].d, j.frame.size, Size(j.params[i]))]
TailJump(j) ==
    Resolve([i \in DOMAIN j.params |-> Copy(TailTargets(j)[i], Source(j.sources[i], j.frame.size), j.params[i])]
            \o IndexCopy(j, j.frame.size)) \o
    AddSp(j.frame.size - SizeBeforeReturn(j)) \o
    If(j.callee = "indirect", IndirectWasmTargetAddress) \o <<Jump>>

ReturnCall(j) ==
    IF CanTailJump(j) THEN TailJump(j)
    ELSE DirectFncCall(j) \o LoadReturnValues(j, FrameSize(j)) \o ReturnAndUnwind(j, FrameSize(j))

-----------------------------------------------------------------------------
(* The wrapper that the host calls: argument array in A4, linear memory in *)
(* A5, address of the trap code in A6, result array in A7.                 *)

OfTrapCode == 0
OfEntryRecord == 4
OfEntryJobPtr == OfEntryRecord + Record
OfOldA11 == OfEntryJobPtr + JobPtr
OfReturnValuesPtr == OfOldA11 + 4
EntryReserved == RoundUp(OfReturnValuesPtr + 8, 8)

EntryProlog(j) ==
    <<Mov(Reg(LM, 4), Reg(A(5), 4))>> \o AddSp(-EntryReserved) \o
    <<Mov(Mem(SP, OfOldA11, 4), Reg(A(11), 4))>> \o
    PushStacktrace(j.trace, "callee", OfEntryRecord) \o
    If(Imported(j), CacheJobMemoryPtrPtr(OfEntryJobPtr, PreferredScr)) \o
    <<Mov(Mem(SP, OfTrapCode, 4), Reg(A(6), 4)), Mov(Mem(SP, OfReturnValuesPtr, 4), Reg(A(7), 4))>> \o
    SetupMemSize \o RecoverGlobals(j.global) \o
    <<Spoil(<<A(12)>>, 4), EnterFrame(Reg(SP, 4), Field("trapStackReentry")), Spoil(<<A(11), Scratch[1]>>, 4)>>

(* The wrapper has the native convention for every import.                 *)
EntryParamWidth(j) == StackParamWidth(j.params, Imported(j), Start(j))
EntryReservation(j) ==
    RoundUp(EntryReserved + EntryParamWidth(j) + StackReturnValueWidth(j.results), 8) - EntryReserved

(* The next displacement: when it leaves the range, the first address      *)
(* register is advanced, whatever the base of the access is, and the       *)
(* displacement is none.                                                   *)
OffsetHelper(added, offset, limit) ==
    LET d == offset - added
    IN  IF d \in -limit .. limit - 1 THEN [d |-> d, added |-> added, advance |-> <<>>]
        ELSE [d |-> 0, added |-> added + d, advance |-> <<Lea(Reg(A(4), 4), A(4), d)>>]

EntryParams(j) ==
    LET args == Args(j.params, Imported(j), Start(j), SP, 0)
        step(acc, i) ==
            LET w == Size(j.params[i])
                ser == OffsetHelper(acc.ser, 8 * (i - 1), IF w = 8 THEN j.limit ELSE 32768)
                stk == OffsetHelper(acc.stk, args[i].d, IF w = 8 THEN j.limit ELSE 32768)
                scr == IF w = 8 THEN Reg(Scratch[1], 8) ELSE Reg(PreferredScr, 4)
            IN  IF args[i].k = "reg"
                THEN [ser |-> ser.added, stk |-> acc.stk,
                      code |-> acc.code \o ser.advance \o <<Mov(args[i], Mem(A(4), ser.d, w))>>]
                ELSE [ser |-> ser.added, stk |-> stk.added,
                      code |-> acc.code \o ser.advance \o stk.advance \o
                               <<Mov(scr, Mem(A(4), ser.d, w)), Mov(Mem(SP, stk.d, w), scr)>>]
    IN  FoldLeft(step, [ser |-> 0, stk |-> 0, code |-> <<>>], [i \in DOMAIN j.params |-> i]).code

EntryResults(j) ==
    LET places == Results(j.results, SP, EntryParamWidth(j))
    IN  If(j.results # <<>>,
           <<Mov(Reg(A(7), 4), Mem(SP, OfReturnValuesPtr + EntryReservation(j), 4))>> \o
           Concat([n \in DOMAIN j.results |->
               LET w == Size(j.results[n])
                   scr == IF w = 8 THEN Reg(Scratch[1], 8) ELSE Reg(PreferredScr, 4)
               IN  IF places[n].k = "reg" THEN <<Mov(Mem(A(7), 8 * (n - 1), w), places[n])>>
                   ELSE <<Mov(scr, places[n]), Mov(Mem(A(7), 8 * (n - 1), w), scr)>>]))

FunctionEntryPoint(j) ==
    EntryProlog(j) \o AddSp(-EntryReservation(j)) \o CheckStackFence(Scratch[1], A(12)) \o
    EntryParams(j) \o If(Imported(j), <<Mov(Reg(A(4), 4), Field("ctx"))>>) \o
    RawFunctionCall(Imported(j)) \o
    EntryResults(j) \o AddSp(EntryReservation(j)) \o
    If(Imported(j), RestoreFromJobMemoryPtrPtr(OfEntryJobPtr)) \o
    PopStacktrace(j.trace, OfEntryRecord, PreferredScr) \o
    <<TrapEntry>> \o MoveGlobals(j.global) \o
    <<LeaveFrame(Reg(SP, 4), Field("trapStackReentry")), Spoil(<<PreferredScr, A(12)>>, 4),
      Mov(Reg(A(11), 4), Mem(SP, OfOldA11, 4))>> \o
    AddSp(EntryReserved) \o <<Return(Reg(SP, 4), 0)>>

-----------------------------------------------------------------------------
(* The adapters through which a table entry reaches a host function: from  *)
(* the convention of WebAssembly to the native one.                        *)

OldWidth(j) == StackParamWidth(j.params, FALSE, Start(j))
OldArgs(j) == Args(j.params, FALSE, Start(j), A(12), 0)

AdapterCall(j, ofJobPtr, addrScr) ==
    PatchStacktrace(j.trace, "callee", addrScr, Scratch[1]) \o
    CacheJobMemoryPtrPtr(ofJobPtr, PreferredScr) \o RawFunctionCall(TRUE) \o
    RestoreFromJobMemoryPtrPtr(ofJobPtr) \o <<Spoil(<<Scratch[1]>>, 4)>> \o
    SetupMemSize \o RecoverGlobals(j.global)

V2AdapterReserved(j) ==
    RoundUp(V2Width(j.params) + V2Width(j.results) + JobPtr, 8) + StackAdjustAfterCall
V2ImportAdapter(j) ==
    LET ofReturns == V2Width(j.params)
        through(to, from) == IF from.k = "reg" \/ to.k = "reg" THEN <<Mov(to, from)>>
                             ELSE <<Mov(Reg(Scratch[1], to.w), from), Mov(to, Reg(Scratch[1], to.w))>>
    IN  MoveGlobals(j.global) \o
        <<Lea(Reg(A(12), 4), SP, StackAdjustAfterCall)>> \o
        AddSp(-V2AdapterReserved(j)) \o CheckStackFence(Scratch[1], A(13)) \o
        Concat([i \in DOMAIN j.params |-> through(Slots(j.params, 0)[i], OldArgs(j)[i])]) \o
        V2Pointers(ofReturns) \o
        AdapterCall(j, ofReturns + V2Width(j.results), A(13)) \o
        <<Lea(Reg(A(12), 4), SP, V2AdapterReserved(j) + StackAdjustAfterCall)>> \o
        Concat([n \in DOMAIN j.results |->
            through(Results(j.results, A(12), OldWidth(j))[n], Slots(j.results, ofReturns)[n])]) \o
        AddSp(V2AdapterReserved(j)) \o <<Return(Reg(SP, 4), ReturnAddrWidth)>>

V1AdapterReserved(j) ==
    RoundUp(StackParamWidth(j.params, TRUE, Start(j)) + JobPtr, 8) + StackAdjustAfterCall
V1ImportAdapter(j) ==
    LET to == Args(j.params, TRUE, Start(j), SP, 0)
        from == OldArgs(j)
        half(n, i) == <<Mov(Reg(A(13), 4), Mem(A(12), from[i].d + n, 4)), Mov(Mem(SP, to[i].d + n, 4), Reg(A(13), 4))>>
        stores(i) == IF to[i].k = "reg" THEN <<>>
                     ELSE IF from[i].k = "reg" THEN <<Mov(to[i], from[i])>>
                     ELSE half(0, i) \o If(Is64(j.params[i]), half(4, i))
        copies == SelectSeq([i \in DOMAIN j.params |-> Copy(to[i], from[i], j.params[i])], LAMBDA c : c.to.k = "reg")
        steps == Resolved(Pushed(copies), "linear", Temps)
    IN  MoveGlobals(j.global) \o
        <<Lea(Reg(A(12), 4), SP, StackAdjustAfterCall)>> \o
        AddSp(-V1AdapterReserved(j)) \o CheckStackFence(Scratch[1], A(13)) \o
        Concat([i \in DOMAIN j.params |-> stores(i)]) \o
        [n \in DOMAIN steps |-> Mov(steps[n].to, steps[n].from)] \o
        <<Mov(Reg(A(4), 4), Field("ctx"))>> \o
        AdapterCall(j, StackParamWidth(j.params, TRUE, Start(j)), A(12)) \o
        AddSp(V1AdapterReserved(j)) \o <<Return(Reg(SP, 4), ReturnAddrWidth)>>

-----------------------------------------------------------------------------
(* The start of a function: its frame, and its own index in the record, in *)
(* case it was called indirectly.                                          *)
FrameGrowth(j) == RoundUp(j.frame.locals + 128, 16)
EnteredFunction(j) ==
    AddSp(-(FrameGrowth(j) - StackAdjustAfterCall)) \o CheckStackFence(Scratch[1], AddrScr[1]) \o
    PatchStacktrace(j.trace, "callee", AddrScr[1], Scratch[1]) \o <<Body>>

(* The handler of traps, from any depth, down to where it jumps to.        *)
TrapHandler ==
    <<Mov(Reg(SP, 4), Field("trapStackReentry")), Mov(Reg(AddrScr[1], 4), Mem(SP, OfTrapCode, 4)),
      Mov(Mem(AddrScr[1], 0, 4), Imm("trapCode", 4)), Spoil(<<A(11)>>, 4)>>

Code(j) ==
    CASE j.kind = "entry"   -> FunctionEntryPoint(j)
      [] j.kind = "enter"   -> EnteredFunction(j)
      [] j.kind = "call"    -> DirectFncCall(j)
      [] j.kind = "return_call" -> ReturnCall(j)
      [] j.kind = "adapter" -> IF j.callee = "v2" THEN V2ImportAdapter(j) ELSE V1ImportAdapter(j)

-----------------------------------------------------------------------------
(* What the two sides of a call agree on.                                  *)

(* The width of the parameters that the running function itself has on the *)
(* stack.                                                                  *)
OwnWidth(j) == IF j.kind \in {"call", "return_call"} THEN j.frame.paramWidth ELSE OldWidth(j)

StartSp(j) == IF j.kind = "entry" THEN 0
              ELSE IF j.kind \in {"call", "return_call"} THEN j.frame.paramWidth - j.frame.size
              ELSE -ReturnAddrWidth
InitialValues(j) ==
    <<<<Reg(SP, 4), PointerTo("sp", StartSp(j))>>>> \o
    (IF j.kind = "entry"
     THEN <<<<Reg(A(4), 4), PointerTo("args", 0)>>, <<Reg(A(5), 4), PointerTo("data", 0)>>,
            <<Reg(A(6), 4), PointerTo("trap", 0)>>, <<Reg(A(7), 4), PointerTo("rets", 0)>>>>
     ELSE <<<<Reg(LM, 4), PointerTo("data", 0)>>, <<Reg(A(3), 4), Named("memSize", 0)>>>> \o
          If(j.global, <<<<Reg(D(Dr[1]), 4), Named("global", 0)>>>>))
(* Where the caller of this function has put its arguments.                *)
IncomingArguments(j) == Args(j.params, FALSE, Start(j), SP, ReturnAddrWidth)

Bases == <<Reg(LM, 4)>>
SizeRegister == Reg(A(3), 4)
SizeKept(j) == TRUE
GlobalRegister == Reg(D(Dr[1]), 4)
ReturnAddress == <<Reg(A(11), 4)>>
ReturnCell == Mem(SP, 0, 4)
ReturnCellKept(j) == j.kind # "entry"
Nonvolatile(j) == <<>>      \* the hardware saves and restores them
CallAlignment == 8

(* The places of the arguments and of the context, of the results when the *)
(* callee is done, and of the results when this code is done.              *)
CalleeArguments(j) ==
    CASE j.kind = "enter" ->
             [i \in DOMAIN j.params |->
                 Source(Homes(j.params, Start(j))[i],
                        OldWidth(j) + ReturnAddrWidth + FrameGrowth(j) - StackAdjustAfterCall)]
      [] j.kind = "return_call" /\ CanTailJump(j) -> Args(j.params, FALSE, Start(j), SP, ReturnAddrWidth)
      [] j.callee = "v2" -> [i \in DOMAIN j.params |-> Mem(A(4), 8 * (i - 1), Size(j.params[i]))]
      [] OTHER -> Args(j.params, Imported(j), Start(j), SP, 0)
CalleeContext(j) == IF j.callee = "v2" THEN Reg(A(6), 4) ELSE Reg(A(4), 4)
CalleeResults(j) ==
    IF j.callee = "v2" THEN [n \in DOMAIN j.results |-> Mem(A(5), 8 * (n - 1), Size(j.results[n]))]
    ELSE Results(j.results, SP, StackParamWidth(j.params, Imported(j), Start(j)))
FinalResults(j) ==
    CASE j.kind = "entry" -> [n \in DOMAIN j.results |-> Mem(Host, 8 * (n - 1), Size(j.results[n]))]
      [] j.kind = "call" -> IterateResults(j)
      [] OTHER -> Results(j.results, SP, OwnWidth(j))

(* The registers that a callee does not keep. A call of a host function    *)
(* saves the upper registers, and a WebAssembly function keeps the base    *)
(* and the size of the memory and the global up to date.                   *)
SpoiledBy(j) ==
    IF Imported(j) THEN {D(n) : n \in 0 .. 7} \cup {A(n) : n \in 2 .. 7}
    ELSE {D(n) : n \in 0 .. 15} \cup {A(n) : n \in {4, 5, 6, 7, 12, 13, 14, 15}}
RegisterWidth == 4
(* What may be the place of an argument before the call.                   *)
IntSources == <<D(8), D(9), D(6), D(7), D(10), D(11), D(12), D(13), D(1)>>
WideSources == <<D(2), D(14)>>
FloatSources == IntSources
=============================================================================
