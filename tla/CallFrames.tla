----------------------------- MODULE CallFrames -----------------------------
(***************************************************************************)
(* Calls as the compiled code makes them, on the three targets: into a     *)
(* module from the host (kind "entry"), from one WebAssembly function to   *)
(* another or to a host function ("call", "return_call"), the adapters     *)
(* behind table entries ("adapter") and the start of a function ("enter"). *)
(* The instructions are those that CallsTriCore, CallsX86 and CallsArm     *)
(* give; the callee is one step here. It takes its arguments from where    *)
(* its own convention has them, spoils what it may, may let the linear     *)
(* memory move and grow and may change the global that lives in a          *)
(* register, and leaves its results; or it traps.                          *)
(***************************************************************************)
EXTENDS CallMachine

CONSTANT Jobs       \* the calls to look at

T == INSTANCE CallsTriCore
X == INSTANCE CallsX86
R == INSTANCE CallsArm

On(j, tricore, x86, arm) ==
    CASE j.target = "tricore" -> tricore
      [] j.target = "x86_64"  -> x86
      [] j.target = "aarch64" -> arm

Imported(j) == j.callee \in {"v1", "v2"}
ContextValue == [h \in 0 .. 1 |-> <<"data", "ctx", 0, h>>]
IndexValue == [h \in 0 .. 1 |-> <<"index", "", 0, h>>]
RecordOfCaller == [h \in 0 .. 1 |-> <<"&", "record", 0, h>>]

-----------------------------------------------------------------------------
Sp(j) == On(j, T!SP, X!SP, R!SP)
Own(j) == On(j, T!OwnWidth(j), X!OwnWidth(j), R!OwnWidth(j))
FirstSp(j) == On(j, T!StartSp(j), X!StartSp(j), R!StartSp(j))
ReturnAddressWidth(j) == On(j, T!ReturnAddrWidth, X!ReturnAddrWidth, R!ReturnAddrWidth)

(* Registers and memory when the code starts.                              *)
InitialCells(j) ==
    LET given == On(j, T!InitialValues(j), X!InitialValues(j), R!InitialValues(j)) \o
                 (IF j.kind = "enter" \/ j.kind = "adapter"
                  THEN LET at == On(j, T!IncomingArguments(j), X!IncomingArguments(j), R!IncomingArguments(j))
                       IN  [i \in DOMAIN j.params |-> <<at[i], Argument(i - 1)>>]
                  ELSE IF j.kind = "entry" THEN <<>>
                  ELSE [i \in DOMAIN j.params |-> <<j.sources[i], Argument(i - 1)>>] \o
                       (IF j.callee = "indirect" THEN <<<<j.index, IndexValue>>>> ELSE <<>>))
        at(o) == IF o.k = "pos" THEN Mem(Sp(j), j.frame.size - o.d, o.w) ELSE o
        data == (<<"data", "memSize", 0, 0>> :> <<"memSize", "", 0, 0>>) @@
                (<<"data", "memSize", 0, 1>> :> <<"memSize", "", 0, 1>>) @@
                (IF j.kind = "entry"
                 THEN [h \in {<<"data", "global", 0, 0>>} |-> <<"global", "", 0, 0>>] @@
                      (IF j.nested THEN <<>>
                       ELSE [c \in {<<"data", "trapStackReentry", 0, h>> : h \in 0 .. 1} |-> <<"null", "", 0, c[4]>>])
                 ELSE IF j.kind \in {"enter", "adapter"}
                 THEN [c \in {<<"data", "lastFrameRef", 0, h>> : h \in 0 .. 1} |-> RecordOfCaller[c[4]]]
                 ELSE <<>>)
        host == RegCell(Host, 0) :> PointerTo("rets", 0)[0]
    IN  FoldLeft(LAMBDA acc, p : PutValue(acc, acc, at(p[1]), p[2]), host @@ data, given)

Code(j) == On(j, T!Code(j), X!Code(j), R!Code(j))

CellsOf == [j \in Jobs |-> InitialCells(j)]
CodeOf == [j \in Jobs |-> Code(j)]

Init == \E j \in Jobs :
            /\ job = j
            /\ cells = CellsOf[j]
            /\ code = CodeOf[j]

-----------------------------------------------------------------------------
(* The callee.                                                             *)

SpNow(s, j) == Val(s, RegCell(Sp(j), 0))[3]
JunkBelow(s, j) ==
    LET sp == SpNow(s, j)
    IN  [c \in DOMAIN s |-> IF c[1] = "sp" /\ c[3] < sp THEN Junk ELSE s[c]]

CalleeArguments(j) == On(j, T!CalleeArguments(j), X!CalleeArguments(j), R!CalleeArguments(j))
CalleeResults(j) == On(j, T!CalleeResults(j), X!CalleeResults(j), R!CalleeResults(j))
CalleeContext(j) == On(j, T!CalleeContext(j), X!CalleeContext(j), R!CalleeContext(j))
SpoiledBy(j) == On(j, T!SpoiledBy(j), X!SpoiledBy(j), R!SpoiledBy(j))
Bases(j) == On(j, T!Bases, X!Bases, R!Bases)
SizeRegister(j) == On(j, T!SizeRegister, X!SizeRegister, R!SizeRegister)
SizeKept(j) == On(j, T!SizeKept(j), X!SizeKept(j), R!SizeKept(j))
GlobalRegister(j) == On(j, T!GlobalRegister, X!GlobalRegister, R!GlobalRegister)

(* The stack below, the arguments on it and the registers that the callee  *)
(* need not keep hold anything afterwards.                                 *)
SpoiledByCallee(s, j) ==
    LET stacked == SelectSeq(CalleeArguments(j), LAMBDA o : o.k = "mem" /\ o.r = Sp(j))
        s1 == FoldLeft(LAMBDA acc, o : PutValue(acc, s, o, [h \in 0 .. 1 |-> Junk]), JunkBelow(s, j), stacked)
    IN  Lose(s1, SpoiledBy(j), On(j, T!RegisterWidth, X!RegisterWidth, R!RegisterWidth))
WithResults(s, s0, j) ==
    LET places == CalleeResults(j)
    IN  FoldLeft(LAMBDA acc, n : PutValue(acc, s0, places[n], Result(n - 1)), s, [n \in DOMAIN places |-> n])

(* The memory is another one; so is, if it is changed, the value of the    *)
(* global.                                                                 *)
NewMemory(s) ==
    (Epoch :> <<"epoch", "", 1, 0>>) @@
    (<<"data", "memSize", 0, 0>> :> <<"memSize", "", 1, 0>>) @@
    (<<"data", "memSize", 0, 1>> :> <<"memSize", "", 1, 1>>) @@ s

(* A WebAssembly function leaves the registers of its state up to date,    *)
(* the size only where its callers do not load it anyway.                  *)
LeaveRegisters(s, j) ==
    LET s1 == FoldLeft(LAMBDA acc, b : PutValue(acc, acc, b, [h \in 0 .. 1 |-> LinMem(acc, h)]), s, Bases(j))
        s2 == PutValue(s1, s1, SizeRegister(j),
                       [h \in 0 .. 1 |-> IF SizeKept(j) THEN MemSize(s1, h) ELSE Junk])
    IN  IF j.global THEN PutValue(s2, s2, GlobalRegister(j), [h \in 0 .. 1 |-> Global(s2, h)]) ELSE s2

(* A host function may call the module again, which changes the global in  *)
(* the link data.                                                          *)
HostChangesGlobal(j) == j.global /\ j.kind # "entry"

Is(op) == code # <<>> /\ Head(code).op = op

Instruct ==
    /\ code # <<>>
    /\ Head(code).op \notin {"wasm", "host", "jump", "body"}
    /\ cells' = Executed(cells, Head(code))
    /\ code' = Tail(code)
    /\ UNCHANGED job

WasmFunction ==
    /\ Is("wasm")
    /\ cells' = WithResults(
                    LeaveRegisters((IF job.global THEN Truth :> <<"truth", "", 1, 0>> ELSE <<>>) @@
                                   NewMemory(SpoiledByCallee(cells, job)), job),
                    cells, job)
    /\ code' = Tail(code)
    /\ UNCHANGED job

HostFunction ==
    /\ Is("host")
    /\ cells' = WithResults(
                    (IF HostChangesGlobal(job)
                     THEN (Truth :> <<"truth", "", 1, 0>>) @@
                          (<<"data", "global", 0, 0>> :> <<"global", "", 1, 0>>)
                     ELSE <<>>) @@ NewMemory(SpoiledByCallee(cells, job)),
                    cells, job)
    /\ code' = Tail(code)
    /\ UNCHANGED job

(* A trap of the first call of a module is handled by the wrapper that     *)
(* made the call.                                                          *)
Trap ==
    /\ Is("wasm")
    /\ job.kind = "entry" /\ ~job.nested
    /\ cells' = LeaveRegisters(NewMemory(SpoiledByCallee(cells, job)), job)
    /\ \E n \in DOMAIN code :
          /\ code[n].op = "label"
          /\ code' = On(job, T!TrapHandler, X!TrapHandler, R!TrapHandler) \o SubSeq(code, n, Len(code))
    /\ UNCHANGED job

Next == Instruct \/ WasmFunction \/ HostFunction \/ Trap
Spec == Init /\ [][Next]_vars /\ WF_vars(Next)

-----------------------------------------------------------------------------
Returned == code = <<>>
Trapped == <<"trap", "", 0, 0>> \in DOMAIN cells

(* The exception of ArgumentsArrive: an argument in the second register of *)
(* a pair into which another argument is loaded. The resolver asks for the *)
(* first register of a target only (TryMove), so that the load may come    *)
(* before the argument is read.                                            *)
UnderPair(j, i) ==
    /\ j.target = "tricore" /\ j.kind \in {"call", "return_call"}
    /\ j.sources[i].k = "reg" /\ CalleeArguments(j)[i].k = "reg"
    /\ \E k \in DOMAIN j.params \ {i} :
          LET to == CalleeArguments(j)[k] IN IsPair(to) /\ j.sources[i].r = <<"D", to.r[2] + 1>>

(* When a callee starts, every argument is where the callee looks for it,  *)
(* whatever the arguments were in and however many there are, but for      *)
(* UnderPair; an import finds its context, and an indirect call has looked *)
(* up the index that the program gave.                                     *)
ArgumentsArrive ==
    code # <<>> /\ Head(code).op \in {"wasm", "host", "jump", "body"} =>
        /\ \A i \in DOMAIN job.params :
              UnderPair(job, i) \/ Holds(cells, CalleeArguments(job)[i], Argument(i - 1))
        /\ job.callee = "indirect" /\ job.kind # "enter" =>
              Val(cells, <<"target", "", 0, 0>>) = IndexValue[0]
        /\ Is("host") => Holds(cells, CalleeContext(job), ContextValue)

(* When the call is over, every result is where the code after it looks    *)
(* for it.                                                                 *)
FinalResults(j) == On(j, T!FinalResults(j), X!FinalResults(j), R!FinalResults(j))
ResultsArrive ==
    Returned /\ ~Trapped =>
        \A n \in DOMAIN job.results : Holds(cells, FinalResults(job)[n], Result(n - 1))

(* A value that one side of a call puts somewhere is where the other side  *)
(* looks for it, on the way in and on the way out.                         *)
ValuesArrive == ArgumentsArrive /\ ResultsArrive

(* The stack pointer at the end, the return address, the registers and the *)
(* stack of the caller, the chain of stack trace records and the mark of   *)
(* the first frame are as they were; after a trap as well.                 *)
KeptFrom(j) ==
    CASE j.kind = "call"  -> j.frame.paramWidth - j.frame.lastMax
      [] j.kind = "entry" -> FirstSp(j)
      [] OTHER -> Own(j) + On(j, T!StackReturnValueWidth(j.results), X!StackReturnValueWidth(j.results),
                                 R!StackReturnValueWidth(j.results))
UnwoundSp(j) == IF j.kind = "entry" THEN FirstSp(j) ELSE -ReturnAddressWidth(j)
ReturnCell(j) == On(j, T!ReturnCell, X!ReturnCell, R!ReturnCell)
KeepsName(s, o) == \A h \in Halves(o.w) : Val(s, CellOf(s, o, h)) = CellOf(s, o, h)
Nonvolatile(j) == On(j, T!Nonvolatile(j), X!Nonvolatile(j), R!Nonvolatile(j))
ReturnCellKept(j) == On(j, T!ReturnCellKept(j), X!ReturnCellKept(j), R!ReturnCellKept(j))
ReturnAddress(j) == On(j, T!ReturnAddress, X!ReturnAddress, R!ReturnAddress)

Unwound ==
    Is("ret") \/ Is("jump") =>
        /\ SpNow(cells, job) = UnwoundSp(job)
        /\ ReturnCellKept(job) => KeepsName(cells, ReturnCell(job))
        /\ \A n \in DOMAIN ReturnAddress(job) : KeepsName(cells, ReturnAddress(job)[n])
        /\ job.kind = "entry" => \A n \in DOMAIN Nonvolatile(job) : KeepsName(cells, Nonvolatile(job)[n])
NothingForeignWritten ==
    Returned \/ Is("jump") =>
        LET before == CellsOf[job]
            foreign(c) == \/ c[1] = "sp" /\ c[3] >= KeptFrom(job)
                          \/ c[1] = "data" /\ c[2] = "trapStackReentry"
                          \/ c[1] = "data" /\ c[2] = "lastFrameRef" /\ ~Trapped
        IN  \A c \in DOMAIN cells : foreign(c) => cells[c] = Val(before, c)
FrameKept == Unwound /\ NothingForeignWritten

(* Whenever a WebAssembly function starts or goes on, its registers for    *)
(* the base of the memory, the size of the memory and the global hold the  *)
(* present ones, though the memory may have moved and grown and the global *)
(* may have changed during the call. The host reads the global from the    *)
(* link data, and finds the present value there.                           *)
RegistersCoherent(s, j) ==
    /\ \A n \in DOMAIN Bases(j) : Val(s, RegCell(Bases(j)[n].r, 0)) = LinMem(s, 0)
    /\ j.global => Val(s, RegCell(GlobalRegister(j).r, 0)) = Global(s, 0)
SizeCurrent(s, j) == Val(s, RegCell(SizeRegister(j).r, 0)) = MemSize(s, 0)
GoesOn == Is("wasm") \/ Is("jump") \/ Is("body") \/ (Is("ret") /\ job.kind # "entry") \/ (Returned /\ job.kind = "call")
HasSize == \/ Is("wasm") \/ Is("jump") \/ Is("body") \/ (Returned /\ job.kind = "call")
           \/ (Is("ret") /\ job.kind # "entry" /\ SizeKept(job))
StateCoherent ==
    /\ GoesOn => RegistersCoherent(cells, job)
    /\ HasSize /\ ~(job.target = "aarch64" /\ job.kind = "adapter" /\ job.callee = "v1") => SizeCurrent(cells, job)
    /\ job.global /\ (Is("host") \/ (Is("ret") /\ job.kind = "entry"))
          => Val(cells, <<"data", "global", 0, 0>>) = Global(cells, 0)

(* A call is made with the stack aligned, and with a record on top of the  *)
(* stack trace that points to the previous one and carries the index of    *)
(* the callee (which only the callee itself knows if the call is           *)
(* indirect).                                                              *)
RecordPlaces(j) == On(j, <<0, 4>>, <<0, 8>>, <<0, 8>>)     \* of link and index
Aligned == SpNow(cells, job) % On(job, T!CallAlignment, X!CallAlignment, R!CallAlignment) = 0
RecordOnTop ==
    LET top == Val(cells, <<"data", "lastFrameRef", 0, 0>>)
        at(d) == Val(cells, <<top[2], "", top[3] + d, 0>>)
    IN  /\ top[1] = "&"
        /\ job.kind \in {"call", "return_call", "entry"} => at(RecordPlaces(job)[1]) = <<"data", "lastFrameRef", 0, 0>>
        /\ job.callee # "indirect" => at(RecordPlaces(job)[2]) = <<"imm", "callee", 0, 0>>
CallSite ==
    /\ Is("wasm") \/ Is("host") => Aligned
    /\ job.trace /\ (Is("wasm") \/ Is("host") \/ Is("body")) => RecordOnTop
=============================================================================
