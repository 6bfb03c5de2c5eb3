-------------------------- MODULE ActiveJobMemory ---------------------------
(***************************************************************************)
(* The job memory of a module built with LINEAR_MEMORY_BOUNDS_CHECKS: the  *)
(* ActiveMemoryManager over one reallocatable block, the Runtime calls     *)
(* that probe and shrink it, the compiled code that caches its base and    *)
(* size in registers, and other threads that request an interruption by    *)
(* writing into it.                                                        *)
(*                                                                         *)
(* One thread executes the module and the host functions it imports.  A    *)
(* reallocation is two of its steps, Reallocate and Synchronize, because   *)
(* the mutex is released between them.  All sizes are the code's, scaled   *)
(* down; a block is identified by its address.                             *)
(***************************************************************************)
EXTENDS MemoryAccess

CONSTANTS
  MaxUint,        \* UINT32_MAX
  PageSize,       \* wasmPageSize
  PageLimit,      \* pages memory.grow may reach (memoryMaximumSize or 65536)
  InitialPages,   \* initial memory size of the module
  BasedataSize,   \* bytes in front of the linear memory
  AccessMax,      \* the 8 bytes that memSize is short of the actual size
  RamLimits,      \* values maxRam_ is given
  MinLength,      \* the 512 of runtimeMemoryAllocFnc
  Slack,          \* the 4096 of runtimeMemoryAllocFnc
  Address,        \* addresses realloc may return
  NoAddress,      \* nullptr
  Byte, Junk,     \* byte values, and the content of memory nobody wrote
  Nothing,        \* in place of a byte: the access reads
  DataSegments,   \* accesses that the data segments may amount to
  WasmAccesses,   \* accesses of the compiled code
  HostRegions,    \* accesses of the host through getLinearMemoryRegion
  ShrinkLengths,  \* arguments of shrinkToSize
  GrowDeltas,     \* operands of memory.grow
  Interrupter,    \* threads that call requestInterruption once
  NoThread

Offset == 0 .. MaxUint - 1
Access == [at : Nat, width : Nat, byte : Byte \union {Nothing}]
NoAccess == [at |-> 0, width |-> 0, byte |-> Nothing]

ASSUME SizeAssumption ==
  /\ MaxUint \in Nat /\ PageSize \in Nat \ {0} /\ PageLimit \in Nat
  /\ BasedataSize \in Nat \ {0} /\ AccessMax \in Nat /\ RamLimits \subseteq Nat
  /\ MinLength \in Nat /\ Slack \in Nat
  /\ MaxUint % 2 = 1
  /\ BasedataSize <= MaxUint
  /\ PageLimit * PageSize <= MaxUint + 1
  /\ InitialPages \in 0 .. PageLimit /\ PageLimit <= MaxUint

ASSUME ValueAssumption ==
  /\ NoAddress \notin Address
  /\ 0 \in Byte /\ Junk \notin Byte /\ Nothing \notin Byte
  /\ NoThread \notin Interrupter

ASSUME InputAssumption ==
  /\ DataSegments \union WasmAccesses \union HostRegions \subseteq Access
  /\ \A a \in WasmAccesses : a.width \in 1 .. AccessMax
  /\ \A a \in HostRegions : a.width >= 1
  /\ \A a \in DataSegments : a.at + a.width <= MaxUint
  /\ ShrinkLengths \subseteq 0 .. MaxUint
  /\ GrowDeltas \subseteq 0 .. MaxUint

VARIABLES
  \* WasmModule::maxRam_
  maxRam,
  \* jobMemory_: address and size of the block; the bytes behind its basedata
  data, size, bytes,
  \* ActiveMemoryManager
  basedataStart, allowed, usable, maxDesired,
  \* fields of the basedata, which live in the block
  linMemWasmSize, actual, status,
  \* registers of the compiled code
  regLinMem, regMemSize,
  \* the executing thread: where it is, the operation it is in, what it told
  pc, op, answer,
  \* linearMemoryMutex_; each interrupter's place and computed base address
  mutex, ipc, iptr

block == <<data, size, bytes>>
manager == <<basedataStart, allowed, usable, maxDesired>>
basedata == <<linMemWasmSize, actual, status>>
registers == <<regLinMem, regMemSize>>
control == <<pc, op, answer>>
requests == <<mutex, ipc, iptr>>
vars == <<maxRam, block, manager, basedata, registers, control, requests>>

-----------------------------------------------------------------------------
(***************************************************************************)
(* Sizes.  Rounded is the job memory size that gives a linear length,      *)
(* rounded up to even; Proposed is what runtimeMemoryAllocFnc asks for     *)
(* first.                                                                  *)
(***************************************************************************)
Larger(a, b) == IF a >= b THEN a ELSE b
Smaller(a, b) == IF a <= b THEN a ELSE b

\* a faulty variant, to show what the properties detect
RoundedWithoutBasedata(length) == length + (length % 2)

Rounded(length) ==
  LET total == BasedataSize + length
  IN  total + (total % 2)

Representable(length) == Rounded(length) <= MaxUint

Unfulfilled(length) ==
  IF BasedataSize + length > MaxUint THEN BasedataSize + length
                                     ELSE Rounded(length)

\* a faulty variant, to show what the properties detect
ProposedUnlimited(total) == Smaller(MaxUint, Larger(MinLength, total) + Slack)

Proposed(total) ==
  Smaller(Smaller(maxRam, MaxUint), Larger(MinLength, total) + Slack)

(***************************************************************************)
(* Operations in progress: what is done, the linear length it needs, the   *)
(* access that follows, and where the thread goes on afterwards.           *)
(***************************************************************************)
Operation(kind, need, access, from) ==
  [kind |-> kind, need |-> need, access |-> access, from |-> from]
NoOp == Operation("none", 0, NoAccess, "idle")

(***************************************************************************)
(* The bytes after an operation: ensureLinearSize zeroes those it exposes, *)
(* then the access reads or writes its own.                                *)
(***************************************************************************)
\* a faulty variant, to show what the properties detect
ExposedAsFound(need) == bytes

Exposed(need) ==
  [o \in Offset |-> IF o \in usable .. need - 1 THEN 0 ELSE bytes[o]]

Written(content, a) ==
  [o \in Offset |-> IF a.byte # Nothing /\ o \in Covers(a.at, a.width)
                    THEN a.byte ELSE content[o]]

AccessAnswer(content, a) ==
  IF a.byte = Nothing
  THEN Accessed("loaded", [o \in Covers(a.at, a.width) |->
                             IF o \in Offset THEN content[o] ELSE Junk])
  ELSE Accessed("stored", [o \in Covers(a.at, a.width) |-> a.byte])

(***************************************************************************)
(* A trap of the compiled code: the trap handler unwinds to the caller,    *)
(* and handleTrapCode resets the trap information, status flags included.  *)
(***************************************************************************)
Trap(why) ==
  /\ pc' = "idle"
  /\ status' = 0
  /\ op' = NoOp
  /\ answer' = Said(why)

(***************************************************************************)
(* An operation fails: constructing the runtime throws and leaves no       *)
(* module, an access of compiled code traps, a host call throws to its     *)
(* caller.                                                                 *)
(***************************************************************************)
Fail(o, why) ==
  CASE o.kind \in {"init", "segments"} ->
         pc' = "dead" /\ op' = NoOp /\ answer' = Said("refused") /\ UNCHANGED status
    [] o.kind = "access" -> Trap(why)
    [] o.kind \in {"region", "shrink"} ->
         pc' = o.from /\ op' = NoOp /\ answer' = Said(why) /\ UNCHANGED status

(***************************************************************************)
(* An operation succeeds: ensureLinearSize or shrink set the usable        *)
(* length, the caller writes actualLinMemByteSize into the basedata, the   *)
(* compiled code reloads its registers from the base it is given, and the  *)
(* access is done.                                                         *)
(***************************************************************************)
Succeed(o) ==
  LET content == Exposed(o.need)
      length == IF o.kind = "shrink" THEN o.need ELSE Larger(usable, o.need)
  IN  /\ usable' = length
      /\ actual' = IF o.kind = "init" THEN actual ELSE length
      /\ bytes' = Written(content, o.access)
      /\ answer' = CASE o.kind = "init" -> Said("none")
                     [] o.kind = "shrink" -> Shrunk(o.need)
                     [] OTHER -> AccessAnswer(content, o.access)
      /\ IF o.kind = "access"
         THEN regLinMem' = basedataStart' /\ regMemSize' = length - AccessMax
         ELSE UNCHANGED registers
      /\ pc' = o.from
      /\ op' = NoOp
      /\ UNCHANGED <<data, size, maxDesired, linMemWasmSize, status>>

(***************************************************************************)
(* The operation waits for the reallocation callback.                      *)
(***************************************************************************)
Extend(o) ==
  /\ pc' = "alloc"
  /\ op' = o
  /\ answer' = IF o.kind = "shrink" THEN Shrinking(o.need) ELSE answer
  /\ UNCHANGED <<block, basedataStart, usable, maxDesired, basedata, registers>>

Rejected(o, why, desired) ==
  /\ Fail(o, why)
  /\ maxDesired' = desired
  /\ UNCHANGED <<block, basedataStart, usable, linMemWasmSize, actual, registers>>

(***************************************************************************)
(* ensureCapacityForLinearSize.  The callback returns at once, with        *)
(* nothing changed, when the length exceeds maxRam_.                       *)
(***************************************************************************)
EnsureCapacity(o) ==
  \/ /\ Representable(o.need) /\ size >= Rounded(o.need)
     /\ UNCHANGED basedataStart
     /\ Succeed(o)
  \/ /\ Representable(o.need) /\ size < Rounded(o.need) /\ Rounded(o.need) <= maxRam
     /\ Extend(o)
  \/ /\ ~Representable(o.need) \/ (size < Rounded(o.need) /\ Rounded(o.need) > maxRam)
     /\ Rejected(o, "couldnotextend", Unfulfilled(o.need))

(***************************************************************************)
(* probe(o.need - 1) and what its callers make of the result.  The page    *)
(* limit is the one extend has just set; linMemOffset + 1U wraps.          *)
(***************************************************************************)
Probe(o) ==
  IF o.need > usable /\ o.need > allowed' * PageSize
  THEN Rejected(o, "outofbounds", maxDesired)
  ELSE LET required == [o EXCEPT !.need = @ % (MaxUint + 1)]
       IN  IF required.need <= usable
           THEN UNCHANGED basedataStart /\ Succeed(required)
           ELSE EnsureCapacity(required)

-----------------------------------------------------------------------------
(***************************************************************************)
(* Constructing the runtime: ActiveMemoryManager::init reserves the        *)
(* basedata, then initializeModule writes it and probes and copies the     *)
(* data segments.                                                          *)
(***************************************************************************)
Construct ==
  /\ pc = "new"
  /\ allowed' = InitialPages
  /\ EnsureCapacity(Operation("init", 0, NoAccess, "reserved"))

LoadSegments ==
  /\ pc = "reserved"
  /\ UNCHANGED allowed
  /\ \E a \in DataSegments :
       LET o == Operation("segments", a.at + a.width, a, "idle")
       IN  IF o.need = 0 THEN UNCHANGED basedataStart /\ Succeed(o) ELSE Probe(o)

(***************************************************************************)
(* A thread that constructs a lock on linearMemoryMutex_ waits for this.   *)
(***************************************************************************)
\* a faulty variant, to show what the properties detect
NoMutex == TRUE
MutexFree == mutex = NoThread

(***************************************************************************)
(* runtimeMemoryAllocFnc: while it holds the mutex it reallocates to the   *)
(* proposed length or else to the minimum, keeps the common prefix and     *)
(* stores the new block; when both fail it changes nothing, which shrink   *)
(* accepts.  The mutex is free again at the end of the step.               *)
(***************************************************************************)
Reallocate ==
  /\ pc = "alloc"
  /\ MutexFree
  /\ \/ \E length \in {Proposed(Rounded(op.need)), Rounded(op.need)}, address \in Address :
          /\ data' = address
          /\ size' = length
          /\ bytes' = [o \in Offset |-> IF BasedataSize + o < Smaller(size, length)
                                        THEN bytes[o] ELSE Junk]
          /\ pc' = "sync"
          /\ UNCHANGED <<manager, basedata, registers, op, answer>>
     \/ /\ op.kind = "shrink"
        /\ pc' = "sync"
        /\ UNCHANGED <<block, manager, basedata, registers, op, answer>>
     \/ /\ op.kind # "shrink"
        /\ Rejected(op, "couldnotextend", Rounded(op.need))
        /\ UNCHANGED allowed

(***************************************************************************)
(* Back from the callback: syncBasedataStart, and the rest of the call.    *)
(***************************************************************************)
Synchronize ==
  /\ pc = "sync"
  /\ basedataStart' = data
  /\ Succeed(op)
  /\ UNCHANGED allowed

(***************************************************************************)
(* Calling an exported function: the wrapper receives the linear memory    *)
(* base and caches the size; the function entry checks for an interruption *)
(* request.                                                                *)
(***************************************************************************)
Call ==
  /\ pc = "idle"
  /\ regLinMem' = basedataStart
  /\ regMemSize' = actual - AccessMax
  /\ IF status # 0
     THEN Trap("interrupted")
     ELSE pc' = "wasm" /\ answer' = Said("none") /\ UNCHANGED <<op, status>>
  /\ UNCHANGED <<block, manager, linMemWasmSize, actual>>

Return ==
  /\ pc = "wasm"
  /\ pc' = "idle"
  /\ answer' = Said("none")
  /\ UNCHANGED <<block, manager, basedata, registers, op>>

(***************************************************************************)
(* A loop header of the compiled code that finds the flag set.             *)
(***************************************************************************)
\* a faulty variant, to show what the properties detect
NoCheckInLoops == FALSE

Interrupt ==
  /\ pc = "wasm"
  /\ status # 0
  /\ Trap("interrupted")
  /\ UNCHANGED <<block, manager, linMemWasmSize, actual, registers>>

(***************************************************************************)
(* A load or store of the compiled code.  The inline check compares the    *)
(* address with memSize; the extension request compares the end of the     *)
(* access with the actual size and only then asks the runtime.             *)
(***************************************************************************)
InBounds(a) ==
  \/ a.at <= regMemSize
  \/ a.at + a.width <= regMemSize + AccessMax

AccessDirectly(a) ==
  /\ pc = "wasm"
  /\ InBounds(a)
  /\ IF regLinMem = data
     THEN bytes' = Written(bytes, a) /\ answer' = AccessAnswer(bytes, a)
     ELSE bytes' = bytes /\ answer' = AccessAnswer([o \in Offset |-> Junk], a)
  /\ UNCHANGED <<data, size, manager, basedata, registers, pc, op>>

RequestExtension(a) ==
  LET o == Operation("access", a.at + a.width, a, "wasm")
  IN  /\ pc = "wasm"
      /\ ~InBounds(a)
      /\ IF o.need + BasedataSize > MaxUint
         THEN Rejected(o, "couldnotextend", maxDesired) /\ UNCHANGED allowed
         ELSE allowed' = linMemWasmSize /\ Probe(o)

(***************************************************************************)
(* memory.grow: a 32-bit addition, its carry and the limit.                *)
(***************************************************************************)
\* a faulty variant, to show what the properties detect
GrowPastLimit(delta) ==
  LET carry == linMemWasmSize + delta > MaxUint
      total == (linMemWasmSize + delta) % (MaxUint + 1)
  IN  /\ pc = "wasm"
      /\ IF carry \/ linMemWasmSize > PageLimit
         THEN answer' = Grown(-1) /\ UNCHANGED linMemWasmSize
         ELSE answer' = Grown(linMemWasmSize) /\ linMemWasmSize' = total
      /\ UNCHANGED <<block, manager, actual, status, registers, pc, op>>

MemoryGrow(delta) ==
  LET carry == linMemWasmSize + delta > MaxUint
      total == (linMemWasmSize + delta) % (MaxUint + 1)
  IN  /\ pc = "wasm"
      /\ IF carry \/ total > PageLimit
         THEN answer' = Grown(-1) /\ UNCHANGED linMemWasmSize
         ELSE answer' = Grown(linMemWasmSize) /\ linMemWasmSize' = total
      /\ UNCHANGED <<block, manager, actual, status, registers, pc, op>>

(***************************************************************************)
(* Calling an imported function, and returning from it: the base is read   *)
(* again through the cached address of basedataStart_, the interruption    *)
(* flag is checked, the size is read again.                                *)
(***************************************************************************)
CallImport ==
  /\ pc = "wasm"
  /\ pc' = "host"
  /\ answer' = Said("none")
  /\ UNCHANGED <<block, manager, basedata, registers, op>>

\* a faulty variant, to show what the properties detect
ReturnWithOldSize ==
  /\ pc = "host"
  /\ regLinMem' = basedataStart
  /\ IF status # 0
     THEN Trap("interrupted")
     ELSE pc' = "wasm" /\ answer' = Said("none") /\ UNCHANGED <<op, status>>
  /\ UNCHANGED <<block, manager, linMemWasmSize, actual, regMemSize>>

ReturnFromImport ==
  /\ pc = "host"
  /\ regLinMem' = basedataStart
  /\ IF status # 0
     THEN Trap("interrupted") /\ UNCHANGED regMemSize
     ELSE /\ regMemSize' = actual - AccessMax
          /\ pc' = "wasm" /\ answer' = Said("none") /\ UNCHANGED <<op, status>>
  /\ UNCHANGED <<block, manager, linMemWasmSize, actual>>

(***************************************************************************)
(* The host takes a region and uses it.  The last byte is narrowed to      *)
(* 32 bits before it is probed.                                            *)
(***************************************************************************)
Region(a) ==
  LET lastByte == (a.at + a.width - 1) % (MaxUint + 1)
  IN  /\ pc \in {"idle", "host"}
      /\ allowed' = linMemWasmSize
      /\ Probe(Operation("region", lastByte + 1, a, pc))

(***************************************************************************)
(* shrinkToSize.  Length 0 is reallocShrinkToBasedataSize.                 *)
(***************************************************************************)
ShrinkToSize(length) ==
  LET o == Operation("shrink", length, NoAccess, pc)
  IN  /\ pc \in {"idle", "host"}
      /\ IF length > usable \/ ~Representable(length)
         THEN Rejected(o, "refused", maxDesired)
         ELSE IF Rounded(length) < size /\ Rounded(length) <= maxRam
              THEN Extend(o)
              ELSE UNCHANGED basedataStart /\ Succeed(o)
      /\ UNCHANGED allowed

ShrinkToActiveSize == ShrinkToSize(usable + BasedataSize)

(***************************************************************************)
(* requestInterruption of another thread, on a module that is set up: with *)
(* the mutex held it computes the address of the flag from basedataStart_  *)
(* and writes there.  A write to a block that is gone reaches no flag.     *)
(***************************************************************************)
HasModule == pc \notin {"new", "reserved", "dead"} /\ op.kind \notin {"init", "segments"}

LockMutex(t) ==
  /\ ipc[t] = "ready"
  /\ HasModule
  /\ MutexFree
  /\ mutex' = t
  /\ ipc' = [ipc EXCEPT ![t] = "locked"]
  /\ iptr' = [iptr EXCEPT ![t] = basedataStart]
  /\ UNCHANGED <<block, manager, basedata, registers, control>>

WriteFlag(t) ==
  /\ ipc[t] = "locked"
  /\ status' = IF iptr[t] = data THEN 1 ELSE status
  /\ mutex' = NoThread
  /\ ipc' = [ipc EXCEPT ![t] = "done"]
  /\ UNCHANGED <<block, manager, linMemWasmSize, actual, registers, control, iptr>>

(***************************************************************************)
(* setMaxRam refuses a limit below the memory in use.                      *)
(***************************************************************************)
SetMaxRam(limit) ==
  /\ pc \in {"idle", "host"}
  /\ limit >= usable + BasedataSize
  /\ maxRam' = limit
  /\ UNCHANGED <<block, manager, basedata, registers, control, requests>>

-----------------------------------------------------------------------------
Init ==
  /\ maxRam \in RamLimits
  /\ data = NoAddress /\ size = 0 /\ bytes = [o \in Offset |-> Junk]
  /\ basedataStart = NoAddress /\ allowed = 0 /\ usable = 0 /\ maxDesired = 0
  /\ linMemWasmSize = InitialPages /\ actual = 0 /\ status = 0
  /\ regLinMem = NoAddress /\ regMemSize = 0
  /\ pc = "new" /\ op = NoOp /\ answer = Said("none")
  /\ mutex = NoThread
  /\ ipc = [t \in Interrupter |-> "ready"]
  /\ iptr = [t \in Interrupter |-> NoAddress]

Setup == (Construct \/ LoadSegments) /\ UNCHANGED <<maxRam, requests>>

Callback == (Reallocate \/ Synchronize) /\ UNCHANGED <<maxRam, requests>>

LoopHeader == Interrupt /\ UNCHANGED <<maxRam, requests>>

ImportReturns == ReturnFromImport /\ UNCHANGED <<maxRam, requests>>

WasmStep ==
  /\ \/ Call \/ Return \/ CallImport
     \/ \E a \in WasmAccesses : AccessDirectly(a) \/ RequestExtension(a)
     \/ \E delta \in GrowDeltas : MemoryGrow(delta)
  /\ UNCHANGED <<maxRam, requests>>

HostStep ==
  /\ \/ \E a \in HostRegions : Region(a)
     \/ \E length \in ShrinkLengths : ShrinkToSize(length)
     \/ ShrinkToActiveSize
  /\ UNCHANGED <<maxRam, requests>>

Limit == \E limit \in RamLimits : SetMaxRam(limit)

RequestStep(t) == (LockMutex(t) \/ WriteFlag(t)) /\ UNCHANGED maxRam

Next ==
  \/ Setup \/ Callback \/ LoopHeader \/ ImportReturns \/ WasmStep \/ HostStep
  \/ Limit
  \/ \E t \in Interrupter : RequestStep(t)

Spec == Init /\ [][Next]_vars

(***************************************************************************)
(* Fairness.  The executing thread keeps running, so a callback and its    *)
(* continuation happen; every cycle of compiled code passes a loop header  *)
(* or a function entry, which check the flag; a host function returns; a   *)
(* thread in requestInterruption leaves it.                                *)
(***************************************************************************)
FairSpec ==
  /\ Spec
  /\ WF_vars(Callback)
  /\ SF_vars(LoopHeader)
  /\ SF_vars(ImportReturns)
  /\ \A t \in Interrupter : WF_vars(WriteFlag(t) /\ UNCHANGED maxRam)

-----------------------------------------------------------------------------
(***************************************************************************)
(* Type invariant.                                                         *)
(***************************************************************************)
Base == Address \union {NoAddress}
Content == Byte \union {Junk}
Kind == {"none", "init", "segments", "access", "region", "shrink"}
Running == {"reserved", "idle", "wasm", "host"}
Place == {"new", "reserved", "idle", "wasm", "host", "alloc", "sync", "dead"}
OperationType == [kind : Kind, need : 0 .. MaxUint, access : Access, from : Place]

TypeOK ==
  /\ maxRam \in RamLimits
  /\ data \in Base /\ size \in 0 .. MaxUint /\ bytes \in [Offset -> Content]
  /\ basedataStart \in Base /\ allowed \in 0 .. PageLimit
  /\ usable \in 0 .. MaxUint /\ maxDesired \in Nat
  /\ linMemWasmSize \in 0 .. PageLimit /\ actual \in 0 .. MaxUint /\ status \in {0, 1}
  /\ regLinMem \in Base /\ regMemSize \in Int
  /\ pc \in Place
  /\ op \in OperationType
  /\ mutex \in Interrupter \union {NoThread}
  /\ ipc \in [Interrupter -> {"ready", "locked", "done"}]
  /\ iptr \in [Interrupter -> Base]

(***************************************************************************)
(* The compiled code never runs with registers from before a reallocation: *)
(* the base it adds addresses to is the block in use and the size it       *)
(* compares with is the current usable size (restoreFromJobMemoryPtrPtr,   *)
(* emitExtensionRequestFunction and the wrapper reload them).              *)
(***************************************************************************)
RegistersCurrent ==
  pc = "wasm" => /\ regLinMem = data
                 /\ regMemSize = usable - AccessMax

(***************************************************************************)
(* Whatever is usable is backed by the block and lies within the formal    *)
(* size, and the size the compiled code reads is the usable one.  A shrink *)
(* has given back the end of the block before it lowers usable.            *)
(***************************************************************************)
InUse == IF pc = "sync" /\ op.kind = "shrink" THEN op.need ELSE usable

UsableBacked ==
  /\ InUse > 0 => BasedataSize + InUse <= size
  /\ usable <= allowed * PageSize
  /\ allowed <= linMemWasmSize

(***************************************************************************)
(* Inductive invariant: the two above, and what is known while a           *)
(* reallocation is under way.                                              *)
(***************************************************************************)
Waiting == pc \in {"alloc", "sync"}

\* the operation that waits, and where it came from
Entered(o) ==
  /\ o.kind \in Kind \ {"none"}
  /\ o.kind = "init" => o.need = 0 /\ o.from = "reserved"
  /\ o.kind = "segments" => o.from = "idle"
  /\ o.kind = "access" => o.from = "wasm"
  /\ o.kind \in {"region", "shrink"} => o.from \in {"idle", "host"}

OperationOK == IF Waiting THEN Entered(op) ELSE op = NoOp

\* the length it asks for is permitted, and the block it gets is large enough
Permitted(o) ==
  IF o.kind = "shrink" THEN o.need <= usable
                       ELSE usable <= o.need /\ o.need <= allowed * PageSize

LengthOK ==
  Waiting => /\ Permitted(op)
             /\ pc = "alloc" => Rounded(op.need) <= maxRam /\ Rounded(op.need) <= MaxUint
             /\ pc = "alloc" /\ op.kind = "shrink" => Rounded(op.need) <= size
             /\ pc = "sync" => Rounded(op.need) <= size

\* basedataStart_ is stale only between the callback and syncBasedataStart
BaseOK == pc # "sync" => basedataStart = data

NewOK == pc = "new" => usable = 0 /\ linMemWasmSize = InitialPages

\* the size in the basedata is the usable size
ActualOK == actual = usable

\* a locked thread is the owner of the mutex
MutexOK == \A t \in Interrupter : ipc[t] = "locked" <=> mutex = t

IInv ==
  /\ TypeOK
  /\ OperationOK
  /\ LengthOK
  /\ BaseOK
  /\ NewOK
  /\ ActualOK
  /\ UsableBacked
  /\ RegistersCurrent
  /\ MutexOK

\* the bytes a waiting operation accesses lie within the length it asks for, as
\* long as the host asks for no region that leaves 32 bits; a shrink has named
\* the length it keeps
AccessOK ==
  Waiting => /\ IF op.kind \in {"init", "shrink"} THEN op.access = NoAccess
                ELSE op.access.at + op.access.width <= op.need
             /\ op.kind = "shrink" => answer = Shrinking(op.need)

RegionsInWord == \A a \in HostRegions : a.at + a.width <= MaxUint

(***************************************************************************)
(* A program sees nothing of blocks, reallocation and lazily usable bytes: *)
(* what ActiveJobMemory does implements the abstract linear memory.  A     *)
(* byte that was exposed without being zeroed, lost in a reallocation or   *)
(* accessed beyond the pages would break it.                               *)
(***************************************************************************)
LM == INSTANCE WasmLinearMemory WITH
        pages <- linMemWasmSize,
        mem <- [o \in Offset |-> IF o < InUse THEN bytes[o] ELSE 0],
        Reach <- 0 .. MaxUint + 1

ImplementsLinearMemory == LM!LMSpec

(***************************************************************************)
(* The block never grows beyond the limit in force.                        *)
(***************************************************************************)
GrowthWithinMaxRam == [][size' > size => size' <= maxRam]_vars

(***************************************************************************)
(* While a thread holds the mutex to write the flag, the block it has      *)
(* addressed is not reallocated under it.                                  *)
(***************************************************************************)
RequestNotOvertaken ==
  [][\A t \in Interrupter :
       (ipc[t] = "locked" /\ iptr[t] = data /\ ipc'[t] = "locked") => iptr[t] = data']_vars

(***************************************************************************)
(* A request that finds the current block while a function is executing    *)
(* ends the execution, whatever extensions and host calls come between.    *)
(***************************************************************************)
RequestEndsExecution ==
  \A t \in Interrupter :
    (ipc[t] = "locked" /\ iptr[t] = data /\ pc # "idle") ~> (pc = "idle")

-----------------------------------------------------------------------------
(***************************************************************************)
(* What the documentation of the code says, and the code does not do.      *)
(***************************************************************************)

(***************************************************************************)
(* WasmModule.hpp:636: the mutex protects the reallocation against a kill  *)
(* from another thread; the flag would always be written into the block    *)
(* in use.  It is released before syncBasedataStart.                       *)
(***************************************************************************)
RequestReachesModule ==
  \A t \in Interrupter : ipc[t] = "locked" => iptr[t] = data
=============================================================================
