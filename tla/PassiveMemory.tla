---------------------------- MODULE PassiveMemory ----------------------------
(***************************************************************************)
(* The job memory of a module built without LINEAR_MEMORY_BOUNDS_CHECKS:   *)
(* the LinearMemoryAllocator over reserved address space, compiled code    *)
(* that accesses it unchecked, the fault handler, and the landing pad that *)
(* commits pages and resumes at the faulting instruction.                  *)
(*                                                                         *)
(* Sizes are the code's, scaled down: an OS page divides a Wasm page, the  *)
(* pages of a 32-bit memory are Space bytes.  One thread executes the      *)
(* module; another may call setMemoryLimit at any time if Concurrent.      *)
(***************************************************************************)
EXTENDS MemoryAccess

CONSTANTS
  OsPage, PageSize,    \* bytes of a page of the operating system, of Wasm
  Space,               \* 2^32
  PageLimit,           \* memoryMaximumSize, or 65536 pages
  InitialPages,
  PagedBasedata,       \* pagedBasedataSize_
  Limits,              \* arguments of setMemoryLimit
  NoLimit,
  Byte, Nothing,       \* values of a byte; in place of one: the access reads
  DataSegments, WasmAccesses, HostRegions, ShrinkLengths, GrowDeltas,
  Misalignments,       \* of the stack pointer where a fault may strike
  Eager,               \* EAGER_ALLOCATION
  StoresTear,          \* AArch64: a store that faults may have written bytes
  Concurrent           \* setMemoryLimit is called by another thread

Offset == 0 .. Space - 1
Access == [at : Nat, width : Nat, byte : Byte \union {Nothing}]
NoAccess == [at |-> 0, width |-> 0, byte |-> Nothing]
FirstBytes(length) == [at |-> 0, width |-> length, byte |-> Nothing]

ASSUME PassiveSizeAssumption ==
  /\ OsPage \in Nat \ {0} /\ PageSize \in Nat \ {0} /\ PageSize % OsPage = 0
  /\ Space \in Nat \ {0}
  /\ PagedBasedata \in Nat /\ PagedBasedata % OsPage = 0
  /\ PageLimit \in Nat /\ PageLimit * PageSize <= Space
  /\ InitialPages \in 0 .. PageLimit
  /\ Limits \subseteq Nat /\ NoLimit \notin Nat
  /\ 0 \in Misalignments /\ Misalignments \subseteq Nat
  /\ {Eager, StoresTear, Concurrent} \subseteq BOOLEAN

ASSUME PassiveInputAssumption ==
  /\ 0 \in Byte /\ Nothing \notin Byte
  /\ DataSegments \union WasmAccesses \union HostRegions \subseteq Access
  /\ \A a \in WasmAccesses \union HostRegions : a.width >= 1
  /\ ShrinkLengths \subseteq Nat /\ GrowDeltas \subseteq Nat

VARIABLES
  limit,           \* pagedMemoryLimit_
  newLimit,        \* the limit setMemoryLimit has accepted and not yet stored
  committed,       \* committedSize_, the basedata included
  linMemPages,     \* linMemPages_ of the allocator
  linMemWasmSize,  \* the size in the basedata
  bytes,           \* what the committed pages hold, 0 elsewhere
  landing,         \* landingPadData_
  cell,            \* the cell landingPadTarget of the basedata
  drift,           \* bytes the stack pointer is below where the fault struck
  pc, op, answer

memory == <<committed, linMemPages, linMemWasmSize, bytes>>
pad == <<landing, cell, drift>>
limits == <<limit, newLimit>>
control == <<pc, op, answer>>
vars == <<limits, memory, pad, control>>

RoundUp(n) == ((n + OsPage - 1) \div OsPage) * OsPage
RoundDown(n) == (n \div OsPage) * OsPage
Larger(a, b) == IF a >= b THEN a ELSE b

\* getLinearMemorySize, and the formal size in bytes
Usable == committed - PagedBasedata
Formal == linMemWasmSize * PageSize

(***************************************************************************)
(* Operations: what is done, the access that follows or the bytes a shrink *)
(* is to keep, whether a probing load comes first, the size to commit, and *)
(* where the thread goes on.                                               *)
(***************************************************************************)
Operation(kind, access, probing, target, from) ==
  [kind |-> kind, access |-> access, probing |-> probing, target |-> target, from |-> from]
NoOp == Operation("none", NoAccess, FALSE, 0, "idle")

Kept(length) == [o \in Offset |-> IF o < length THEN bytes[o] ELSE 0]

Stored(content, a, upTo) ==
  [o \in Offset |-> IF a.byte # Nothing /\ o \in Covers(a.at, a.width) /\ o < upTo
                    THEN a.byte ELSE content[o]]

AccessAnswer(a) ==
  IF a.byte = Nothing THEN Accessed("loaded", [o \in Covers(a.at, a.width) |-> bytes[o]])
                      ELSE Accessed("stored", [o \in Covers(a.at, a.width) |-> a.byte])

Leave(to, what) == pc' = to /\ op' = NoOp /\ answer' = Said(what)

(***************************************************************************)
(* An operation fails: the constructor throws, a host call throws, the     *)
(* compiled code or the landing pad traps.  A failed shrink is not noticed *)
(* by shrinkToSize.                                                        *)
(***************************************************************************)
Fail(o, why) ==
  CASE o.kind \in {"init", "segments"} -> Leave("dead", "refused")
    [] o.kind \in {"fault", "grow"} -> Leave("idle", "couldnotextend")
    [] o.kind = "region" -> Leave(o.from, why)
    [] o.kind = "shrink" -> Leave(o.from, "none")

Failed(o, why) ==
  /\ Fail(o, why)
  /\ drift' = 0
  /\ UNCHANGED <<committed, linMemWasmSize, bytes>>

(***************************************************************************)
(* The memory manager has said yes.  The landing pad returns to the        *)
(* faulting instruction, with the stack pointer moved up by what its cell  *)
(* holds; the instruction is executed again.                               *)
(***************************************************************************)
\* a faulty variant, to show what the properties detect
BackToCodeUnaligned == drift' = drift

BackToCode == drift' = drift - cell

Succeed(o) ==
  /\ CASE o.kind = "init" -> Leave("reserved", "none")
       [] o.kind = "segments" -> pc' = "idle" /\ op' = NoOp /\ answer' = AccessAnswer(o.access)
       [] o.kind = "fault" -> pc' = "access" /\ op' = [o EXCEPT !.kind = "access"] /\ UNCHANGED answer
       [] o.kind = "grow" -> pc' = "wasm" /\ op' = NoOp /\ answer' = Grown(linMemWasmSize)
       [] o.kind = "region" -> pc' = o.from /\ op' = NoOp /\ answer' = AccessAnswer(o.access)
       [] o.kind = "shrink" -> pc' = o.from /\ op' = NoOp /\ answer' = Shrunk(o.access.width)
  /\ linMemWasmSize' = IF o.kind = "grow" THEN linMemPages' ELSE linMemWasmSize
  /\ IF o.kind = "fault" THEN BackToCode ELSE UNCHANGED drift
  /\ bytes' = IF o.kind = "shrink" THEN Kept(o.target - PagedBasedata)
              ELSE IF o.kind \in {"segments", "region"} THEN Stored(bytes, o.access, Space)
              ELSE bytes

(***************************************************************************)
(* LinearMemoryAllocator::commit compares with the limit, then resizes.    *)
(***************************************************************************)
Resize(o, size) ==
  IF size > limit
  THEN Failed(o, "couldnotextend")
  ELSE /\ pc' = "commit"
       /\ op' = [o EXCEPT !.target = size]
       /\ UNCHANGED <<committed, linMemWasmSize, bytes, drift, answer>>

\* VirtualMemoryAllocator::resize; the operating system may refuse
Commit ==
  /\ pc = "commit"
  /\ UNCHANGED <<limits, linMemPages, landing, cell>>
  /\ \/ Succeed(op) /\ committed' = op.target
     \/ Failed(op, "couldnotextend")

\* a faulty variant, to show what the properties detect
PagesForOffset(offset) == RoundUp(offset)
\* a faulty variant, to show what the properties detect
PagesAndOneMore(offset) == RoundUp(offset + 1) + OsPage

PagesFor(offset) == RoundUp(offset + 1)

Probe(o, offset) ==
  \/ offset < Usable /\ Succeed(o) /\ UNCHANGED committed
  \/ /\ offset >= Usable /\ offset < linMemPages * PageSize
     /\ Resize(o, PagedBasedata + PagesFor(offset))
  \/ offset >= Usable /\ offset >= linMemPages * PageSize /\ Failed(o, "outofbounds")

-----------------------------------------------------------------------------
(***************************************************************************)
(* init reserves the address space and commits the basedata, with Eager    *)
(* the initial pages too; initializeModule probes and copies the segments. *)
(***************************************************************************)
Construct ==
  /\ pc = "new"
  /\ linMemPages' = InitialPages
  /\ Resize(Operation("init", NoAccess, FALSE, 0, "reserved"),
            PagedBasedata + IF Eager THEN InitialPages * PageSize ELSE 0)
  /\ UNCHANGED <<limits, landing, cell>>

LoadSegments ==
  /\ pc = "reserved"
  /\ \E a \in DataSegments :
       LET o == Operation("segments", a, FALSE, 0, "idle")
       IN  IF a.at + a.width = 0 THEN Succeed(o) /\ UNCHANGED committed
                                 ELSE Probe(o, a.at + a.width - 1)
  /\ UNCHANGED <<limits, linMemPages, landing, cell>>

Call == pc = "idle" /\ Leave("wasm", "none") /\ UNCHANGED <<limits, memory, pad>>

Return == pc = "wasm" /\ Leave("idle", "none") /\ UNCHANGED <<limits, memory, pad>>

(***************************************************************************)
(* A load or store of the compiled code.  On a machine whose stores tear,  *)
(* a store of more than a byte is preceded by a load of the same bytes     *)
(* (emitMemoryLoadProbe).                                                  *)
(***************************************************************************)
\* a faulty variant, to show what the properties detect
NeverProbed(a) == FALSE

NeedsProbe(a) == StoresTear /\ a.byte # Nothing /\ a.width > 1

Issue(a) ==
  /\ pc = "wasm"
  /\ pc' = "access"
  /\ op' = Operation("access", a, NeedsProbe(a), 0, "wasm")
  /\ UNCHANGED <<limits, memory, pad, answer>>

Accessible(a) == a.at + a.width <= Usable

Execute ==
  LET a == op.access
  IN  /\ pc = "access" /\ Accessible(a)
      /\ IF op.probing
         THEN op' = [op EXCEPT !.probing = FALSE] /\ UNCHANGED <<bytes, pc, answer>>
         ELSE /\ bytes' = Stored(bytes, a, Space)
              /\ pc' = "wasm" /\ op' = NoOp /\ answer' = AccessAnswer(a)
      /\ UNCHANGED <<limits, committed, linMemPages, linMemWasmSize, pad>>

(***************************************************************************)
(* memorySignalHandler.  The first byte that is not committed faults; it   *)
(* is out of bounds, or the handler prepares the landing pad.  What a torn *)
(* store has written stays.                                                *)
(***************************************************************************)
FirstFault(a) == Larger(a.at, Usable)

Torn(a) == {0} \union IF StoresTear /\ ~op.probing THEN {Usable} ELSE {}

LeavesFormalSize(offset) == offset >= Formal

Fault ==
  LET a == op.access
  IN  /\ pc = "access" /\ ~Accessible(a)
      /\ \E upTo \in Torn(a) : bytes' = Stored(bytes, a, upTo)
      /\ IF LeavesFormalSize(FirstFault(a))
         THEN Leave("idle", "outofbounds") /\ UNCHANGED pad
         ELSE /\ landing' = FirstFault(a) /\ cell' = 0 /\ UNCHANGED drift
              /\ pc' = "pad" /\ UNCHANGED <<op, answer>>
      /\ UNCHANGED <<limits, committed, linMemPages, linMemWasmSize>>

(***************************************************************************)
(* The landing pad aligns the stack pointer, puts by how much into the     *)
(* cell that held the function it calls, and calls it:                     *)
(* probeLinearMemoryOffset, which traps if the page is not to be had.      *)
(***************************************************************************)
LandingPad(misalignment) ==
  /\ pc = "pad"
  /\ cell' = misalignment /\ drift' = misalignment
  /\ pc' = "probe"
  /\ UNCHANGED <<limits, memory, landing, op, answer>>

ProbeLanding ==
  /\ pc = "probe"
  /\ Probe([op EXCEPT !.kind = "fault"], landing)
  /\ UNCHANGED <<limits, linMemPages, landing, cell>>

(***************************************************************************)
(* memory.grow tells the allocator first and then writes the new size.     *)
(* extend only notes the pages, or with Eager commits them.                *)
(***************************************************************************)
MemoryGrow(delta) ==
  /\ pc = "wasm"
  /\ IF linMemWasmSize + delta > PageLimit
     THEN /\ answer' = Grown(-1)
          /\ UNCHANGED <<pc, op, committed, linMemPages, linMemWasmSize, bytes, drift>>
     ELSE LET o == Operation("grow", NoAccess, FALSE, 0, "wasm")
          IN  /\ linMemPages' = linMemWasmSize + delta
              /\ IF Eager THEN Resize(o, PagedBasedata + linMemPages' * PageSize)
                          ELSE Succeed(o) /\ UNCHANGED committed
  /\ UNCHANGED <<limits, landing, cell>>

CallImport == pc = "wasm" /\ Leave("host", "none") /\ UNCHANGED <<limits, memory, pad>>

ReturnFromImport == pc = "host" /\ Leave("wasm", "none") /\ UNCHANGED <<limits, memory, pad>>

-----------------------------------------------------------------------------
(***************************************************************************)
(* The embedder.  getLinearMemoryRegion truncates the last byte to 32      *)
(* bits.  shrink keeps whole pages below the length and refuses a length   *)
(* that is not committed.                                                  *)
(***************************************************************************)
Outside == pc \in {"idle", "host"}

Region(a) ==
  /\ Outside
  /\ Probe(Operation("region", a, FALSE, 0, pc), (a.at + a.width - 1) % Space)
  /\ UNCHANGED <<limits, linMemPages, landing, cell>>

ShrunkSize(length) == PagedBasedata + RoundDown(length)

ShrinkToSize(length) ==
  /\ Outside
  /\ LET o == Operation("shrink", FirstBytes(length), FALSE, 0, pc)
     IN  IF Usable < length THEN Failed(o, "none") ELSE Resize(o, ShrunkSize(length))
  /\ UNCHANGED <<limits, linMemPages, landing, cell>>

(***************************************************************************)
(* setMemoryLimit compares the rounded limit with what is committed and    *)
(* then stores it.  Both are atomic; the pair is not.                      *)
(***************************************************************************)
\* a faulty variant, to show what the properties detect
AcceptedExactly(memoryLimit) == memoryLimit >= Usable

Accepted(memoryLimit) == RoundDown(memoryLimit) >= committed

CheckLimit(memoryLimit) ==
  /\ newLimit = NoLimit
  /\ Concurrent \/ pc \in {"new", "idle", "host"}
  /\ Accepted(memoryLimit)
  /\ newLimit' = RoundDown(memoryLimit)
  /\ UNCHANGED <<limit, memory, pad, control>>

StoreLimit ==
  /\ newLimit # NoLimit
  /\ limit' = newLimit
  /\ newLimit' = NoLimit
  /\ UNCHANGED <<memory, pad, control>>

-----------------------------------------------------------------------------
Init ==
  /\ limit \in {RoundDown(l) : l \in Limits} /\ newLimit = NoLimit
  /\ committed = 0 /\ linMemPages = 0 /\ linMemWasmSize = InitialPages
  /\ bytes = [o \in Offset |-> 0]
  /\ landing = 0 /\ cell = 0 /\ drift = 0
  /\ pc = "new" /\ op = NoOp /\ answer = Said("none")

CompiledCode ==
  \/ Call \/ Return \/ CallImport \/ ReturnFromImport
  \/ \E a \in WasmAccesses : Issue(a)
  \/ \E delta \in GrowDeltas : MemoryGrow(delta)

AccessStep ==
  \/ Execute \/ Fault \/ ProbeLanding
  \/ \E m \in Misalignments : LandingPad(m)

Embedder ==
  \/ Construct \/ LoadSegments
  \/ \E a \in HostRegions : Region(a)
  \/ \E length \in ShrinkLengths : ShrinkToSize(length)

Runs == Concurrent \/ newLimit = NoLimit

Next ==
  \/ Runs /\ (CompiledCode \/ AccessStep \/ Commit \/ Embedder)
  \/ StoreLimit
  \/ \E l \in Limits : CheckLimit(l)

Spec == Init /\ [][Next]_vars

(***************************************************************************)
(* The executing thread keeps running: a faulting instruction is handled,  *)
(* resumed and executed.                                                   *)
(***************************************************************************)
FairSpec ==
  /\ Spec
  /\ WF_vars(Runs /\ AccessStep) /\ WF_vars(Runs /\ Commit) /\ WF_vars(StoreLimit)

-----------------------------------------------------------------------------
(***************************************************************************)
(* Nothing outside the formal size is ever accessible, so that every       *)
(* access that leaves it faults, although nobody compares its end with the *)
(* size; and nothing outside the committed pages has a value, so that what *)
(* is committed again reads 0.                                             *)
(***************************************************************************)
OutsideFaults ==
  /\ pc \notin {"new", "dead"} => Usable <= Formal
  /\ \A o \in Offset : o >= Usable => bytes[o] = 0

(***************************************************************************)
(* A fault leaves no trace in the interrupted code: back at the            *)
(* instruction, the stack pointer is where it was, although the landing    *)
(* pad keeps what it has taken off in the cell of its call target.         *)
(***************************************************************************)
StackPointerRestored == pc \notin {"probe", "commit"} => drift = 0

(***************************************************************************)
(* The memory in use never exceeds the limit in force, if the limit is set *)
(* by the thread that uses the module.                                     *)
(***************************************************************************)
UsageWithinLimit == ~Concurrent => committed <= limit

(***************************************************************************)
(* A program cannot tell it from the abstract memory: neither commits,     *)
(* faults and resumed instructions nor torn stores are visible.  It holds  *)
(* if every length given to shrink ends with an OS page (WholePages): of   *)
(* any other length the code drops the bytes in the last page, although    *)
(* they "must remain usable" (IMemoryManager.hpp:94-96).                   *)
(***************************************************************************)
LM == INSTANCE WasmLinearMemory WITH
        pages <- linMemWasmSize,
        mem <- bytes,
        Reach <- 0 .. 2 * Space

ImplementsLinearMemory == LM!LMSpec

(***************************************************************************)
(* An access ends, with its bytes or with a trap: each fault it takes      *)
(* brings it further.                                                      *)
(***************************************************************************)
AccessEnds == (pc = "access") ~> (pc \in {"wasm", "idle"})

-----------------------------------------------------------------------------
(***************************************************************************)
(* Type invariant.                                                         *)
(***************************************************************************)
Kind == {"none", "init", "segments", "access", "fault", "grow", "region", "shrink"}
Place == {"new", "reserved", "idle", "wasm", "host", "access", "pad", "probe", "commit", "dead"}
OperationType == [kind : Kind, access : Access, probing : BOOLEAN, target : Nat, from : Place]

TypeOK ==
  /\ limit \in Nat /\ newLimit \in Nat \union {NoLimit}
  /\ committed \in Nat /\ bytes \in [Offset -> Byte]
  /\ linMemPages \in 0 .. PageLimit /\ linMemWasmSize \in 0 .. PageLimit
  /\ landing \in Nat /\ cell \in Nat /\ drift \in Nat
  /\ pc \in Place /\ op \in OperationType

(***************************************************************************)
(* The inductive invariant: the operation the thread is in, ...            *)
(***************************************************************************)
OperationOK ==
  /\ pc \in {"access", "pad", "probe"} => op.kind = "access" /\ op.access \in WasmAccesses
  /\ pc = "commit" =>
       /\ op.kind \notin {"none", "access"}
       /\ op.kind = "segments" => op.access \in DataSegments
       /\ op.kind = "fault" => op.access \in WasmAccesses
       /\ op.kind = "region" => op.access \in HostRegions
       /\ op.kind \in {"region", "shrink"} => op.from \in {"idle", "host"}

\* ... the stack pointer is off only while the landing pad is at work ...
InLandingPad == pc = "probe" \/ (pc = "commit" /\ op.kind = "fault")
PadOK == drift = IF InLandingPad THEN cell ELSE 0

\* ... the limit in force and the one that has been accepted ...
LimitOK ==
  /\ committed <= limit
  /\ pc = "commit" => op.target <= limit
  /\ newLimit # NoLimit => committed <= newLimit /\ pc \in {"new", "idle", "host"}

(***************************************************************************)
(* ... and what the size the thread is about to commit is good for.        *)
(***************************************************************************)
SizesOK ==
  /\ linMemPages = IF pc = "new" THEN 0 ELSE linMemWasmSize
  /\ pc = "new" => linMemWasmSize = InitialPages
  /\ IF pc = "new" \/ (pc = "commit" /\ op.kind = "init") THEN committed = 0
     ELSE pc = "dead" \/ PagedBasedata <= committed

TargetOK ==
  pc = "commit" =>
    /\ op.kind # "grow" /\ PagedBasedata <= op.target
    /\ IF op.kind = "shrink" THEN op.target <= committed
       ELSE committed <= op.target /\ op.target <= PagedBasedata + Formal
    /\ op.kind \in {"segments", "region"} =>
         PagedBasedata + op.access.at + op.access.width <= op.target
    /\ op.kind = "shrink" =>
         op.access.width \in ShrinkLengths /\ op.target = ShrunkSize(op.access.width)

\* a store of several bytes is under way only if a load has found its bytes
ProbingOK ==
  (pc \in {"access", "pad"} \/ InLandingPad) /\ NeedsProbe(op.access)
    => op.probing \/ (pc = "access" /\ Accessible(op.access))

\* the operations after which the formal size bounds the usable one
Regular == ~Eager /\ \A a \in HostRegions : a.at + a.width <= Space

\* shrink rounds down, and so keeps its promise only for whole pages
WholePages == \A length \in ShrinkLengths : RoundDown(length) = length

IInv ==
  /\ TypeOK /\ OperationOK /\ PadOK
  /\ ~Concurrent => LimitOK
  /\ Regular => SizesOK /\ TargetOK /\ ProbingOK /\ OutsideFaults
=============================================================================
