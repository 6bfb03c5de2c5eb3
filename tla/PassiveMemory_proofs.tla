------------------------ MODULE PassiveMemory_proofs ------------------------
(***************************************************************************)
(* Proofs about PassiveMemory for every value of its constants.            *)
(***************************************************************************)
EXTENDS PassiveMemory, TLAPS

\* the assumptions but for the products and remainders
LEMMA Sizes ==
  /\ OsPage \in Nat \ {0} /\ PageSize \in Nat \ {0} /\ Space \in Nat \ {0}
  /\ PagedBasedata \in Nat /\ PageLimit \in Nat /\ InitialPages \in 0 .. PageLimit
  /\ Limits \subseteq Nat /\ NoLimit \notin Nat
  /\ 0 \in Misalignments /\ Misalignments \subseteq Nat
  /\ {Eager, StoresTear, Concurrent} \subseteq BOOLEAN
  BY PassiveSizeAssumption

USE Sizes, PassiveInputAssumption

(***************************************************************************)
(* Arithmetic of the sizes.                                                *)
(***************************************************************************)
LEMMA ProductType ==
  ASSUME NEW m \in Nat, NEW n \in Nat
  PROVE  m * n \in Nat
  OBVIOUS

LEMMA ProductMonotone ==
  ASSUME NEW m \in Nat, NEW n \in Nat, NEW k \in Nat, m <= n
  PROVE  m * k <= n * k
<1>1. (n - m) \in Nat
  OBVIOUS
<1>2. (n - m) * k \in Nat
  BY <1>1, ProductType
<1>3. n * k = m * k + (n - m) * k
  OBVIOUS
<1>. QED BY <1>2, <1>3, ProductType

LEMMA Quotient ==
  ASSUME NEW n \in Nat, NEW c \in Nat \ {0}
  PROVE  /\ n \div c \in Nat /\ (n \div c) * c \in Nat
         /\ (n \div c) * c <= n /\ n < (n \div c) * c + c
<1>1. n \div c \in Nat /\ n = c * (n \div c) + (n % c) /\ n % c \in 0 .. c - 1
  OBVIOUS
<1>. QED BY <1>1, ProductType

LEMMA RoundedDown ==
  ASSUME NEW n \in Nat
  PROVE  RoundDown(n) \in Nat /\ RoundDown(n) <= n
  BY Quotient DEF RoundDown

\* whole pages of the operating system fit where their first bytes do
LEMMA RoundedUp ==
  ASSUME NEW n \in Nat
  PROVE  /\ RoundUp(n) \in Nat /\ n <= RoundUp(n)
         /\ \A m \in Nat : n <= m * PageSize => RoundUp(n) <= m * PageSize
<1>. DEFINE q == (n + OsPage - 1) \div OsPage
<1>1. n + OsPage - 1 \in Nat /\ OsPage \in Nat \ {0}
  OBVIOUS
<1>2. q \in Nat /\ q * OsPage \in Nat /\ q * OsPage <= n + OsPage - 1 /\ n + OsPage - 1 < q * OsPage + OsPage
  BY <1>1, Quotient
<1>3. ASSUME NEW m \in Nat, n <= m * PageSize
      PROVE  q * OsPage <= m * PageSize
  <2>. DEFINE k == PageSize \div OsPage
  <2>1. k \in Nat /\ PageSize = k * OsPage
    BY PassiveSizeAssumption
  <2>2. PICK mk \in Nat : mk = m * k
    BY <2>1, ProductType
  <2>. HIDE DEF k
  <2>3. m * PageSize = mk * OsPage
    BY <2>1, <2>2
  <2>. HIDE DEF q
  <2>4. CASE q <= mk
    BY <1>2, <2>3, <2>4, ProductMonotone
  <2>5. CASE mk + 1 <= q
    <3>1. (mk + 1) * OsPage <= q * OsPage
      BY <1>2, <2>2, <2>5, ProductMonotone
    <3>2. (mk + 1) * OsPage = mk * OsPage + OsPage
      OBVIOUS
    <3>. QED BY <1>2, <1>3, <2>3, <3>1, <3>2, ProductType
  <2>. QED BY <1>2, <2>2, <2>4, <2>5
<1>. QED BY <1>2, <1>3 DEF RoundUp

-----------------------------------------------------------------------------
(***************************************************************************)
(* How an operation goes on: it succeeds, fails, or has pages to commit.   *)
(***************************************************************************)
Asked(o) ==
  /\ o \in OperationType /\ o.kind \notin {"none", "access"}
  /\ o.kind = "segments" => o.access \in DataSegments
  /\ o.kind = "fault" => o.access \in WasmAccesses
  /\ o.kind = "region" => o.access \in HostRegions
  /\ o.kind \in {"region", "shrink"} => o.from \in {"idle", "host"}
  /\ drift = IF o.kind = "fault" THEN cell ELSE 0

Settled == pc' \notin {"new", "pad", "probe", "commit"}

LEMMA IdleOperation == NoOp \in OperationType
  BY DEF NoOp, Operation, OperationType, NoAccess, Access, Kind, Place

LEMMA StoredType ==
  ASSUME NEW c \in [Offset -> Byte], NEW a \in Access, NEW upTo
  PROVE  Stored(c, a, upTo) \in [Offset -> Byte]
  BY DEF Stored, Access

LEMMA KeptType ==
  ASSUME bytes \in [Offset -> Byte], NEW length
  PROVE  Kept(length) \in [Offset -> Byte]
  BY DEF Kept

Basics == TypeOK /\ OperationOK /\ PadOK

LEMMA SucceedBasics ==
  ASSUME TypeOK, NEW o, Asked(o), Succeed(o),
         committed' \in Nat, linMemPages' \in 0 .. PageLimit,
         UNCHANGED <<limits, landing, cell>>
  PROVE  Basics' /\ Settled
<1>1. o \in OperationType /\ o.access \in Access /\ o.from \in Place /\ o.kind \in Kind
  BY DEF Asked, OperationType
<1>2. /\ op' \in OperationType /\ pc' \in Place /\ Settled
      /\ pc' = "access" => op'.kind = "access" /\ op'.access \in WasmAccesses
  <2>1. CASE o.kind = "fault"
    <3>1. pc' = "access" /\ op' = [o EXCEPT !.kind = "access"]
      BY <2>1 DEF Succeed
    <3>2. [o EXCEPT !.kind = "access"] \in OperationType
      BY <1>1 DEF OperationType, Kind
    <3>. QED BY <1>1, <2>1, <3>1, <3>2 DEF Asked, OperationType, Place, Settled
  <2>2. CASE o.kind # "fault"
    <3>1. op' = NoOp /\ pc' \in {"reserved", "idle", "wasm", "host"}
      BY <1>1, <2>2 DEF Succeed, Leave, Asked, Kind
    <3>. QED BY <3>1, IdleOperation DEF Place, Settled
  <2>. QED BY <2>1, <2>2
<1>3. drift' = 0 /\ linMemWasmSize' \in 0 .. PageLimit
  BY <1>1 DEF Succeed, BackToCode, Asked, TypeOK
<1>4. bytes' \in [Offset -> Byte]
  <2>1. bytes' \in {bytes, Kept(o.target - PagedBasedata), Stored(bytes, o.access, Space)}
    BY DEF Succeed
  <2>. QED BY <1>1, <2>1, StoredType, KeptType DEF TypeOK
<1>5. TypeOK'
  BY <1>2, <1>3, <1>4 DEF TypeOK, limits
<1>. QED
  BY <1>2, <1>3, <1>5 DEF Basics, OperationOK, PadOK, InLandingPad, Settled

LEMMA FailedBasics ==
  ASSUME TypeOK, NEW o, Asked(o), NEW why, Failed(o, why), linMemPages' \in 0 .. PageLimit,
         UNCHANGED <<limits, landing, cell>>
  PROVE  Basics' /\ Settled
<1>1. /\ op' = NoOp /\ pc' \in {"dead", "idle", "host"} /\ drift' = 0
      /\ UNCHANGED <<committed, linMemWasmSize, bytes>>
  BY DEF Failed, Fail, Leave, Asked, OperationType, Kind
<1>2. TypeOK'
  BY <1>1, IdleOperation DEF TypeOK, limits, Place
<1>. QED
  BY <1>1, <1>2 DEF Basics, OperationOK, PadOK, InLandingPad, Settled

LEMMA ResizeBasics ==
  ASSUME TypeOK, NEW o, Asked(o), NEW size \in Nat, Resize(o, size), linMemPages' \in 0 .. PageLimit,
         UNCHANGED <<limits, landing, cell>>
  PROVE  /\ Basics'
         /\ UNCHANGED <<committed, linMemWasmSize, bytes>>
         /\ \/ Settled /\ Failed(o, "couldnotextend")
            \/ size <= limit /\ pc' = "commit" /\ op' = [o EXCEPT !.target = size]
<1>1. CASE size > limit
  BY <1>1, FailedBasics DEF Resize, Failed
<1>2. CASE ~(size > limit)
  <2>1. /\ pc' = "commit" /\ op' = [o EXCEPT !.target = size]
        /\ UNCHANGED <<committed, linMemWasmSize, bytes, drift>>
    BY <1>2 DEF Resize
  <2>2. /\ op' \in OperationType /\ op'.kind = o.kind /\ op'.access = o.access /\ op'.from = o.from
    BY <2>1 DEF Asked, OperationType
  <2>3. TypeOK'
    BY <2>1, <2>2 DEF TypeOK, limits, Place
  <2>4. OperationOK' /\ PadOK'
    BY <2>1, <2>2 DEF OperationOK, PadOK, InLandingPad, Asked
  <2>. QED BY <1>2, <2>1, <2>3, <2>4 DEF Basics, TypeOK
<1>. QED BY <1>1, <1>2

LEMMA ProbeBasics ==
  ASSUME TypeOK, NEW o, Asked(o), NEW offset \in Nat, Probe(o, offset),
         UNCHANGED <<limits, linMemPages, landing, cell>>
  PROVE  Basics' /\ committed' = committed /\ (Settled \/ (pc' = "commit" /\ op'.target <= limit))
<1>1. linMemPages' \in 0 .. PageLimit /\ committed \in Nat
  BY DEF TypeOK
<1>2. CASE Succeed(o) /\ UNCHANGED committed
  BY <1>1, <1>2, SucceedBasics
<1>3. CASE Resize(o, PagedBasedata + PagesFor(offset))
  <2>1. PICK size \in Nat : size = PagedBasedata + PagesFor(offset)
    BY RoundedUp DEF PagesFor
  <2>2. Resize(o, size)
    BY <1>3, <2>1
  <2>3. [o EXCEPT !.target = size].target = size
    BY DEF Asked, OperationType
  <2>. QED BY <1>1, <2>2, <2>3, ResizeBasics
<1>4. CASE Failed(o, "outofbounds")
  BY <1>1, <1>4, FailedBasics DEF Failed
<1>. QED BY <1>2, <1>3, <1>4 DEF Probe

(***************************************************************************)
(* What every step that does not commit leaves behind; all but Commit are  *)
(* taken by the executing thread.                                          *)
(***************************************************************************)
Goes == Settled \/ pc' \in {"pad", "probe"} \/ (pc' = "commit" /\ op'.target <= limit)
Thread == UNCHANGED <<limits, committed>> /\ Goes

LEMMA ConstructBasics == ASSUME Basics, Construct PROVE Basics' /\ Thread
<1>. DEFINE o == Operation("init", NoAccess, FALSE, 0, "reserved")
            size == PagedBasedata + IF Eager THEN InitialPages * PageSize ELSE 0
<1>1. Asked(o)
  BY DEF Construct, Basics, PadOK, InLandingPad, Asked, Operation, OperationType, NoAccess, Access, Kind, Place
<1>2. size \in Nat
  BY ProductType
<1>3. TypeOK /\ Resize(o, size) /\ linMemPages' \in 0 .. PageLimit /\ UNCHANGED <<limits, landing, cell>>
  BY DEF Construct, Basics
<1>4. o \in OperationType
  BY <1>1 DEF Asked
<1>5. [o EXCEPT !.target = size].target = size
  BY <1>4 DEF OperationType
<1>. HIDE DEF o, size
<1>. QED BY <1>1, <1>2, <1>3, <1>5, ResizeBasics DEF Thread, Goes

LEMMA LoadSegmentsBasics == ASSUME Basics, LoadSegments PROVE Basics' /\ Thread
<1>1. PICK a \in DataSegments :
        LET o == Operation("segments", a, FALSE, 0, "idle")
        IN  IF a.at + a.width = 0 THEN Succeed(o) /\ UNCHANGED committed
                                  ELSE Probe(o, a.at + a.width - 1)
  BY DEF LoadSegments
<1>. DEFINE o == Operation("segments", a, FALSE, 0, "idle")
<1>2. Asked(o) /\ a.at \in Nat /\ a.width \in Nat
  BY DEF LoadSegments, Basics, PadOK, InLandingPad, Asked, Operation, OperationType, Access, Kind, Place
<1>3. /\ TypeOK /\ committed \in Nat /\ linMemPages' \in 0 .. PageLimit
      /\ UNCHANGED <<limits, linMemPages, landing, cell>>
  BY DEF LoadSegments, Basics, TypeOK
<1>4. CASE a.at + a.width = 0
  BY <1>1, <1>2, <1>3, <1>4, SucceedBasics DEF Thread, Goes
<1>5. CASE a.at + a.width # 0
  <2>1. a.at + a.width - 1 \in Nat
    BY <1>2, <1>5
  <2>. QED BY <1>1, <1>2, <1>3, <1>5, <2>1, ProbeBasics DEF Thread, Goes
<1>. QED BY <1>4, <1>5

LEMMA ProbeLandingBasics == ASSUME Basics, ProbeLanding PROVE Basics' /\ Thread
<1>. DEFINE o == [op EXCEPT !.kind = "fault"]
<1>1. Asked(o)
  BY DEF ProbeLanding, Basics, TypeOK, OperationOK, PadOK, InLandingPad, Asked, OperationType, Kind
<1>2. TypeOK /\ landing \in Nat /\ Probe(o, landing) /\ UNCHANGED <<limits, linMemPages, landing, cell>>
  BY DEF ProbeLanding, Basics, TypeOK
<1>. HIDE DEF o
<1>. QED BY <1>1, <1>2, ProbeBasics DEF Thread, Goes

LEMMA RegionBasics == ASSUME Basics, NEW a \in HostRegions, Region(a) PROVE Basics' /\ Thread
<1>. DEFINE o == Operation("region", a, FALSE, 0, pc)
            offset == (a.at + a.width - 1) % Space
<1>1. Asked(o)
  BY DEF Region, Outside, Basics, PadOK, InLandingPad, Asked, Operation, OperationType, Access, Kind, Place
<1>2. offset \in Nat
  BY DEF Access
<1>3. TypeOK /\ Probe(o, offset) /\ UNCHANGED <<limits, linMemPages, landing, cell>>
  BY DEF Region, Basics
<1>. HIDE DEF o, offset
<1>. QED BY <1>1, <1>2, <1>3, ProbeBasics DEF Thread, Goes

LEMMA MemoryGrowBasics == ASSUME Basics, NEW delta \in GrowDeltas, MemoryGrow(delta) PROVE Basics' /\ Thread
<1>. DEFINE o == Operation("grow", NoAccess, FALSE, 0, "wasm")
            size == PagedBasedata + linMemPages' * PageSize
<1>1. Asked(o)
  BY DEF MemoryGrow, Basics, PadOK, InLandingPad, Asked, Operation, OperationType, NoAccess, Access, Kind, Place
<1>2. TypeOK /\ UNCHANGED <<limits, landing, cell>> /\ linMemWasmSize + delta \in Nat /\ committed \in Nat
  BY DEF MemoryGrow, Basics, TypeOK
<1>3. CASE linMemWasmSize + delta > PageLimit
  <2>1. UNCHANGED <<limits, memory, pad, pc, op>>
    BY <1>3 DEF MemoryGrow, memory, pad
  <2>. QED BY <2>1 DEF MemoryGrow, Basics, TypeOK, OperationOK, PadOK, InLandingPad, Thread, Goes, Settled, limits, memory, pad
<1>4. CASE ~(linMemWasmSize + delta > PageLimit)
  <2>1. linMemPages' = linMemWasmSize + delta /\ linMemPages' \in 0 .. PageLimit
    BY <1>2, <1>4 DEF MemoryGrow
  <2>2. PICK pages \in Nat : pages = linMemPages'
    BY <2>1
  <2>3. PICK total \in Nat : total = PagedBasedata + pages * PageSize
    BY ProductType
  <2>4. CASE Eager
    <3>1. Resize(o, total)
      BY <1>4, <2>2, <2>3, <2>4 DEF MemoryGrow
    <3>2. o \in OperationType
      BY <1>1 DEF Asked
    <3>3. [o EXCEPT !.target = total].target = total
      BY <3>2 DEF OperationType
    <3>. HIDE DEF o
    <3>. QED BY <1>1, <1>2, <2>1, <3>1, <3>3, ResizeBasics DEF Thread, Goes
  <2>5. CASE ~Eager
    <3>1. Succeed(o) /\ UNCHANGED committed
      BY <1>4, <2>5 DEF MemoryGrow
    <3>. HIDE DEF o
    <3>. QED BY <1>1, <1>2, <2>1, <3>1, SucceedBasics DEF Thread, Goes
  <2>. QED BY <2>4, <2>5
<1>. QED BY <1>3, <1>4

LEMMA ShrinkBasics == ASSUME Basics, NEW length \in ShrinkLengths, ShrinkToSize(length) PROVE Basics' /\ Thread
<1>. DEFINE o == Operation("shrink", FirstBytes(length), FALSE, 0, pc)
<1>1. Asked(o)
  BY PassiveInputAssumption
     DEF ShrinkToSize, Outside, Basics, PadOK, InLandingPad, Asked, Operation, OperationType, FirstBytes, Access, Kind, Place
<1>2. /\ TypeOK /\ UNCHANGED <<limits, landing, cell>> /\ linMemPages' \in 0 .. PageLimit
  BY DEF ShrinkToSize, Basics, TypeOK
<1>3. CASE Failed(o, "none")
  BY <1>1, <1>2, <1>3, FailedBasics DEF Failed, Thread, Goes
<1>4. CASE Resize(o, ShrunkSize(length))
  <2>1. PICK size \in Nat : size = ShrunkSize(length)
    BY RoundedDown DEF ShrunkSize
  <2>2. Resize(o, size)
    BY <1>4, <2>1
  <2>3. [o EXCEPT !.target = size].target = size
    BY <1>1 DEF Asked, OperationType
  <2>. HIDE DEF o
  <2>. QED BY <1>1, <1>2, <2>2, <2>3, ResizeBasics DEF Thread, Goes
<1>. QED BY <1>3, <1>4 DEF ShrinkToSize

\* Call, Return, CallImport and ReturnFromImport
LEMMA TransferBasics ==
  ASSUME Basics, Call \/ Return \/ CallImport \/ ReturnFromImport
  PROVE  Basics' /\ Thread
<1>1. /\ pc \in {"idle", "wasm", "host"} /\ pc' \in {"idle", "wasm", "host"} /\ op' = NoOp
      /\ UNCHANGED <<limits, memory, pad>>
  BY DEF Call, Return, CallImport, ReturnFromImport, Leave
<1>. QED
  BY <1>1, IdleOperation
     DEF Basics, TypeOK, OperationOK, PadOK, InLandingPad, Thread, Goes, Settled, limits, memory, pad, Place

LEMMA IssueBasics == ASSUME Basics, NEW a \in WasmAccesses, Issue(a) PROVE Basics' /\ Thread
<1>1. op' \in OperationType /\ op'.kind = "access" /\ op'.access = a
  BY DEF Issue, Operation, OperationType, Kind, Place, NeedsProbe
<1>. QED
  BY <1>1 DEF Issue, Basics, TypeOK, OperationOK, PadOK, InLandingPad, Thread, Goes, Settled, limits, memory, pad, Place

LEMMA ExecuteBasics == ASSUME Basics, Execute PROVE Basics' /\ Thread
<1>1. /\ pc = "access" /\ op \in OperationType /\ op.kind = "access" /\ op.access \in WasmAccesses
      /\ op.access \in Access /\ bytes \in [Offset -> Byte]
  BY DEF Execute, Basics, TypeOK, OperationOK
<1>2. UNCHANGED <<limits, committed, linMemPages, linMemWasmSize, pad>>
  BY DEF Execute
<1>3. CASE op.probing
  <2>1. /\ op' \in OperationType /\ op'.kind = "access" /\ op'.access = op.access
        /\ UNCHANGED <<bytes, pc>>
    BY <1>1, <1>3 DEF Execute, OperationType
  <2>. QED
    BY <1>1, <1>2, <2>1 DEF Basics, TypeOK, OperationOK, PadOK, InLandingPad, Thread, Goes, Settled, limits, pad
<1>4. CASE ~op.probing
  <2>1. bytes' \in [Offset -> Byte] /\ pc' = "wasm" /\ op' = NoOp
    BY <1>1, <1>4, StoredType DEF Execute
  <2>. QED
    BY <1>1, <1>2, <2>1, IdleOperation
       DEF Basics, TypeOK, OperationOK, PadOK, InLandingPad, Thread, Goes, Settled, limits, pad, Place
<1>. QED BY <1>3, <1>4

LEMMA FaultBasics == ASSUME Basics, Fault PROVE Basics' /\ Thread
<1>1. /\ pc = "access" /\ op.kind = "access" /\ op.access \in WasmAccesses
      /\ op.access \in Access /\ bytes \in [Offset -> Byte] /\ drift = 0
  BY DEF Fault, Basics, TypeOK, OperationOK, PadOK, InLandingPad
<1>2. bytes' \in [Offset -> Byte]
  BY <1>1, StoredType DEF Fault
<1>3. UNCHANGED <<limits, committed, linMemPages, linMemWasmSize>>
  BY DEF Fault
<1>4. FirstFault(op.access) \in Nat
  BY <1>1 DEF FirstFault, Larger, Usable, Access, Basics, TypeOK
<1>5. CASE pc' = "idle" /\ op' = NoOp /\ UNCHANGED pad
  BY <1>1, <1>2, <1>3, <1>5, IdleOperation
     DEF Basics, TypeOK, OperationOK, PadOK, InLandingPad, Thread, Goes, Settled, limits, pad, Place
<1>6. CASE landing' = FirstFault(op.access) /\ cell' = 0 /\ pc' = "pad" /\ UNCHANGED <<drift, op>>
  BY <1>1, <1>2, <1>3, <1>4, <1>6
     DEF Basics, TypeOK, OperationOK, PadOK, InLandingPad, Thread, Goes, Settled, limits, Place
<1>. QED BY <1>5, <1>6 DEF Fault, Leave

LEMMA LandingPadBasics ==
  ASSUME Basics, NEW m \in Misalignments, LandingPad(m)
  PROVE  Basics' /\ Thread
  BY DEF LandingPad, Basics, TypeOK, OperationOK, PadOK, InLandingPad, Thread, Goes, Settled, limits, memory, Place

\* VirtualMemoryAllocator::resize
LEMMA CommitBasics ==
  ASSUME Basics, Commit
  PROVE  Basics' /\ Settled /\ UNCHANGED limits /\ committed' \in {committed, op.target}
<1>1. Asked(op)
  BY DEF Commit, Basics, TypeOK, OperationOK, PadOK, InLandingPad, Asked
<1>2. /\ TypeOK /\ UNCHANGED <<limits, landing, cell>> /\ linMemPages' \in 0 .. PageLimit
      /\ committed \in Nat /\ op.target \in Nat
  BY DEF Commit, Basics, TypeOK, OperationType
<1>3. CASE Succeed(op) /\ committed' = op.target
  BY <1>1, <1>2, <1>3, SucceedBasics
<1>4. CASE Failed(op, "couldnotextend")
  BY <1>1, <1>2, <1>4, FailedBasics DEF Failed
<1>. QED BY <1>3, <1>4 DEF Commit

LEMMA LimitBasics ==
  ASSUME Basics, StoreLimit \/ \E l \in Limits : CheckLimit(l)
  PROVE  Basics' /\ UNCHANGED <<memory, pad, control>>
<1>1. UNCHANGED <<memory, pad, control>>
  BY DEF StoreLimit, CheckLimit
<1>2. limit' \in Nat /\ newLimit' \in Nat \union {NoLimit}
  BY RoundedDown DEF Basics, TypeOK, StoreLimit, CheckLimit
<1>. QED BY <1>1, <1>2 DEF Basics, TypeOK, OperationOK, PadOK, InLandingPad, memory, pad, control

LEMMA ThreadBasics ==
  ASSUME Basics, CompiledCode \/ AccessStep \/ Embedder
  PROVE  Basics' /\ Thread
<1>1. CASE CompiledCode
  BY <1>1, TransferBasics, IssueBasics, MemoryGrowBasics DEF CompiledCode
<1>2. CASE AccessStep
  BY <1>2, ExecuteBasics, FaultBasics, ProbeLandingBasics, LandingPadBasics DEF AccessStep
<1>3. CASE Embedder
  BY <1>3, ConstructBasics, LoadSegmentsBasics, RegionBasics, ShrinkBasics DEF Embedder
<1>. QED BY <1>1, <1>2, <1>3

LEMMA NextBasics == ASSUME Basics, [Next]_vars PROVE Basics'
<1>1. CASE UNCHANGED vars
  BY <1>1 DEF Basics, TypeOK, OperationOK, PadOK, InLandingPad, vars, limits, memory, pad, control
<1>. QED BY <1>1, ThreadBasics, CommitBasics, LimitBasics DEF Next

LEMMA InitBasics == ASSUME Init PROVE Basics
<1>1. limit \in Nat
  BY RoundedDown DEF Init
<1>2. TypeOK
  BY <1>1, IdleOperation DEF Init, TypeOK, Place, Offset
<1>. QED BY <1>2 DEF Init, Basics, OperationOK, PadOK, InLandingPad

(***************************************************************************)
(* The limit.                                                              *)
(***************************************************************************)
LEMMA NextLimit == ASSUME Basics, LimitOK, ~Concurrent, [Next]_vars PROVE LimitOK'
<1>1. limit \in Nat /\ committed \in Nat /\ newLimit \in Nat \union {NoLimit} /\ op.target \in Nat
  BY DEF Basics, TypeOK, OperationType
<1>2. CASE newLimit = NoLimit /\ (CompiledCode \/ AccessStep \/ Embedder)
  BY <1>2, ThreadBasics DEF LimitOK, Thread, Goes, Settled, limits
<1>3. CASE newLimit = NoLimit /\ Commit
  <2>1. pc = "commit"
    BY <1>3 DEF Commit
  <2>. QED BY <1>1, <1>3, <2>1, CommitBasics DEF LimitOK, Settled, limits
<1>4. CASE StoreLimit
  BY <1>4 DEF LimitOK, StoreLimit, memory, control
<1>5. CASE \E l \in Limits : CheckLimit(l)
  <2>1. PICK l \in Limits : CheckLimit(l)
    BY <1>5
  <2>2. RoundDown(l) \in Nat
    BY RoundedDown
  <2>. QED BY <1>1, <2>1, <2>2 DEF LimitOK, CheckLimit, Accepted, memory, control
<1>6. CASE UNCHANGED vars
  BY <1>6 DEF LimitOK, vars, limits, memory, control
<1>. QED BY <1>2, <1>3, <1>4, <1>5, <1>6 DEF Next, Runs

LEMMA InitLimit == ASSUME Init PROVE LimitOK
  BY RoundedDown DEF Init, LimitOK

-----------------------------------------------------------------------------
(***************************************************************************)
(* The sizes of a memory that is not allocated eagerly.                    *)
(***************************************************************************)
Deep == SizesOK /\ TargetOK /\ ProbingOK /\ OutsideFaults

LEMMA FormalFacts ==
  ASSUME Basics
  PROVE  /\ Formal \in Nat /\ Formal <= Space /\ committed \in Nat /\ Usable \in Int
         /\ op.target \in Nat /\ linMemWasmSize \in Nat /\ linMemPages \in Nat
<1>1. linMemWasmSize \in 0 .. PageLimit /\ linMemPages \in 0 .. PageLimit /\ committed \in Nat /\ op.target \in Nat
  BY DEF Basics, TypeOK, OperationType
<1>2. linMemWasmSize * PageSize <= PageLimit * PageSize
  BY <1>1, ProductMonotone
<1>3. Formal \in Nat /\ Formal <= Space
  BY <1>1, <1>2, ProductType, PassiveSizeAssumption DEF Formal
<1>. QED BY <1>1, <1>3 DEF Usable

\* a size that is good for operation o
Fitting(o, size) ==
  /\ PagedBasedata <= size
  /\ IF o.kind = "shrink" THEN size <= committed
     ELSE committed <= size /\ size <= PagedBasedata + Formal
  /\ o.kind \in {"segments", "region"} => PagedBasedata + o.access.at + o.access.width <= size
  /\ o.kind = "shrink" => o.access.width \in ShrinkLengths /\ size = ShrunkSize(o.access.width)

Probed(o) == o.kind = "fault" => (NeedsProbe(o.access) => o.probing)

LEMMA SucceedDeep ==
  ASSUME Basics, SizesOK, OutsideFaults, NEW o, Asked(o), Probed(o), Succeed(o), pc \notin {"new", "dead"},
         Fitting(o, committed'), o.kind = "shrink" => committed' = o.target,
         committed' \in Nat, linMemPages' \in 0 .. PageLimit,
         IF o.kind = "grow" THEN linMemWasmSize <= linMemPages' ELSE linMemPages' = linMemPages,
         UNCHANGED <<limits, landing, cell>>
  PROVE  Deep'
<1>1. Settled /\ Basics'
  BY SucceedBasics DEF Basics
<1>2. /\ committed \in Nat /\ Formal \in Nat /\ Usable \in Int /\ Formal' \in Nat
      /\ linMemWasmSize \in Nat
  <2>1. linMemWasmSize' \in Nat
    BY <1>1 DEF Basics, TypeOK
  <2>. QED BY <2>1, FormalFacts, ProductType DEF Formal
<1>3. /\ Usable' = committed' - PagedBasedata
      /\ linMemWasmSize' = IF o.kind = "grow" THEN linMemPages' ELSE linMemWasmSize
      /\ linMemWasmSize <= linMemWasmSize'
      /\ linMemWasmSize' \in Nat /\ linMemPages' = linMemWasmSize'
  BY <1>2 DEF Succeed, SizesOK, Usable
<1>4. Formal <= Formal'
  BY <1>2, <1>3, ProductMonotone DEF Formal
<1>5. SizesOK'
  BY <1>1, <1>3 DEF SizesOK, Settled, Fitting
<1>6. TargetOK'
  BY <1>1 DEF TargetOK, Settled
<1>7. ProbingOK'
  <2>1. CASE o.kind = "fault"
    <3>1. op' = [o EXCEPT !.kind = "access"] /\ o \in OperationType
      BY <2>1 DEF Succeed, Asked
    <3>2. op'.access = o.access /\ op'.probing = o.probing
      BY <3>1 DEF OperationType
    <3>. QED BY <2>1, <3>2 DEF ProbingOK, Probed, NeedsProbe
  <2>2. CASE o.kind # "fault"
    BY <1>1, <2>2 DEF ProbingOK, Settled, InLandingPad, Succeed, Leave, Asked, OperationType, Kind
  <2>. QED BY <2>1, <2>2
<1>8. OutsideFaults'
  <2>1. Usable' <= Formal'
    <3>1. committed <= PagedBasedata + Formal
      BY <1>2 DEF OutsideFaults, Usable
    <3>2. committed' <= PagedBasedata + Formal
      BY <1>2, <3>1 DEF Fitting
    <3>3. committed' - PagedBasedata <= Formal
      <4>1. PICK f \in Nat : f = Formal
        BY <1>2, Zenon
      <4>2. PICK c \in Nat : c = committed'
        BY Zenon
      <4>3. c <= PagedBasedata + f
        BY <3>2, <4>1, <4>2, Zenon
      <4>4. c - PagedBasedata <= f
        BY <4>3
      <4>. QED BY <4>1, <4>2, <4>4, Zenon
    <3>4. Usable' <= Formal
      BY <1>3, <3>3, Zenon
    <3>5. Usable' \in Int
      BY <1>3
    <3>. QED BY <1>2, <1>4, <3>4, <3>5
  <2>2. ASSUME NEW b \in Offset, b >= Usable'
        PROVE  bytes'[b] = 0
    <3>1. CASE o.kind = "shrink"
      BY <1>3, <2>2, <3>1 DEF Succeed, Kept, Offset
    <3>2. CASE o.kind # "shrink"
      <4>1. b >= Usable
        <5>1. committed <= committed'
          BY <3>2, Zenon DEF Fitting
        <5>2. PICK now \in Int : now = committed
          BY <1>2
        <5>3. PICK next \in Int : next = committed'
          OBVIOUS
        <5>4. PICK at \in Int : at = b
          BY PassiveSizeAssumption DEF Offset
        <5>5. at >= next - PagedBasedata
          BY <1>3, <2>2, <5>3, <5>4, Zenon
        <5>6. now <= next
          BY <5>1, <5>2, <5>3, Zenon
        <5>7. at >= now - PagedBasedata
          BY <5>5, <5>6, PassiveSizeAssumption
        <5>. QED BY <5>2, <5>4, <5>7, Zenon DEF Usable
      <4>2. bytes[b] = 0
        BY <4>1 DEF OutsideFaults
      <4>3. CASE o.kind \in {"segments", "region"}
        <5>1. o.access.at \in Nat /\ o.access.width \in Nat
          BY DEF Asked, OperationType, Access
        <5>2. b \notin Covers(o.access.at, o.access.width)
          BY <1>3, <2>2, <4>3, <5>1 DEF Fitting, Covers, Offset
        <5>. QED BY <4>2, <4>3, <5>2 DEF Succeed, Stored
      <4>4. CASE o.kind \notin {"segments", "region"}
        BY <3>2, <4>2, <4>4 DEF Succeed
      <4>. QED BY <4>3, <4>4
    <3>. QED BY <3>1, <3>2
  <2>. QED BY <2>1, <2>2 DEF OutsideFaults
<1>. QED BY <1>5, <1>6, <1>7, <1>8 DEF Deep

\* nothing that is in use changes, and the thread is out of the operation
LEMMA UnchangedDeep ==
  ASSUME Basics, SizesOK, OutsideFaults, UNCHANGED <<committed, linMemWasmSize, bytes>>,
         linMemPages' = linMemWasmSize, pc # "dead",
         pc' \notin {"new", "access", "pad", "probe", "commit"},
         pc' = "dead" \/ PagedBasedata <= committed
  PROVE  Deep'
<1>1. SizesOK'
  BY DEF SizesOK
<1>2. TargetOK' /\ ProbingOK'
  BY DEF TargetOK, ProbingOK, InLandingPad
<1>3. OutsideFaults'
  <2>1. Usable' = Usable /\ Formal' = Formal /\ Usable \in Int /\ Formal \in Nat
    BY FormalFacts DEF Usable, Formal
  <2>2. CASE pc = "new"
    <3>1. committed = 0
      BY <2>2 DEF SizesOK
    <3>2. Usable <= Formal
      BY <2>1, <3>1 DEF Usable
    <3>. QED BY <2>1, <3>2 DEF OutsideFaults
  <2>3. CASE pc # "new"
    BY <2>1, <2>3 DEF OutsideFaults
  <2>. QED BY <2>2, <2>3
<1>. QED BY <1>1, <1>2, <1>3 DEF Deep

LEMMA FailedDeep ==
  ASSUME Basics, SizesOK, OutsideFaults, NEW o, Asked(o), NEW why, Failed(o, why),
         linMemPages' = linMemWasmSize, pc # "dead",
         PagedBasedata <= committed \/ o.kind = "init"
  PROVE  Deep'
<1>1. /\ pc' \in {"dead", "idle", "host"} /\ UNCHANGED <<committed, linMemWasmSize, bytes>>
      /\ o.kind = "init" => pc' = "dead"
  BY DEF Failed, Fail, Leave, Asked, OperationType, Kind
<1>. QED BY <1>1, UnchangedDeep

LEMMA ResizeDeep ==
  ASSUME Basics, SizesOK, OutsideFaults, NEW o, Asked(o), Probed(o), o.kind # "grow",
         NEW size \in Nat, Resize(o, size), Fitting(o, size),
         linMemPages' = linMemWasmSize, pc # "dead",
         IF o.kind = "init" THEN committed = 0 ELSE PagedBasedata <= committed,
         UNCHANGED <<limits, landing, cell>>
  PROVE  Deep'
<1>1. /\ UNCHANGED <<committed, linMemWasmSize, bytes>> /\ linMemPages' \in 0 .. PageLimit
      /\ linMemWasmSize \in Nat /\ committed \in Nat
  BY FormalFacts, ResizeBasics DEF Basics, TypeOK
<1>2. CASE Failed(o, "couldnotextend")
  BY <1>1, <1>2, FailedDeep
<1>3. CASE pc' = "commit" /\ op' = [o EXCEPT !.target = size]
  <2>1. /\ op'.kind = o.kind /\ op'.access = o.access /\ op'.probing = o.probing /\ op'.target = size
    BY <1>3 DEF Asked, OperationType
  <2>2. Usable' = Usable /\ Formal' = Formal /\ Usable \in Int /\ Formal \in Nat
    BY <1>1, FormalFacts DEF Usable, Formal
  <2>3. SizesOK'
    BY <1>1, <1>3, <2>1 DEF SizesOK
  <2>4. TargetOK'
    BY <1>1, <1>3, <2>1, <2>2 DEF TargetOK, Fitting
  <2>5. ProbingOK'
    BY <1>3, <2>1 DEF ProbingOK, InLandingPad, Probed, NeedsProbe
  <2>6. OutsideFaults'
    <3>1. CASE pc = "new"
      <4>1. committed = 0
        BY <3>1 DEF SizesOK
      <4>2. Usable <= Formal
        BY <2>2, <4>1 DEF Usable
      <4>. QED BY <1>1, <2>2, <4>2 DEF OutsideFaults
    <3>2. CASE pc # "new"
      BY <1>1, <2>2, <3>2 DEF OutsideFaults
    <3>. QED BY <3>1, <3>2
  <2>. QED BY <2>3, <2>4, <2>5, <2>6 DEF Deep
<1>. QED BY <1>1, <1>2, <1>3, ResizeBasics DEF Basics

\* the pages a probe commits for an offset reach no further than the formal size
LEMMA ProbeDeep ==
  ASSUME Basics, SizesOK, OutsideFaults, NEW o, Asked(o), Probed(o),
         o.kind \in {"segments", "fault", "region"},
         NEW offset \in Nat, Probe(o, offset),
         o.kind # "fault" => o.access.at + o.access.width <= offset + 1,
         pc \notin {"new", "dead", "commit"}, UNCHANGED <<limits, linMemPages, landing, cell>>
  PROVE  Deep'
<1>1. /\ committed \in Nat /\ Formal \in Nat /\ linMemWasmSize \in Nat
      /\ linMemPages = linMemWasmSize /\ PagedBasedata <= committed
      /\ linMemPages' \in 0 .. PageLimit /\ Formal = linMemPages * PageSize
  BY FormalFacts DEF SizesOK, Basics, TypeOK, Formal
<1>2. PICK f \in Nat : f = Formal
  BY <1>1, Zenon
<1>3. committed - PagedBasedata <= f
  BY <1>1, <1>2 DEF OutsideFaults, Usable
<1>4. o.access.at \in Nat /\ o.access.width \in Nat
  BY DEF Asked, OperationType, Access
<1>5. CASE offset < Usable /\ Succeed(o) /\ UNCHANGED committed
  <2>1. Fitting(o, committed')
    <3>1. committed <= PagedBasedata + f
      BY <1>1, <1>3
    <3>2. o.kind # "fault" => PagedBasedata + o.access.at + o.access.width <= committed
      BY <1>1, <1>4, <1>5 DEF Usable
    <3>. QED BY <1>1, <1>2, <1>5, <3>1, <3>2 DEF Fitting
  <2>. QED BY <1>1, <1>5, <2>1, SucceedDeep
<1>6. CASE offset >= Usable /\ offset < linMemPages * PageSize /\ Resize(o, PagedBasedata + PagesFor(offset))
  <2>1. PICK size \in Nat : size = PagesFor(offset)
    BY RoundedUp DEF PagesFor
  <2>2. offset + 1 <= size
    BY <2>1, RoundedUp DEF PagesFor
  <2>3. offset + 1 <= linMemWasmSize * PageSize
    <3>1. offset < f
      BY <1>1, <1>2, <1>6, Zenon
    <3>2. offset + 1 <= f
      BY <3>1
    <3>. QED BY <1>1, <1>2, <3>2, Zenon
  <2>4. size <= f
    <3>1. size <= linMemWasmSize * PageSize
      BY <1>1, <2>1, <2>3, RoundedUp DEF PagesFor
    <3>. QED BY <1>1, <1>2, <3>1, Zenon
  <2>5. committed - PagedBasedata <= offset
    BY <1>1, <1>6 DEF Usable
  <2>6. Fitting(o, PagedBasedata + size)
    <3>1. PagedBasedata <= PagedBasedata + size /\ committed <= PagedBasedata + size
      BY <1>1, <2>2, <2>5
    <3>2. PagedBasedata + size <= PagedBasedata + f
      BY <2>4
    <3>3. o.kind # "fault" => PagedBasedata + o.access.at + o.access.width <= PagedBasedata + size
      BY <1>4, <2>2
    <3>. QED BY <1>2, <3>1, <3>2, <3>3 DEF Fitting
  <2>7. PagedBasedata + size \in Nat
    OBVIOUS
  <2>. QED BY <1>1, <1>6, <2>1, <2>6, <2>7, ResizeDeep
<1>7. CASE Failed(o, "outofbounds")
  BY <1>1, <1>7, FailedDeep
<1>. QED BY <1>5, <1>6, <1>7 DEF Probe

-----------------------------------------------------------------------------
(***************************************************************************)
(* The refinement: every step is one of the abstract memory, or changes    *)
(* nothing the program can see, if shrink is given whole pages.            *)
(***************************************************************************)
AbstractStep == WholePages => LM!LMNext \/ UNCHANGED <<linMemWasmSize, bytes, answer>>

LEMMA RefineSaid ==
  ASSUME Basics, UNCHANGED <<linMemWasmSize, bytes>>,
         answer' \in {Said("none"), Said("refused"), Said("couldnotextend"), Said("outofbounds")}
  PROVE  AbstractStep
<1>1. CASE answer' \in {Said("none"), Said("refused")}
  BY <1>1 DEF AbstractStep, LM!LMNext, LM!Refuse, LM!Said, Said
<1>2. CASE answer' = Said("couldnotextend")
  BY <1>2 DEF AbstractStep, LM!LMNext, LM!OutOfMemory, LM!Said, Said
<1>3. CASE answer' = Said("outofbounds")
  <2>1. PICK far \in 0 .. 2 * Space : far = 2 * Space
    OBVIOUS
  <2>2. ~LM!WithinPages(far, far)
    <3>1. Formal \in Nat /\ Formal <= Space
      BY FormalFacts
    <3>2. ~(far + far <= Formal)
      BY <2>1, <3>1
    <3>. QED BY <3>2 DEF LM!WithinPages, Formal
  <2>3. LM!OutOfBounds(far, far)
    BY <1>3, <2>2 DEF LM!OutOfBounds, LM!Said, Said
  <2>. QED BY <2>1, <2>3 DEF AbstractStep, LM!LMNext
<1>. QED BY <1>1, <1>2, <1>3

LEMMA RefineAccess ==
  ASSUME Basics, NEW a \in Access, a.at + a.width <= Formal, UNCHANGED linMemWasmSize,
         bytes' = Stored(bytes, a, Space), answer' = AccessAnswer(a)
  PROVE  AbstractStep
<1>1. /\ a.at \in Nat /\ a.width \in Nat /\ a.byte \in Byte \union {Nothing}
      /\ bytes \in [Offset -> Byte] /\ Formal \in Nat /\ Formal <= Space
  BY FormalFacts DEF Access, Basics, TypeOK
<1>2. PICK end \in Nat : end = a.at + a.width
  BY <1>1
<1>3. end <= Space
  BY <1>1, <1>2
<1>4. a.at \in 0 .. 2 * Space /\ a.width \in 0 .. 2 * Space
  BY <1>1, <1>2, <1>3
<1>5. LM!WithinPages(a.at, a.width)
  BY DEF LM!WithinPages, Formal
<1>6. LM!Covers(a.at, a.width) = Covers(a.at, a.width) /\ Covers(a.at, a.width) \subseteq Offset
  BY <1>1, <1>2, <1>3 DEF LM!Covers, Covers, Offset
<1>7. CASE a.byte = Nothing
  <2>1. bytes' = bytes
    BY <1>1, <1>7 DEF Stored
  <2>2. LM!Load(a.at, a.width)
    BY <1>5, <1>6, <1>7, <2>1 DEF LM!Load, LM!Accessed, Accessed, AccessAnswer
  <2>. QED BY <1>4, <2>2 DEF AbstractStep, LM!LMNext
<1>8. CASE a.byte \in Byte
  <2>1. a.byte # Nothing
    BY <1>8
  <2>2. bytes' = [o \in Offset |-> IF o \in Covers(a.at, a.width) THEN a.byte ELSE bytes[o]]
    BY <2>1 DEF Stored, Offset
  <2>3. LM!Store(a.at, a.width, a.byte)
    BY <1>5, <1>6, <2>1, <2>2 DEF LM!Store, LM!Accessed, Accessed, AccessAnswer
  <2>. QED BY <1>4, <1>8, <2>3 DEF AbstractStep, LM!LMNext
<1>. QED BY <1>1, <1>7, <1>8

LEMMA PagesFitSpace == PageLimit <= Space
<1>1. 1 * PageLimit <= PageSize * PageLimit
  BY ProductMonotone
<1>. QED BY <1>1, PassiveSizeAssumption

LEMMA RefineGrow ==
  ASSUME Basics, linMemWasmSize' \in 0 .. PageLimit, linMemWasmSize <= linMemWasmSize',
         answer' = Grown(linMemWasmSize), UNCHANGED bytes
  PROVE  AbstractStep
<1>1. linMemWasmSize \in 0 .. PageLimit
  BY DEF Basics, TypeOK
<1>2. PICK m \in 0 .. PageLimit : m = linMemWasmSize
  BY <1>1, Zenon
<1>3. PICK n \in 0 .. PageLimit : n = linMemWasmSize'
  BY Zenon
<1>4. PICK delta \in Nat : n = m + delta /\ delta <= PageLimit
  <2>1. m <= n
    BY <1>2, <1>3, Zenon
  <2>2. n - m \in Nat /\ n = m + (n - m) /\ n - m <= PageLimit
    BY <2>1
  <2>. QED BY <2>2
<1>5. delta \in 0 .. 2 * Space
  BY <1>4, PagesFitSpace
<1>6. LM!Grow(delta)
  <2>1. linMemWasmSize' = linMemWasmSize + delta /\ linMemWasmSize + delta <= PageLimit
    <3>1. m + delta <= PageLimit
      BY <1>4
    <3>. QED BY <1>2, <1>3, <1>4, <3>1, Zenon
  <2>. QED BY <2>1 DEF LM!Grow, LM!Grown, Grown
<1>. QED BY <1>5, <1>6 DEF AbstractStep, LM!LMNext

LEMMA RefineNoGrowth ==
  ASSUME Basics, answer' = Grown(-1), UNCHANGED <<linMemWasmSize, bytes>>
  PROVE  AbstractStep
<1>1. linMemWasmSize \in 0 .. PageLimit
  BY DEF Basics, TypeOK
<1>2. PageLimit + 1 \in 0 .. 2 * Space
  BY PagesFitSpace
<1>3. ~(linMemWasmSize + (PageLimit + 1) <= PageLimit)
  BY <1>1
<1>4. LM!Grow(PageLimit + 1)
  BY <1>3 DEF LM!Grow, LM!Grown, Grown
<1>. QED BY <1>2, <1>4 DEF AbstractStep, LM!LMNext

LEMMA RefineDiscard ==
  ASSUME Basics, NEW length \in 0 .. Space, bytes' = Kept(length), UNCHANGED linMemWasmSize,
         answer' = Shrunk(length)
  PROVE  AbstractStep
<1>1. length \in 0 .. 2 * Space /\ length >= length
  BY PassiveSizeAssumption
<1>2. \E n \in 0 .. 2 * Space : n >= length /\ bytes' = [o \in Offset |-> IF o < n THEN bytes[o] ELSE 0]
  BY <1>1 DEF Kept
<1>3. LM!Discard(length)
  BY <1>2 DEF LM!Discard, LM!Shrinking, Shrinking, LM!Shrunk, Shrunk
<1>. QED BY <1>1, <1>3 DEF AbstractStep, LM!LMNext

LEMMA SucceedRefines ==
  ASSUME Basics, SizesOK, OutsideFaults, NEW o, Asked(o), Succeed(o), pc \notin {"new", "dead"},
         Fitting(o, committed'), o.kind = "shrink" => committed' = o.target,
         committed' \in Nat, linMemPages' \in 0 .. PageLimit,
         o.kind = "grow" => linMemWasmSize <= linMemPages'
  PROVE  AbstractStep
<1>1. o \in OperationType /\ o.access \in Access /\ o.kind \in Kind /\ o.target \in Nat
  BY DEF Asked, OperationType
<1>2. PICK f \in Nat : f = Formal /\ f <= Space
  BY FormalFacts
<1>3. committed \in Nat /\ committed <= PagedBasedata + f
  <2>1. committed \in Nat /\ committed - PagedBasedata <= f
    BY <1>2, FormalFacts DEF OutsideFaults, Usable
  <2>. QED BY <2>1
<1>4. CASE o.kind = "init"
  <2>1. answer' = Said("none") /\ UNCHANGED <<linMemWasmSize, bytes>>
    BY <1>4 DEF Succeed, Leave
  <2>. QED BY <2>1, RefineSaid
<1>5. CASE o.kind \in {"segments", "region"}
  <2>1. answer' = AccessAnswer(o.access) /\ bytes' = Stored(bytes, o.access, Space) /\ UNCHANGED linMemWasmSize
    BY <1>5 DEF Succeed
  <2>2. o.access.at \in Nat /\ o.access.width \in Nat
    BY <1>1 DEF Access
  <2>3. PICK c \in Nat : c = committed' /\ c <= PagedBasedata + f
    BY <1>2, <1>5 DEF Fitting
  <2>4. PagedBasedata + o.access.at + o.access.width <= c
    BY <1>5, <2>3 DEF Fitting
  <2>5. o.access.at + o.access.width <= f
    BY <2>2, <2>3, <2>4
  <2>. QED BY <1>1, <1>2, <2>1, <2>5, RefineAccess
<1>6. CASE o.kind = "fault"
  BY <1>6 DEF Succeed, AbstractStep
<1>7. CASE o.kind = "grow"
  <2>1. answer' = Grown(linMemWasmSize) /\ bytes' = bytes /\ linMemWasmSize' = linMemPages'
    BY <1>7 DEF Succeed
  <2>. QED BY <1>7, <2>1, RefineGrow
<1>8. CASE o.kind = "shrink"
  <2>1. PICK n \in Int : n = o.target - PagedBasedata
    BY <1>1
  <2>2. PagedBasedata <= o.target /\ o.target <= committed
    BY <1>8 DEF Fitting
  <2>3. n \in 0 .. Space
    BY <1>1, <1>2, <1>3, <2>1, <2>2
  <2>4. CASE WholePages
    <3>1. n = o.access.width
      <4>1. o.access.width \in ShrinkLengths /\ o.target = ShrunkSize(o.access.width)
        BY <1>8 DEF Fitting
      <4>2. RoundDown(o.access.width) = o.access.width /\ o.access.width \in Nat
        BY <2>4, <4>1, PassiveInputAssumption DEF WholePages
      <4>. QED BY <2>1, <4>1, <4>2, PassiveSizeAssumption DEF ShrunkSize
    <3>2. answer' = Shrunk(n) /\ bytes' = Kept(n) /\ UNCHANGED linMemWasmSize
      BY <1>8, <2>1, <3>1 DEF Succeed
    <3>. QED BY <2>3, <3>2, RefineDiscard
  <2>5. CASE ~WholePages
    BY <2>5 DEF AbstractStep
  <2>. QED BY <2>4, <2>5
<1>. QED BY <1>1, <1>4, <1>5, <1>6, <1>7, <1>8 DEF Asked, Kind

LEMMA FailedRefines ==
  ASSUME Basics, NEW o, Asked(o), NEW why \in {"none", "couldnotextend", "outofbounds"}, Failed(o, why)
  PROVE  AbstractStep
<1>1. /\ answer' \in {Said("none"), Said("refused"), Said("couldnotextend"), Said("outofbounds")}
      /\ UNCHANGED <<linMemWasmSize, bytes>>
  BY DEF Failed, Fail, Leave, Asked, OperationType, Kind
<1>. QED BY <1>1, RefineSaid

LEMMA ResizeRefines ==
  ASSUME Basics, NEW o, Asked(o), NEW size, Resize(o, size)
  PROVE  AbstractStep
<1>1. CASE Failed(o, "couldnotextend")
  BY <1>1, FailedRefines
<1>2. CASE UNCHANGED <<committed, linMemWasmSize, bytes, drift, answer>>
  BY <1>2 DEF AbstractStep
<1>. QED BY <1>1, <1>2 DEF Resize

LEMMA ProbeRefines ==
  ASSUME Basics, SizesOK, OutsideFaults, NEW o, Asked(o), o.kind \in {"segments", "fault", "region"},
         NEW offset \in Nat, Probe(o, offset),
         o.kind # "fault" => o.access.at + o.access.width <= offset + 1,
         pc \notin {"new", "dead", "commit"}, UNCHANGED linMemPages
  PROVE  AbstractStep
<1>1. CASE offset < Usable /\ Succeed(o) /\ UNCHANGED committed
  <2>1. /\ committed \in Nat /\ PagedBasedata <= committed /\ linMemPages' \in 0 .. PageLimit
    BY FormalFacts DEF SizesOK, Basics, TypeOK
  <2>2. PICK f \in Nat : f = Formal
    BY FormalFacts
  <2>3. committed - PagedBasedata <= f
    BY <2>2 DEF OutsideFaults, Usable
  <2>4. o.access.at \in Nat /\ o.access.width \in Nat
    BY DEF Asked, OperationType, Access
  <2>5. committed <= PagedBasedata + f
    BY <2>1, <2>3
  <2>6. o.kind # "fault" => PagedBasedata + o.access.at + o.access.width <= committed
    BY <1>1, <2>1, <2>4 DEF Usable
  <2>7. Fitting(o, committed')
    BY <1>1, <2>1, <2>2, <2>5, <2>6 DEF Fitting
  <2>. QED BY <1>1, <2>1, <2>7, SucceedRefines
<1>2. CASE Resize(o, PagedBasedata + PagesFor(offset))
  BY <1>2, ResizeRefines
<1>3. CASE Failed(o, "outofbounds")
  BY <1>3, FailedRefines
<1>. QED BY <1>1, <1>2, <1>3 DEF Probe

(***************************************************************************)
(* One lemma per action.                                                   *)
(***************************************************************************)
LEMMA ConstructStep == ASSUME Basics, Deep, ~Eager, Construct PROVE Deep' /\ AbstractStep
<1>. DEFINE o == Operation("init", NoAccess, FALSE, 0, "reserved")
<1>1. Asked(o) /\ Probed(o) /\ o.kind = "init"
  BY DEF Construct, Basics, PadOK, InLandingPad, Asked, Probed, Operation, OperationType, NoAccess, Access, Kind, Place
<1>2. /\ pc = "new" /\ committed = 0 /\ linMemPages' = linMemWasmSize
      /\ Resize(o, PagedBasedata) /\ UNCHANGED <<limits, landing, cell>>
  <2>1. Resize(o, PagedBasedata + IF Eager THEN InitialPages * PageSize ELSE 0)
    BY DEF Construct
  <2>. HIDE DEF o
  <2>2. (PagedBasedata + IF Eager THEN InitialPages * PageSize ELSE 0) = PagedBasedata
    OBVIOUS
  <2>3. Resize(o, PagedBasedata)
    BY <2>1, <2>2, Zenon
  <2>. QED BY <2>3 DEF Construct, Deep, SizesOK
<1>. HIDE DEF o
<1>3. Fitting(o, PagedBasedata)
  <2>1. PICK f \in Nat : f = Formal
    BY FormalFacts
  <2>2. PagedBasedata <= PagedBasedata + f
    BY <2>1
  <2>. QED BY <1>1, <1>2, <2>1, <2>2 DEF Fitting
<1>. QED BY <1>1, <1>2, <1>3, ResizeDeep, ResizeRefines DEF Deep

LEMMA LoadSegmentsStep == ASSUME Basics, Deep, LoadSegments PROVE Deep' /\ AbstractStep
<1>1. PICK a \in DataSegments :
        LET o == Operation("segments", a, FALSE, 0, "idle")
        IN  IF a.at + a.width = 0 THEN Succeed(o) /\ UNCHANGED committed
                                  ELSE Probe(o, a.at + a.width - 1)
  BY DEF LoadSegments
<1>. DEFINE o == Operation("segments", a, FALSE, 0, "idle")
<1>2. Asked(o) /\ Probed(o) /\ o.kind = "segments" /\ o.access = a /\ a.at \in Nat /\ a.width \in Nat
  BY DEF LoadSegments, Basics, PadOK, InLandingPad, Asked, Probed, Operation, OperationType, Access, Kind, Place
<1>3. pc = "reserved" /\ UNCHANGED <<limits, linMemPages, landing, cell>>
  BY DEF LoadSegments
<1>4. CASE a.at + a.width = 0
  <2>1. Succeed(o) /\ UNCHANGED committed
    BY <1>1, <1>4
  <2>. HIDE DEF o
  <2>2. PagedBasedata <= committed /\ committed \in Nat /\ linMemPages' \in 0 .. PageLimit
    BY <1>3 DEF Deep, SizesOK, Basics, TypeOK
  <2>3. PICK f \in Nat : f = Formal
    BY FormalFacts
  <2>4. committed - PagedBasedata <= f
    BY <1>3, <2>3 DEF Deep, OutsideFaults, Usable
  <2>5. committed <= PagedBasedata + f /\ PagedBasedata + a.at + a.width <= committed
    BY <1>2, <1>4, <2>2, <2>4
  <2>6. Fitting(o, committed')
    BY <1>2, <2>1, <2>2, <2>3, <2>5 DEF Fitting
  <2>. QED BY <1>2, <1>3, <2>1, <2>2, <2>6, SucceedDeep, SucceedRefines DEF Deep
<1>5. CASE a.at + a.width # 0
  <2>1. PICK offset \in Nat : offset = a.at + a.width - 1
    BY <1>2, <1>5
  <2>2. Probe(o, a.at + a.width - 1)
    BY <1>1, <1>5
  <2>. HIDE DEF o
  <2>3. Probe(o, offset)
    BY <2>1, <2>2, Zenon
  <2>4. a.at + a.width <= offset + 1
    BY <1>2, <2>1
  <2>. QED BY <1>2, <1>3, <2>3, <2>4, ProbeDeep, ProbeRefines DEF Deep
<1>. QED BY <1>4, <1>5

LEMMA ProbeLandingStep == ASSUME Basics, Deep, ProbeLanding PROVE Deep' /\ AbstractStep
<1>. DEFINE o == [op EXCEPT !.kind = "fault"]
<1>1. Asked(o) /\ o.kind = "fault"
  BY DEF ProbeLanding, Basics, TypeOK, OperationOK, PadOK, InLandingPad, Asked, OperationType, Kind
<1>2. Probed(o)
  BY DEF ProbeLanding, Basics, TypeOK, OperationType, Deep, ProbingOK, InLandingPad, Probed, NeedsProbe
<1>3. pc = "probe" /\ landing \in Nat /\ Probe(o, landing) /\ UNCHANGED <<limits, linMemPages, landing, cell>>
  BY DEF ProbeLanding, Basics, TypeOK
<1>. HIDE DEF o
<1>. QED BY <1>1, <1>2, <1>3, ProbeDeep, ProbeRefines DEF Deep

LEMMA RegionStep ==
  ASSUME Basics, Deep, NEW a \in HostRegions, a.at + a.width <= Space, Region(a)
  PROVE  Deep' /\ AbstractStep
<1>. DEFINE o == Operation("region", a, FALSE, 0, pc)
<1>1. Asked(o) /\ Probed(o) /\ o.kind = "region" /\ o.access = a
  BY DEF Region, Outside, Basics, PadOK, InLandingPad, Asked, Probed, Operation, OperationType, Access, Kind, Place
<1>2. a.at \in Nat /\ a.width \in Nat /\ a.width >= 1
  BY DEF Access
<1>3. PICK offset \in Nat : offset = a.at + a.width - 1
  BY <1>2
<1>4. offset % Space = offset
  <2>1. offset < Space
    BY <1>2, <1>3
  <2>. QED BY <2>1
<1>5. Probe(o, offset) /\ pc \in {"idle", "host"} /\ UNCHANGED <<limits, linMemPages, landing, cell>>
  BY <1>3, <1>4 DEF Region, Outside
<1>6. a.at + a.width <= offset + 1
  BY <1>2, <1>3
<1>. HIDE DEF o
<1>. QED BY <1>1, <1>5, <1>6, ProbeDeep, ProbeRefines DEF Deep

LEMMA MemoryGrowStep ==
  ASSUME Basics, Deep, ~Eager, NEW delta \in GrowDeltas, MemoryGrow(delta)
  PROVE  Deep' /\ AbstractStep
<1>. DEFINE o == Operation("grow", NoAccess, FALSE, 0, "wasm")
<1>1. Asked(o) /\ Probed(o) /\ o.kind = "grow"
  BY DEF MemoryGrow, Basics, PadOK, InLandingPad, Asked, Probed, Operation, OperationType, NoAccess, Access, Kind, Place
<1>2. /\ pc = "wasm" /\ UNCHANGED <<limits, landing, cell>> /\ linMemWasmSize \in Nat /\ committed \in Nat
      /\ PagedBasedata <= committed
  BY FormalFacts DEF MemoryGrow, Deep, SizesOK
<1>3. CASE linMemWasmSize + delta > PageLimit
  <2>1. UNCHANGED <<limits, memory, pad, pc, op>>
    BY <1>3 DEF MemoryGrow, memory, pad
  <2>2. Deep'
    BY <2>1 DEF Deep, SizesOK, TargetOK, ProbingOK, OutsideFaults, InLandingPad, Usable, Formal, Accessible,
                limits, memory, pad
  <2>3. answer' = Grown(-1) /\ UNCHANGED <<linMemWasmSize, bytes>>
    BY <1>3 DEF MemoryGrow
  <2>. QED BY <2>2, <2>3, RefineNoGrowth
<1>4. CASE ~(linMemWasmSize + delta > PageLimit)
  <2>1. linMemPages' = linMemWasmSize + delta /\ Succeed(o) /\ UNCHANGED committed
    BY <1>4 DEF MemoryGrow
  <2>. HIDE DEF o
  <2>6. linMemPages' \in 0 .. PageLimit /\ linMemWasmSize <= linMemPages'
    BY <1>2, <1>4, <2>1
  <2>2. PICK f \in Nat : f = Formal
    BY FormalFacts
  <2>3. committed - PagedBasedata <= f
    BY <1>2, <2>2 DEF Deep, OutsideFaults, Usable
  <2>4. committed <= PagedBasedata + f
    BY <1>2, <2>3
  <2>5. Fitting(o, committed')
    BY <1>1, <1>2, <2>1, <2>2, <2>4 DEF Fitting
  <2>. QED BY <1>1, <1>2, <2>1, <2>5, <2>6, SucceedDeep, SucceedRefines DEF Deep
<1>. QED BY <1>3, <1>4

LEMMA ShrinkStep == ASSUME Basics, Deep, NEW length \in ShrinkLengths, ShrinkToSize(length) PROVE Deep' /\ AbstractStep
<1>. DEFINE o == Operation("shrink", FirstBytes(length), FALSE, 0, pc)
<1>1. Asked(o) /\ Probed(o) /\ o.kind = "shrink" /\ o.access.width = length
  BY PassiveInputAssumption
     DEF ShrinkToSize, Outside, Basics, PadOK, InLandingPad, Asked, Probed, Operation, OperationType,
         FirstBytes, Access, Kind, Place
<1>2. /\ pc \in {"idle", "host"} /\ UNCHANGED <<limits, landing, cell>> /\ linMemPages' = linMemWasmSize
      /\ committed \in Nat /\ PagedBasedata <= committed
  BY FormalFacts DEF ShrinkToSize, Outside, Deep, SizesOK
<1>3. CASE Failed(o, "none")
  <2>. HIDE DEF o
  <2>. QED BY <1>1, <1>2, <1>3, FailedDeep, FailedRefines DEF Deep
<1>4. CASE ~(Usable < length) /\ Resize(o, ShrunkSize(length))
  <2>1. PICK size \in Nat : size = RoundDown(length)
    BY RoundedDown
  <2>2. size <= length
    BY <2>1, RoundedDown
  <2>3. size <= committed - PagedBasedata
    BY <1>2, <1>4, <2>2 DEF Usable
  <2>4. PagedBasedata <= PagedBasedata + size /\ PagedBasedata + size <= committed /\ PagedBasedata + size \in Nat
    BY <1>2, <2>3
  <2>5. Fitting(o, PagedBasedata + size) /\ Resize(o, PagedBasedata + size)
    BY <1>1, <1>4, <2>1, <2>4 DEF Fitting, ShrunkSize
  <2>. HIDE DEF o
  <2>. QED BY <1>1, <1>2, <2>4, <2>5, ResizeDeep, ResizeRefines DEF Deep
<1>. QED BY <1>3, <1>4 DEF ShrinkToSize

\* sizes and bytes stay, and the thread is not about to commit
LEMMA StillDeep ==
  ASSUME Basics, SizesOK, OutsideFaults, UNCHANGED <<committed, linMemPages, linMemWasmSize, bytes>>,
         pc \notin {"new", "dead", "commit"}, pc' \notin {"new", "commit"}
  PROVE  SizesOK' /\ TargetOK' /\ OutsideFaults'
<1>1. SizesOK' /\ TargetOK'
  BY DEF SizesOK, TargetOK
<1>2. Usable' = Usable /\ Formal' = Formal
  BY DEF Usable, Formal
<1>. QED BY <1>1, <1>2 DEF OutsideFaults

LEMMA TransferStep ==
  ASSUME Basics, Deep, Call \/ Return \/ CallImport \/ ReturnFromImport
  PROVE  Deep' /\ AbstractStep
<1>1. /\ pc \in {"idle", "wasm", "host"} /\ pc' \in {"idle", "wasm", "host"}
      /\ UNCHANGED <<committed, linMemPages, linMemWasmSize, bytes>> /\ answer' = Said("none")
  BY DEF Call, Return, CallImport, ReturnFromImport, Leave, memory
<1>2. ProbingOK'
  BY <1>1 DEF ProbingOK, InLandingPad
<1>. QED BY <1>1, <1>2, StillDeep, RefineSaid DEF Deep

LEMMA IssueStep == ASSUME Basics, Deep, NEW a \in WasmAccesses, Issue(a) PROVE Deep' /\ AbstractStep
<1>1. /\ pc = "wasm" /\ pc' = "access" /\ op'.access = a /\ op'.probing = NeedsProbe(a)
      /\ UNCHANGED <<committed, linMemPages, linMemWasmSize, bytes, answer>>
  BY DEF Issue, memory, Operation
<1>2. ProbingOK'
  BY <1>1 DEF ProbingOK, NeedsProbe
<1>. QED BY <1>1, <1>2, StillDeep DEF Deep, AbstractStep

\* no byte changes by a store that faults: stores that tear are probed
LEMMA NothingTorn == ASSUME Basics, ProbingOK, Fault PROVE bytes' = bytes
<1>1. /\ pc = "access" /\ op.access \in WasmAccesses /\ ~Accessible(op.access)
      /\ bytes \in [Offset -> Byte] /\ committed \in Nat
  BY DEF Fault, Basics, TypeOK, OperationOK
<1>2. PICK a \in WasmAccesses : a = op.access
  BY <1>1
<1>3. a.at \in Nat /\ a.width \in Nat /\ a.width >= 1 /\ Usable \in Int
  BY <1>1 DEF Access, Usable
<1>4. PICK upTo \in Torn(a) : bytes' = Stored(bytes, a, upTo)
  BY <1>2 DEF Fault
<1>5. ASSUME NEW b \in Offset PROVE ~(a.byte # Nothing /\ b \in Covers(a.at, a.width) /\ b < upTo)
  <2>1. CASE upTo = 0
    BY <2>1 DEF Offset
  <2>2. CASE upTo = Usable /\ StoresTear /\ ~op.probing
    <3>1. ~NeedsProbe(a)
      BY <1>1, <1>2, <2>2 DEF ProbingOK
    <3>2. a.byte # Nothing => a.width = 1
      BY <1>3, <2>2, <3>1 DEF NeedsProbe
    <3>3. a.at + a.width > Usable
      BY <1>1, <1>2, <1>3 DEF Accessible
    <3>. QED BY <1>3, <2>2, <3>2, <3>3 DEF Covers, Offset
  <2>. QED BY <1>2, <2>1, <2>2 DEF Torn
<1>6. Stored(bytes, a, upTo) = bytes
  BY <1>1, <1>5 DEF Stored
<1>. QED BY <1>4, <1>6

LEMMA FaultStep == ASSUME Basics, Deep, Fault PROVE Deep' /\ AbstractStep
<1>1. bytes' = bytes
  BY NothingTorn DEF Deep
<1>2. /\ pc = "access" /\ UNCHANGED <<committed, linMemPages, linMemWasmSize>>
      /\ \/ pc' = "idle" /\ answer' = Said("outofbounds")
         \/ pc' = "pad" /\ UNCHANGED <<op, answer>>
  BY DEF Fault, Leave
<1>3. ProbingOK'
  <2>1. ~Accessible(op.access)
    BY DEF Fault
  <2>. QED BY <1>2, <2>1 DEF Deep, ProbingOK, InLandingPad, NeedsProbe
<1>4. AbstractStep
  BY <1>1, <1>2, RefineSaid DEF AbstractStep
<1>. QED BY <1>1, <1>2, <1>3, <1>4, StillDeep DEF Deep

LEMMA LandingPadStep == ASSUME Basics, Deep, NEW m \in Misalignments, LandingPad(m) PROVE Deep' /\ AbstractStep
<1>1. pc = "pad" /\ pc' = "probe" /\ UNCHANGED <<committed, linMemPages, linMemWasmSize, bytes, op, answer>>
  BY DEF LandingPad, memory
<1>2. ProbingOK'
  BY <1>1 DEF Deep, ProbingOK, NeedsProbe
<1>. QED BY <1>1, <1>2, StillDeep DEF Deep, AbstractStep

\* an access that is carried out lies in the usable bytes
LEMMA StoredKeeps ==
  ASSUME OutsideFaults, bytes \in [Offset -> Byte], committed \in Nat, NEW a \in Access, Accessible(a),
         NEW b \in Offset, b >= Usable
  PROVE  Stored(bytes, a, Space)[b] = 0
<1>1. b \notin Covers(a.at, a.width)
  BY DEF Covers, Accessible, Access, Usable, Offset
<1>. QED BY <1>1 DEF Stored, OutsideFaults

LEMMA ExecuteStep == ASSUME Basics, Deep, Execute PROVE Deep' /\ AbstractStep
<1>1. /\ pc = "access" /\ Accessible(op.access) /\ op.access \in Access /\ op \in OperationType
      /\ bytes \in [Offset -> Byte] /\ committed \in Nat
      /\ UNCHANGED <<committed, linMemPages, linMemWasmSize>>
  BY DEF Execute, Basics, TypeOK, OperationOK
<1>2. CASE op.probing
  <2>1. pc' = "access" /\ UNCHANGED <<bytes, answer>> /\ op'.access = op.access
    BY <1>1, <1>2 DEF Execute, OperationType
  <2>2. op.access.at + op.access.width <= Usable /\ Usable' = Usable
    BY <1>1 DEF Accessible, Usable
  <2>3. ProbingOK'
    BY <2>1, <2>2 DEF ProbingOK, Accessible
  <2>. QED BY <1>1, <2>1, <2>3, StillDeep DEF Deep, AbstractStep
<1>3. CASE ~op.probing
  <2>1. pc' = "wasm" /\ bytes' = Stored(bytes, op.access, Space) /\ answer' = AccessAnswer(op.access)
    BY <1>3 DEF Execute
  <2>2. Usable' = Usable /\ Formal' = Formal
    BY <1>1 DEF Usable, Formal
  <2>3. OutsideFaults'
    <3>1. Usable <= Formal
      BY <1>1 DEF Deep, OutsideFaults
    <3>2. ASSUME NEW b \in Offset, b >= Usable' PROVE bytes'[b] = 0
      BY <1>1, <2>1, <2>2, <3>2, StoredKeeps DEF Deep
    <3>. QED BY <2>2, <3>1, <3>2 DEF OutsideFaults
  <2>4. SizesOK' /\ TargetOK' /\ ProbingOK'
    BY <1>1, <2>1 DEF Deep, SizesOK, TargetOK, ProbingOK, InLandingPad
  <2>5. op.access.at + op.access.width <= Formal
    <3>1. PICK f \in Nat : f = Formal
      BY FormalFacts
    <3>2. committed - PagedBasedata <= f
      BY <1>1, <3>1 DEF Deep, OutsideFaults, Usable
    <3>3. PICK end \in Nat : end = op.access.at + op.access.width
      BY <1>1 DEF Access
    <3>4. end <= committed - PagedBasedata
      BY <1>1, <3>3 DEF Accessible, Usable
    <3>5. end <= f
      BY <1>1, <3>2, <3>4
    <3>. QED BY <3>1, <3>3, <3>5, Zenon
  <2>. QED BY <1>1, <2>1, <2>3, <2>4, <2>5, RefineAccess DEF Deep
<1>. QED BY <1>2, <1>3

LEMMA CommitStep == ASSUME Basics, Deep, Commit PROVE Deep' /\ AbstractStep
<1>1. /\ Asked(op) /\ pc = "commit" /\ op.target \in Nat
      /\ linMemPages' = linMemPages /\ linMemPages = linMemWasmSize /\ linMemPages \in 0 .. PageLimit
      /\ UNCHANGED <<limits, landing, cell>>
  BY DEF Commit, Basics, TypeOK, OperationOK, OperationType, PadOK, InLandingPad, Asked, Deep, SizesOK
<1>2. Probed(op)
  BY <1>1 DEF Probed, Deep, ProbingOK, InLandingPad
<1>3. Fitting(op, op.target) /\ op.kind # "grow"
  BY <1>1 DEF Fitting, Deep, TargetOK
<1>4. CASE Succeed(op) /\ committed' = op.target
  BY <1>1, <1>2, <1>3, <1>4, SucceedDeep, SucceedRefines DEF Deep
<1>5. CASE Failed(op, "couldnotextend")
  <2>1. PagedBasedata <= committed \/ op.kind = "init"
    BY <1>1 DEF Deep, SizesOK
  <2>. QED BY <1>1, <1>5, <2>1, FailedDeep, FailedRefines DEF Deep
<1>. QED BY <1>4, <1>5 DEF Commit

LEMMA SameDeep == ASSUME Deep, UNCHANGED <<memory, pad, control>> PROVE Deep'
  BY DEF Deep, SizesOK, TargetOK, ProbingOK, OutsideFaults, InLandingPad, Usable, Formal, Accessible,
         memory, pad, control

LEMMA NextStep == ASSUME Basics, Deep, Regular, [Next]_vars PROVE Deep' /\ AbstractStep
<1>1. CASE CompiledCode
  BY <1>1, TransferStep, IssueStep, MemoryGrowStep DEF CompiledCode, Regular
<1>2. CASE AccessStep
  BY <1>2, ExecuteStep, FaultStep, ProbeLandingStep, LandingPadStep DEF AccessStep
<1>3. CASE Embedder
  BY <1>3, ConstructStep, LoadSegmentsStep, RegionStep, ShrinkStep DEF Embedder, Regular
<1>4. CASE StoreLimit \/ \E l \in Limits : CheckLimit(l)
  BY <1>4, LimitBasics, SameDeep DEF AbstractStep, memory, control
<1>5. CASE UNCHANGED vars
  BY <1>5, SameDeep DEF vars, AbstractStep, memory, control
<1>. QED BY <1>1, <1>2, <1>3, <1>4, <1>5, CommitStep DEF Next

LEMMA InitDeep == ASSUME Init PROVE Deep
<1>1. SizesOK /\ TargetOK /\ ProbingOK
  BY DEF Init, SizesOK, TargetOK, ProbingOK, InLandingPad
<1>2. OutsideFaults
  BY DEF Init, OutsideFaults
<1>. QED BY <1>1, <1>2 DEF Deep

-----------------------------------------------------------------------------
(***************************************************************************)
(* The theorems.                                                           *)
(***************************************************************************)
LEMMA Inductive == Spec => []IInv
<1>1. Init => IInv
  BY InitBasics, InitLimit, InitDeep DEF IInv, Basics, Deep
<1>2. IInv /\ [Next]_vars => IInv'
  <2>. SUFFICES ASSUME IInv, [Next]_vars PROVE IInv'
    OBVIOUS
  <2>1. Basics /\ (~Concurrent => LimitOK) /\ (Regular => Deep)
    BY DEF IInv, Basics, Deep
  <2>2. Basics' /\ (~Concurrent => LimitOK') /\ (Regular => Deep')
    BY <2>1, NextBasics, NextLimit, NextStep
  <2>. QED BY <2>2 DEF IInv, Basics, Deep, Regular
<1>. QED BY <1>1, <1>2, PTL DEF Spec

\* The sizes, limits and the landing pad's data of the passive memory stay within
\* their types whatever is committed, refused, shrunk or interrupted by a fault.
THEOREM TypeCorrect == Spec => []TypeOK
<1>1. IInv => TypeOK
  BY DEF IInv
<1>. QED BY <1>1, Inductive, PTL

\* The landing pad gives the interrupted code its stack pointer back: what it
\* takes off to align it is still in its cell when a page has been committed.
THEOREM FaultLeavesNoTrace == Spec => []StackPointerRestored
<1>1. IInv => StackPointerRestored
  BY DEF IInv, PadOK, InLandingPad, StackPointerRestored
<1>. QED BY <1>1, Inductive, PTL

\* If the limit is set by the thread that uses the module, the memory in use never
\* exceeds it, whichever of probe, shrink, grow and fault commits pages.
THEOREM LimitIsKept == Spec => []UsageWithinLimit
<1>1. IInv => UsageWithinLimit
  BY DEF IInv, LimitOK, UsageWithinLimit
<1>. QED BY <1>1, Inductive, PTL

\* With pages committed on demand, and host regions within 32 bits, no access
\* beyond the formal size is ever backed by pages: unchecked code always faults.
THEOREM OutsideAlwaysFaults == Regular => (Spec => []OutsideFaults)
<1>. SUFFICES ASSUME Regular PROVE Spec => []OutsideFaults
  OBVIOUS
<1>1. IInv => OutsideFaults
  BY DEF IInv
<1>. QED BY <1>1, Inductive, PTL


\* With pages committed on demand, host regions within 32 bits, and shrinks to
\* lengths of whole OS pages, a program cannot tell the lazily committed memory
\* from an array of bytes: faults, resumed instructions, probes of stores that
\* tear, refused commits and shrinks implement the abstract linear memory, of
\* which a shrink keeps the length it was given.
THEOREM ImplementsArray == Regular /\ WholePages => (Spec => ImplementsLinearMemory)
<1>. SUFFICES ASSUME Regular, WholePages PROVE Spec => ImplementsLinearMemory
  OBVIOUS
<1>1. Init => LM!LMInit
  BY DEF Init, LM!LMInit, LM!Said, Said
<1>2. IInv /\ [Next]_vars => [LM!LMNext]_(LM!lmVars)
  <2>. SUFFICES ASSUME IInv, [Next]_vars PROVE LM!LMNext \/ UNCHANGED LM!lmVars
    OBVIOUS
  <2>1. Basics /\ Deep
    BY DEF IInv, Basics, Deep
  <2>. QED BY <2>1, NextStep DEF AbstractStep, LM!lmVars
<1>. QED BY <1>1, <1>2, Inductive, PTL DEF Spec, ImplementsLinearMemory, LM!LMSpec
=============================================================================
