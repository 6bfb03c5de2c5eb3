----------------------- MODULE ActiveJobMemory_proofs -----------------------
(***************************************************************************)
(* Proofs about ActiveJobMemory for every value of its constants.          *)
(***************************************************************************)
EXTENDS ActiveJobMemory, TLAPS

USE DEF Base, Content, Kind, Place

(***************************************************************************)
(* Arithmetic of the sizes.                                                *)
(***************************************************************************)
LEMMA ProductType ==
  ASSUME NEW m \in Nat, NEW n \in Nat
  PROVE  m * n \in Nat
  OBVIOUS

LEMMA ProductMonotone ==
  ASSUME NEW m \in Nat, NEW n \in Nat, NEW k \in Nat, m <= n
  PROVE  m * k <= n * k
<1>1. (n - m) \in Nat
  OBVIOUS
<1>2. (n - m) * k \in Nat
  BY <1>1, ProductType
<1>3. n * k = m * k + (n - m) * k
  OBVIOUS
<1>. QED BY <1>2, <1>3, ProductType

LEMMA RoundedBounds ==
  ASSUME NEW length \in Nat
  PROVE  /\ Rounded(length) \in Nat
         /\ BasedataSize + length <= Rounded(length)
  BY SizeAssumption DEF Rounded

LEMMA ProposedBounds ==
  ASSUME NEW total \in Nat, total <= MaxUint, maxRam \in Nat, total <= maxRam
  PROVE  /\ Proposed(total) \in 0 .. MaxUint
         /\ total <= Proposed(total)
         /\ Proposed(total) <= maxRam
  BY SizeAssumption DEF Proposed, Smaller, Larger

LEMMA Wraps ==
  ASSUME NEW n \in Nat
  PROVE  /\ n % (MaxUint + 1) \in 0 .. MaxUint
         /\ n <= MaxUint => n % (MaxUint + 1) = n
         /\ n % (MaxUint + 1) <= n
  BY SizeAssumption, SMTT(30)

(***************************************************************************)
(* The content of the block keeps its type.                                *)
(***************************************************************************)
LEMMA ContentType ==
  ASSUME bytes \in [Offset -> Content], NEW need, NEW a \in Access
  PROVE  Written(Exposed(need), a) \in [Offset -> Content]
<1>1. Exposed(need) \in [Offset -> Content]
  BY ValueAssumption DEF Exposed
<1>2. \A c \in [Offset -> Content] : Written(c, a) \in [Offset -> Content]
  BY DEF Written, Access
<1>. QED BY <1>1, <1>2

LEMMA InitInv == Init => IInv
<1>. SUFFICES ASSUME Init PROVE IInv
  OBVIOUS
<1>1. NoOp \in OperationType
  BY SizeAssumption, ValueAssumption DEF NoOp, Operation, OperationType, NoAccess, Access
<1>2. TypeOK
  BY <1>1, SizeAssumption, ValueAssumption DEF Init, TypeOK
<1>3. UsableBacked
  BY SizeAssumption DEF Init, UsableBacked, InUse
<1>. QED
  BY <1>2, <1>3, ValueAssumption
     DEF Init, IInv, OperationOK, LengthOK, Waiting, BaseOK, NewOK, ActualOK, RegistersCurrent, MutexOK

(***************************************************************************)
(* What an operation must satisfy for its outcome to re-establish the      *)
(* invariant: AllowedKept speaks of the page limit a call has just set.    *)
(***************************************************************************)
AllowedKept ==
  allowed' \in 0 .. PageLimit /\ allowed' <= linMemWasmSize /\ usable <= allowed' * PageSize

LEMMA AllowedProduct ==
  ASSUME AllowedKept
  PROVE  allowed' * PageSize \in Nat
<1>1. allowed' \in Nat /\ PageSize \in Nat
  BY SizeAssumption DEF AllowedKept
<1>. QED BY <1>1, ProductType, Zenon

AllowedFor(o) == AllowedKept /\ (o.kind # "shrink" => o.need <= allowed' * PageSize)

Ready(o) ==
  o \in OperationType /\ Entered(o) /\ (o.kind = "shrink" => o.need <= usable)

Fits(o) ==
  IF o.kind = "shrink" THEN o.need > 0 => BasedataSize + o.need <= size
  ELSE Larger(usable, o.need) > 0 => BasedataSize + Larger(usable, o.need) <= size

LEMMA SucceedInv ==
  ASSUME IInv, NEW o, Ready(o), Fits(o), AllowedFor(o),
         basedataStart' = data, Succeed(o), UNCHANGED <<maxRam, requests>>
  PROVE  IInv'
<1>. USE SizeAssumption, ValueAssumption DEF Entered
<1>. DEFINE length == IF o.kind = "shrink" THEN o.need ELSE Larger(usable, o.need)
<1>0. /\ o.need \in 0 .. MaxUint /\ usable \in 0 .. MaxUint /\ actual = usable
      /\ o.kind = "init" => o.need = 0
      /\ o.from \in Running /\ (o.kind = "access" <=> o.from = "wasm")
  BY DEF IInv, TypeOK, ActualOK, Ready, OperationType, Running
<1>1. /\ length \in 0 .. MaxUint
      /\ usable' = length /\ actual' = length
      /\ length <= allowed' * PageSize
      /\ length > 0 => BasedataSize + length <= size
  <2>1. allowed' * PageSize \in Nat
    BY AllowedProduct DEF AllowedFor
  <2>2. length \in 0 .. MaxUint
    BY <1>0 DEF Larger
  <2>3. usable' = length /\ actual' = length
    BY <1>0 DEF Succeed, Larger
  <2>4. length <= allowed' * PageSize
    <3>1. PICK limit \in Nat : limit = allowed' * PageSize
      BY <2>1, Zenon
    <3>2. /\ usable <= limit
          /\ o.kind # "shrink" => o.need <= limit
          /\ o.kind = "shrink" => o.need <= usable
      BY <3>1, Zenon DEF AllowedFor, AllowedKept, Ready
    <3>3. length <= limit
      BY <1>0, <3>2 DEF Larger
    <3>. QED BY <3>1, <3>3, Zenon
  <2>5. length > 0 => BasedataSize + length <= size
    BY <1>0 DEF Fits
  <2>. QED BY <2>2, <2>3, <2>4, <2>5
<1>2. op' = NoOp /\ op' \in OperationType /\ pc' \in Running
  BY <1>0 DEF Succeed, NoOp, Operation, OperationType, NoAccess, Access
<1>3. bytes' \in [Offset -> Content]
  BY ContentType DEF IInv, TypeOK, Succeed, Ready, OperationType
<1>4. /\ regLinMem' \in Base /\ regMemSize' \in Int
      /\ pc' = "wasm" => regLinMem' = data' /\ regMemSize' = usable' - AccessMax
  BY <1>0, <1>1 DEF IInv, TypeOK, Succeed, registers
<1>5. TypeOK'
  BY <1>1, <1>2, <1>3, <1>4 DEF IInv, TypeOK, Succeed, AllowedFor, AllowedKept, requests, Running
<1>6. UsableBacked'
  BY <1>1, <1>2 DEF UsableBacked, InUse, Succeed, AllowedFor, AllowedKept, Running
<1>. QED
  BY <1>1, <1>2, <1>4, <1>5, <1>6
     DEF IInv, OperationOK, LengthOK, Waiting, BaseOK, NewOK, ActualOK, RegistersCurrent,
         MutexOK, Running, requests, Succeed

(***************************************************************************)
(* An operation that fails, or starts to wait, keeps the invariant.        *)
(***************************************************************************)
LEMMA RejectedInv ==
  ASSUME IInv, pc # "sync", NEW o, Entered(o), NEW why, NEW desired \in Nat, AllowedKept,
         Rejected(o, why, desired), UNCHANGED <<maxRam, requests>>
  PROVE  IInv'
<1>. USE SizeAssumption, ValueAssumption DEF Entered
<1>1. /\ op' = NoOp /\ op' \in OperationType
      /\ pc' \in {"dead", "reserved", "idle", "host"} /\ status' \in {0, 1}
  <2>1. status \in {0, 1} /\ Fail(o, why)
    BY DEF IInv, TypeOK, Rejected
  <2>2. NoOp \in OperationType
    BY DEF NoOp, Operation, OperationType, NoAccess, Access
  <2>3. CASE o.kind \in {"init", "segments"}
    BY <2>1, <2>2, <2>3 DEF Fail
  <2>4. CASE o.kind = "access"
    BY <2>1, <2>2, <2>4 DEF Fail, Trap
  <2>5. CASE o.kind \in {"region", "shrink"}
    BY <2>1, <2>2, <2>5 DEF Fail
  <2>. QED BY <2>3, <2>4, <2>5
<1>2. TypeOK'
  BY <1>1 DEF IInv, TypeOK, Rejected, AllowedKept, block, registers, requests
<1>3. UsableBacked'
  BY <1>1 DEF IInv, UsableBacked, InUse, Rejected, AllowedKept, block
<1>. QED
  BY <1>1, <1>2, <1>3
     DEF IInv, OperationOK, LengthOK, Waiting, BaseOK, NewOK, ActualOK, RegistersCurrent,
         MutexOK, requests, Rejected, block

LEMMA ExtendInv ==
  ASSUME IInv, pc # "sync", NEW o, Ready(o), AllowedFor(o),
         o.kind # "shrink" => usable <= o.need,
         Rounded(o.need) <= maxRam, Rounded(o.need) <= MaxUint,
         o.kind = "shrink" => Rounded(o.need) <= size,
         Extend(o), UNCHANGED <<maxRam, requests>>
  PROVE  IInv'
<1>. USE SizeAssumption, ValueAssumption
<1>1. TypeOK'
  BY DEF IInv, TypeOK, Extend, Ready, AllowedFor, AllowedKept, block, basedata, registers, requests
<1>2. UsableBacked'
  BY DEF IInv, UsableBacked, InUse, Extend, AllowedFor, AllowedKept, block, basedata
<1>3. OperationOK' /\ LengthOK'
  BY DEF OperationOK, LengthOK, Waiting, Permitted, Extend, Ready, Entered, AllowedFor, block,
         Rounded
<1>. QED
  BY <1>1, <1>2, <1>3
     DEF IInv, BaseOK, NewOK, ActualOK, RegistersCurrent, MutexOK, requests, Extend, block, basedata,
         Waiting

(***************************************************************************)
(* ensureCapacityForLinearSize and probe, with all their outcomes.         *)
(***************************************************************************)
LEMMA EnsureCapacityInv ==
  ASSUME IInv, pc \notin {"alloc", "sync"}, NEW o, Ready(o), o.kind # "shrink",
         usable <= o.need, AllowedFor(o),
         EnsureCapacity(o), UNCHANGED <<maxRam, requests>>
  PROVE  IInv'
<1>1. /\ o.need \in 0 .. MaxUint /\ usable \in 0 .. MaxUint /\ size \in Nat
      /\ basedataStart = data /\ AllowedKept /\ Entered(o)
  BY SizeAssumption DEF IInv, TypeOK, BaseOK, Ready, OperationType, AllowedFor
<1>2. Rounded(o.need) \in Nat /\ BasedataSize + o.need <= Rounded(o.need)
  BY <1>1, RoundedBounds, SizeAssumption
<1>3. CASE Representable(o.need) /\ size >= Rounded(o.need) /\ UNCHANGED basedataStart /\ Succeed(o)
  <2>1. Fits(o)
    BY <1>1, <1>2, <1>3, SizeAssumption DEF Fits, Larger
  <2>. QED BY <1>1, <1>3, <2>1, SucceedInv
<1>4. CASE /\ Representable(o.need) /\ size < Rounded(o.need) /\ Rounded(o.need) <= maxRam
           /\ Extend(o)
  BY <1>4, ExtendInv DEF Representable
<1>5. CASE Rejected(o, "couldnotextend", Unfulfilled(o.need))
  <2>1. Unfulfilled(o.need) \in Nat
    BY <1>1, <1>2, SizeAssumption DEF Unfulfilled
  <2>. QED BY <1>1, <1>5, <2>1, RejectedInv
<1>. QED BY <1>3, <1>4, <1>5 DEF EnsureCapacity

LEMMA ProbeInv ==
  ASSUME IInv, pc \notin {"alloc", "sync"},
         NEW o \in [kind : Kind, need : Nat, access : Access, from : Place],
         Entered(o), o.kind \notin {"init", "shrink"}, AllowedKept,
         Probe(o), UNCHANGED <<maxRam, requests>>
  PROVE  IInv'
<1>. DEFINE required == [o EXCEPT !.need = @ % (MaxUint + 1)]
<1>1. /\ usable \in 0 .. MaxUint /\ maxDesired \in Nat /\ basedataStart = data
      /\ usable > 0 => BasedataSize + usable <= size
  BY DEF IInv, TypeOK, BaseOK, UsableBacked, InUse
<1>2. CASE Rejected(o, "outofbounds", maxDesired)
  BY <1>1, <1>2, RejectedInv
<1>3. CASE ~(o.need > usable /\ o.need > allowed' * PageSize)
  <2>1. /\ required.need \in 0 .. MaxUint /\ required.need <= o.need
        /\ required.kind = o.kind /\ required.access = o.access /\ required.from = o.from
    BY Wraps
  <2>2. Ready(required)
    BY <2>1 DEF Ready, Entered, OperationType
  <2>3. AllowedFor(required)
    <3>2. PICK limit \in Nat : limit = allowed' * PageSize
      BY AllowedProduct, Zenon
    <3>3. usable <= limit /\ ~(o.need > usable /\ o.need > limit)
      BY <1>3, <3>2, Zenon DEF AllowedKept
    <3>4. required.need <= limit
      BY <1>1, <2>1, <3>3
    <3>. QED BY <3>2, <3>4, Zenon DEF AllowedFor
  <2>4. CASE required.need <= usable /\ UNCHANGED basedataStart /\ Succeed(required)
    <3>1. Fits(required)
      BY <1>1, <2>1, <2>4 DEF Fits, Larger
    <3>. QED BY <1>1, <2>2, <2>3, <2>4, <3>1, SucceedInv
  <2>5. CASE ~(required.need <= usable) /\ EnsureCapacity(required)
    <3>1. usable <= required.need
      BY <1>1, <2>1, <2>5
    <3>. QED BY <2>1, <2>2, <2>3, <2>5, <3>1, EnsureCapacityInv
  <2>. QED BY <1>3, <2>4, <2>5 DEF Probe
<1>. QED BY <1>2, <1>3 DEF Probe

-----------------------------------------------------------------------------
(***************************************************************************)
(* One lemma per action.                                                   *)
(***************************************************************************)
LEMMA AllowedUnchanged ==
  ASSUME IInv, allowed' = allowed
  PROVE  AllowedKept
  BY DEF IInv, TypeOK, UsableBacked, AllowedKept

\* extend hands the manager the formal size, which is never below its limit
LEMMA AllowedIsFormal ==
  ASSUME IInv, allowed' = linMemWasmSize
  PROVE  AllowedKept
<1>1. /\ usable \in Nat /\ linMemWasmSize \in 0 .. PageLimit /\ allowed \in Nat
      /\ usable <= allowed * PageSize /\ allowed <= linMemWasmSize
  BY SizeAssumption DEF IInv, TypeOK, UsableBacked
<1>2. linMemWasmSize \in Nat /\ PageSize \in Nat
  BY <1>1, SizeAssumption
<1>3. PICK now \in Nat : now = allowed * PageSize
  BY <1>1, <1>2, ProductType, Zenon
<1>4. PICK next \in Nat : next = linMemWasmSize * PageSize
  BY <1>1, <1>2, ProductType, Zenon
<1>5. now <= next
  BY <1>1, <1>2, <1>3, <1>4, ProductMonotone, Zenon
<1>6. usable <= next
  <2>1. usable <= now
    BY <1>1, <1>3, Zenon
  <2>. QED BY <1>1, <1>5, <2>1
<1>7. usable <= allowed' * PageSize
  BY <1>4, <1>6, Zenon
<1>8. allowed' \in 0 .. PageLimit /\ allowed' <= linMemWasmSize
  BY <1>1, <1>2
<1>. QED BY <1>7, <1>8, Zenon DEF AllowedKept

LEMMA ConstructInv ==
  ASSUME IInv, Construct, UNCHANGED <<maxRam, requests>>
  PROVE  IInv'
<1>. DEFINE o == Operation("init", 0, NoAccess, "reserved")
<1>1. /\ pc = "new" /\ usable = 0 /\ EnsureCapacity(o)
      /\ allowed' = InitialPages /\ linMemWasmSize = InitialPages
      /\ InitialPages \in 0 .. PageLimit
  BY SizeAssumption DEF Construct, IInv, NewOK
<1>2. Ready(o) /\ o.kind # "shrink" /\ o.need = 0
  BY SizeAssumption, ValueAssumption DEF Ready, Entered, OperationType, Operation, NoAccess, Access
<1>3. 0 <= allowed' * PageSize
  BY <1>1, ProductType, SizeAssumption
<1>4. AllowedFor(o)
  BY <1>1, <1>2, <1>3, SizeAssumption DEF AllowedFor, AllowedKept
<1>. QED BY <1>1, <1>2, <1>4, EnsureCapacityInv

LEMMA LoadSegmentsInv ==
  ASSUME IInv, LoadSegments, UNCHANGED <<maxRam, requests>>
  PROVE  IInv'
<1>1. PICK a \in DataSegments :
        LET o == Operation("segments", a.at + a.width, a, "idle")
        IN  IF o.need = 0 THEN UNCHANGED basedataStart /\ Succeed(o) ELSE Probe(o)
  BY DEF LoadSegments
<1>. DEFINE o == Operation("segments", a.at + a.width, a, "idle")
<1>2. /\ a \in Access /\ a.at + a.width \in 0 .. MaxUint
      /\ o \in OperationType /\ o \in [kind : Kind, need : Nat, access : Access, from : Place]
      /\ Entered(o) /\ o.kind = "segments" /\ o.need = a.at + a.width
  BY SizeAssumption, InputAssumption DEF Operation, OperationType, Entered, Access
<1>3. pc = "reserved" /\ AllowedKept
  BY AllowedUnchanged DEF LoadSegments
<1>4. CASE o.need = 0
  <2>1. /\ usable \in 0 .. MaxUint /\ basedataStart = data
        /\ usable > 0 => BasedataSize + usable <= size
    BY <1>3 DEF IInv, TypeOK, BaseOK, UsableBacked, InUse
  <2>2. Fits(o) /\ Ready(o)
    BY <1>2, <1>4, <2>1 DEF Fits, Larger, Ready
  <2>3. AllowedFor(o)
    <3>1. 0 <= allowed' * PageSize
      BY <1>3, AllowedProduct
    <3>. QED BY <1>3, <1>4, <3>1 DEF AllowedFor
  <2>. QED BY <1>1, <1>4, <2>1, <2>2, <2>3, SucceedInv
<1>5. CASE o.need # 0
  BY <1>1, <1>2, <1>3, <1>5, ProbeInv
<1>. QED BY <1>4, <1>5

LEMMA ReallocateInv ==
  ASSUME IInv, Reallocate, UNCHANGED <<maxRam, requests>>
  PROVE  IInv'
<1>. USE SizeAssumption, ValueAssumption
<1>1. /\ pc = "alloc" /\ op \in OperationType /\ op.need \in 0 .. MaxUint /\ maxRam \in Nat
      /\ usable \in 0 .. MaxUint /\ size \in Nat
      /\ Entered(op) /\ Permitted(op)
      /\ Rounded(op.need) <= maxRam /\ Rounded(op.need) <= MaxUint
      /\ op.kind = "shrink" => Rounded(op.need) <= size
  BY DEF Reallocate, IInv, TypeOK, OperationOK, LengthOK, Waiting, OperationType
<1>2. Rounded(op.need) \in Nat /\ BasedataSize + op.need <= Rounded(op.need)
  BY <1>1, RoundedBounds
<1>3. ASSUME NEW length \in {Proposed(Rounded(op.need)), Rounded(op.need)}, NEW address \in Address,
             data' = address, size' = length,
             bytes' = [o \in Offset |-> IF BasedataSize + o < Smaller(size, length)
                                        THEN bytes[o] ELSE Junk],
             pc' = "sync", UNCHANGED <<manager, basedata, registers, op, answer>>
      PROVE  IInv'
  <2>1. length \in 0 .. MaxUint /\ Rounded(op.need) <= length
    BY <1>1, <1>2, ProposedBounds
  <2>2. bytes' \in [Offset -> Content]
    BY <1>3 DEF IInv, TypeOK
  <2>3. TypeOK'
    BY <1>3, <2>1, <2>2 DEF IInv, TypeOK, manager, basedata, registers, requests
  <2>4. PICK used \in Nat : used = InUse' /\ used <= op.need
    BY <1>1, <1>3 DEF InUse, Permitted, manager
  <2>5. UsableBacked'
    <3>1. InUse' > 0 => BasedataSize + InUse' <= size'
      <4>1. BasedataSize + used <= length
        <5>1. BasedataSize + used <= BasedataSize + op.need
          BY <1>1, <2>4
        <5>2. BasedataSize + op.need <= length
          BY <1>1, <1>2, <2>1
        <5>. QED BY <1>1, <2>1, <5>1, <5>2
      <4>. QED BY <1>3, <2>4, <4>1, Zenon
    <3>2. usable' <= allowed' * PageSize /\ allowed' <= linMemWasmSize'
      BY <1>3 DEF IInv, UsableBacked, manager, basedata
    <3>. QED BY <3>1, <3>2 DEF UsableBacked
  <2>6. OperationOK' /\ LengthOK'
    BY <1>1, <1>3, <2>1 DEF OperationOK, LengthOK, Waiting, Permitted, Entered, Rounded, manager
  <2>. QED
    BY <1>3, <2>3, <2>5, <2>6
       DEF IInv, BaseOK, NewOK, ActualOK, RegistersCurrent, MutexOK, manager, basedata, requests
<1>4. ASSUME op.kind = "shrink", pc' = "sync",
             UNCHANGED <<block, manager, basedata, registers, op, answer>>
      PROVE  IInv'
  <2>1. TypeOK'
    BY <1>4 DEF IInv, TypeOK, block, manager, basedata, registers, requests
  <2>2. UsableBacked'
    BY <1>1, <1>2, <1>4 DEF IInv, UsableBacked, InUse, block, manager, basedata
  <2>3. OperationOK' /\ LengthOK'
    BY <1>1, <1>4 DEF OperationOK, LengthOK, Waiting, Permitted, Entered, Rounded, manager, block
  <2>. QED
    BY <1>4, <2>1, <2>2, <2>3
       DEF IInv, BaseOK, NewOK, ActualOK, RegistersCurrent, MutexOK, manager, basedata, requests
<1>5. ASSUME Rejected(op, "couldnotextend", Rounded(op.need)), UNCHANGED allowed
      PROVE  IInv'
  BY <1>1, <1>2, <1>5, AllowedUnchanged, RejectedInv
<1>. QED BY <1>3, <1>4, <1>5 DEF Reallocate

LEMMA SynchronizeInv ==
  ASSUME IInv, Synchronize, UNCHANGED <<maxRam, requests>>
  PROVE  IInv'
<1>1. /\ pc = "sync" /\ op \in OperationType /\ op.need \in 0 .. MaxUint
      /\ usable \in 0 .. MaxUint /\ size \in Nat
      /\ Entered(op) /\ Permitted(op) /\ Rounded(op.need) <= size
  BY SizeAssumption DEF Synchronize, IInv, TypeOK, OperationOK, LengthOK, Waiting, OperationType
<1>2. Rounded(op.need) \in Nat /\ BasedataSize + op.need <= Rounded(op.need)
  BY <1>1, RoundedBounds
<1>3. Ready(op) /\ Fits(op)
  BY <1>1, <1>2, SizeAssumption DEF Ready, Fits, Permitted, Larger
<1>4. allowed' = allowed /\ basedataStart' = data /\ Succeed(op)
  BY DEF Synchronize
<1>5. AllowedFor(op)
  BY <1>1, <1>4, AllowedUnchanged, Zenon DEF AllowedFor, Permitted
<1>. QED BY <1>3, <1>4, <1>5, SucceedInv

LEMMA CallInv ==
  ASSUME IInv, Call \/ ReturnFromImport, UNCHANGED <<maxRam, requests>>
  PROVE  IInv'
<1>. USE SizeAssumption, ValueAssumption
<1>1. /\ pc \in {"idle", "host"} /\ pc' \in {"idle", "wasm"} /\ op' = NoOp /\ op' \in OperationType
      /\ status' \in {0, 1} /\ regLinMem' = data
      /\ pc' = "wasm" => regMemSize' = usable - AccessMax
      /\ regMemSize' \in Int
      /\ UNCHANGED <<block, manager, linMemWasmSize, actual>>
  BY DEF Call, ReturnFromImport, Trap, IInv, TypeOK, BaseOK, ActualOK, OperationOK, Waiting,
         NoOp, Operation, OperationType, NoAccess, Access
<1>2. TypeOK'
  BY <1>1 DEF IInv, TypeOK, block, manager, requests
<1>. QED
  BY <1>1, <1>2
     DEF IInv, OperationOK, LengthOK, Waiting, BaseOK, NewOK, ActualOK, UsableBacked, InUse,
         RegistersCurrent, MutexOK, block, manager, requests

\* the steps that only move the thread
LEMMA LeaveInv ==
  ASSUME IInv, Return \/ Interrupt \/ CallImport, UNCHANGED <<maxRam, requests>>
  PROVE  IInv'
<1>. USE SizeAssumption, ValueAssumption
<1>1. /\ pc = "wasm" /\ pc' \in {"idle", "host"} /\ op' = NoOp /\ op' \in OperationType
      /\ status' \in {0, 1}
      /\ UNCHANGED <<block, manager, linMemWasmSize, actual, registers>>
  BY DEF Return, Interrupt, CallImport, Trap, IInv, TypeOK, OperationOK, Waiting, basedata,
         NoOp, Operation, OperationType, NoAccess, Access
<1>2. TypeOK'
  BY <1>1 DEF IInv, TypeOK, block, manager, registers, requests
<1>. QED
  BY <1>1, <1>2
     DEF IInv, OperationOK, LengthOK, Waiting, BaseOK, NewOK, ActualOK, UsableBacked, InUse,
         RegistersCurrent, MutexOK, block, manager, requests

LEMMA AccessDirectlyInv ==
  ASSUME IInv, NEW a \in WasmAccesses, AccessDirectly(a), UNCHANGED <<maxRam, requests>>
  PROVE  IInv'
<1>1. bytes' \in [Offset -> Content]
  <2>1. a \in Access /\ bytes \in [Offset -> Content]
    BY InputAssumption DEF IInv, TypeOK
  <2>2. Written(bytes, a) \in [Offset -> Content]
    BY <2>1 DEF Written, Access
  <2>. QED BY <2>1, <2>2 DEF AccessDirectly
<1>2. TypeOK'
  BY <1>1 DEF IInv, TypeOK, AccessDirectly, manager, basedata, registers, requests
<1>. QED
  BY <1>2
     DEF IInv, OperationOK, LengthOK, Waiting, Permitted, BaseOK, NewOK, ActualOK, UsableBacked,
         InUse, RegistersCurrent, MutexOK, AccessDirectly, manager, basedata, registers, requests

LEMMA RequestExtensionInv ==
  ASSUME IInv, NEW a \in WasmAccesses, RequestExtension(a), UNCHANGED <<maxRam, requests>>
  PROVE  IInv'
<1>. DEFINE o == Operation("access", a.at + a.width, a, "wasm")
<1>1. /\ o \in [kind : Kind, need : Nat, access : Access, from : Place]
      /\ Entered(o) /\ o.kind = "access"
  BY InputAssumption DEF Operation, Entered, Access
<1>2. pc = "wasm" /\ maxDesired \in Nat
  BY DEF RequestExtension, IInv, TypeOK
<1>3. CASE Rejected(o, "couldnotextend", maxDesired) /\ UNCHANGED allowed
  BY <1>1, <1>2, <1>3, AllowedUnchanged, RejectedInv
<1>4. CASE allowed' = linMemWasmSize /\ Probe(o)
  BY <1>1, <1>2, <1>4, AllowedIsFormal, ProbeInv
<1>. QED BY <1>3, <1>4 DEF RequestExtension

LEMMA MemoryGrowInv ==
  ASSUME IInv, NEW delta \in GrowDeltas, MemoryGrow(delta), UNCHANGED <<maxRam, requests>>
  PROVE  IInv'
<1>. USE SizeAssumption, InputAssumption
<1>1. linMemWasmSize \in 0 .. PageLimit /\ allowed \in 0 .. PageLimit /\ allowed <= linMemWasmSize
  BY DEF IInv, TypeOK, UsableBacked
<1>2. linMemWasmSize' \in 0 .. PageLimit /\ allowed' <= linMemWasmSize'
  <2>1. delta \in Nat /\ linMemWasmSize + delta \in Nat
    BY <1>1
  <2>2. linMemWasmSize + delta <= MaxUint =>
          (linMemWasmSize + delta) % (MaxUint + 1) = linMemWasmSize + delta
    BY <2>1, Wraps
  <2>. QED BY <1>1, <2>1, <2>2 DEF MemoryGrow, manager
<1>3. TypeOK'
  BY <1>2 DEF IInv, TypeOK, MemoryGrow, block, manager, registers, requests
<1>4. UsableBacked'
  <2>1. usable' <= allowed' * PageSize
    BY DEF IInv, UsableBacked, MemoryGrow, manager
  <2>2. InUse' = InUse /\ size' = size
    BY DEF InUse, MemoryGrow, block, manager
  <2>. QED BY <1>2, <2>1, <2>2 DEF IInv, UsableBacked
<1>. QED
  BY <1>3, <1>4
     DEF IInv, OperationOK, LengthOK, Waiting, BaseOK, NewOK, ActualOK, RegistersCurrent, MutexOK,
         MemoryGrow, block, manager, registers, requests

LEMMA RegionInv ==
  ASSUME IInv, NEW a \in HostRegions, Region(a), UNCHANGED <<maxRam, requests>>
  PROVE  IInv'
<1>. DEFINE last == (a.at + a.width - 1) % (MaxUint + 1)
            o == Operation("region", last + 1, a, pc)
<1>1. /\ pc \in {"idle", "host"} /\ a \in Access /\ a.width >= 1
      /\ allowed' = linMemWasmSize /\ Probe(o)
  BY InputAssumption DEF Region
<1>2. last \in Nat
  <2>1. a.at + a.width - 1 \in Nat
    BY <1>1 DEF Access
  <2>. QED BY <2>1, Wraps
<1>3. o \in [kind : Kind, need : Nat, access : Access, from : Place]
  BY <1>1, <1>2 DEF Operation
<1>4. Entered(o) /\ o.kind = "region"
  BY <1>1 DEF Entered, Operation
<1>. QED BY <1>1, <1>3, <1>4, AllowedIsFormal, ProbeInv

LEMMA ShrinkInv ==
  ASSUME IInv, NEW length \in Nat, ShrinkToSize(length), UNCHANGED <<maxRam, requests>>
  PROVE  IInv'
<1>. DEFINE o == Operation("shrink", length, NoAccess, pc)
<1>1. /\ pc \in {"idle", "host"} /\ UNCHANGED allowed /\ maxDesired \in Nat /\ size \in Nat
      /\ usable \in 0 .. MaxUint /\ basedataStart = data
      /\ o.kind = "shrink" /\ o.need = length /\ Entered(o)
      /\ usable > 0 => BasedataSize + usable <= size
  BY SizeAssumption
     DEF ShrinkToSize, IInv, TypeOK, BaseOK, UsableBacked, InUse, Operation, Entered
<1>2. CASE Rejected(o, "refused", maxDesired)
  BY <1>1, <1>2, AllowedUnchanged, RejectedInv
<1>3. CASE length <= usable /\ Representable(length)
  <2>1. Ready(o) /\ AllowedFor(o)
    <3>1. o \in OperationType
      BY <1>1, <1>3, SizeAssumption, ValueAssumption DEF Operation, OperationType, NoAccess, Access
    <3>. QED BY <1>1, <1>3, <3>1, AllowedUnchanged DEF Ready, AllowedFor
  <2>2. CASE Rounded(length) < size /\ Rounded(length) <= maxRam /\ Extend(o)
    <3>1. Rounded(length) \in Nat /\ Rounded(length) <= size
      BY <1>1, <2>2, RoundedBounds
    <3>. QED BY <1>1, <1>3, <2>1, <2>2, <3>1, ExtendInv DEF Representable
  <2>3. CASE UNCHANGED basedataStart /\ Succeed(o)
    <3>1. Fits(o)
      BY <1>1, <1>3, SizeAssumption DEF Fits
    <3>. QED BY <1>1, <2>1, <2>3, <3>1, SucceedInv
  <2>. QED BY <1>2, <1>3, <2>2, <2>3 DEF ShrinkToSize
<1>4. length <= usable \/ length > usable
  BY <1>1
<1>. QED BY <1>2, <1>3, <1>4 DEF ShrinkToSize

LEMMA SetMaxRamInv ==
  ASSUME IInv, NEW limit \in RamLimits, SetMaxRam(limit)
  PROVE  IInv'
<1>1. TypeOK'
  BY DEF IInv, TypeOK, SetMaxRam, block, manager, basedata, registers, control, requests
<1>. QED
  BY <1>1
     DEF IInv, OperationOK, LengthOK, Waiting, BaseOK, NewOK, ActualOK, UsableBacked, InUse,
         RegistersCurrent, MutexOK, SetMaxRam, block, manager, basedata, registers, control, requests

LEMMA RequestInv ==
  ASSUME IInv, NEW t \in Interrupter, RequestStep(t)
  PROVE  IInv'
<1>. USE ValueAssumption
<1>1. TypeOK'
  BY DEF IInv, TypeOK, RequestStep, LockMutex, WriteFlag, block, manager, basedata, registers, control
<1>2. MutexOK'
  BY DEF IInv, TypeOK, MutexOK, RequestStep, LockMutex, WriteFlag, MutexFree
<1>. QED
  BY <1>1, <1>2
     DEF IInv, OperationOK, LengthOK, Waiting, Permitted, Entered, BaseOK, NewOK, ActualOK,
         UsableBacked, InUse, RegistersCurrent, RequestStep, LockMutex, WriteFlag,
         block, manager, basedata, registers, control

-----------------------------------------------------------------------------
LEMMA StutterInv == ASSUME IInv, UNCHANGED vars PROVE IInv'
<1>1. TypeOK'
  BY DEF IInv, TypeOK, vars, block, manager, basedata, registers, control, requests
<1>. QED
  BY <1>1
     DEF IInv, OperationOK, LengthOK, Waiting, Permitted, Entered, BaseOK, NewOK, ActualOK,
         UsableBacked, InUse, RegistersCurrent, MutexOK, vars, block, manager, basedata, registers,
         control, requests

(***************************************************************************)
(* Every step keeps the inductive invariant.                               *)
(***************************************************************************)
LEMMA StepInv == IInv /\ [Next]_vars => IInv'
<1>. SUFFICES ASSUME IInv, [Next]_vars PROVE IInv'
  OBVIOUS
<1>1. CASE Setup
  BY <1>1, ConstructInv, LoadSegmentsInv DEF Setup
<1>2. CASE Callback
  BY <1>2, ReallocateInv, SynchronizeInv DEF Callback
<1>3. CASE LoopHeader
  BY <1>3, LeaveInv DEF LoopHeader
<1>4. CASE ImportReturns
  BY <1>4, CallInv DEF ImportReturns
<1>5. CASE WasmStep
  BY <1>5, CallInv, LeaveInv, AccessDirectlyInv, RequestExtensionInv, MemoryGrowInv DEF WasmStep
<1>6. CASE HostStep
  <2>1. ShrinkLengths \subseteq Nat /\ usable + BasedataSize \in Nat
    BY SizeAssumption, InputAssumption DEF IInv, TypeOK
  <2>. QED BY <1>6, <2>1, RegionInv, ShrinkInv DEF HostStep, ShrinkToActiveSize
<1>7. CASE Limit
  BY <1>7, SetMaxRamInv DEF Limit
<1>8. CASE \E t \in Interrupter : RequestStep(t)
  BY <1>8, RequestInv
<1>9. CASE UNCHANGED vars
  BY <1>9, StutterInv
<1>. QED BY <1>1, <1>2, <1>3, <1>4, <1>5, <1>6, <1>7, <1>8, <1>9 DEF Next

THEOREM Inductive == Spec => []IInv
BY InitInv, StepInv, PTL DEF Spec

(***************************************************************************)
(* Every reachable state is well typed; memory.grow never leaves the page  *)
(* limit, and no size leaves 32 bits.                                      *)
(***************************************************************************)
THEOREM TypeCorrect == Spec => []TypeOK
<1>1. IInv => TypeOK
  BY DEF IInv
<1>. QED BY <1>1, Inductive, PTL

(***************************************************************************)
(* Compiled code never runs with the base or the size from before a        *)
(* reallocation, whichever of the code's paths moved the block.            *)
(***************************************************************************)
THEOREM RegistersNeverStale == Spec => []RegistersCurrent
<1>1. IInv => RegistersCurrent
  BY DEF IInv
<1>. QED BY <1>1, Inductive, PTL

(***************************************************************************)
(* What the managers call usable is inside the block and inside the        *)
(* formal size.                                                            *)
(***************************************************************************)
THEOREM UsableIsBacked == Spec => []UsableBacked
<1>1. IInv => UsableBacked
  BY DEF IInv
<1>. QED BY <1>1, Inductive, PTL

(***************************************************************************)
(* Only the reallocation callback moves or resizes the block.              *)
(***************************************************************************)
LEMMA OutcomeKeepsBlock ==
  ASSUME NEW o, NEW why, NEW desired, Succeed(o) \/ Extend(o) \/ Rejected(o, why, desired)
  PROVE  UNCHANGED <<data, size>>
  BY DEF Succeed, Extend, Rejected, block

LEMMA CapacityKeepsBlock ==
  ASSUME NEW o, EnsureCapacity(o)
  PROVE  UNCHANGED <<data, size>>
  BY OutcomeKeepsBlock, Zenon DEF EnsureCapacity

LEMMA ProbeKeepsBlock ==
  ASSUME NEW o, Probe(o)
  PROVE  UNCHANGED <<data, size>>
  BY OutcomeKeepsBlock, CapacityKeepsBlock, Zenon DEF Probe

LEMMA BlockSteps ==
  ASSUME [Next]_vars
  PROVE  UNCHANGED <<data, size>> \/ Reallocate
<1>1. CASE Setup
  <2>1. CASE Construct
    BY <2>1, CapacityKeepsBlock, Zenon DEF Construct
  <2>2. CASE LoadSegments
    BY <2>2, ProbeKeepsBlock, OutcomeKeepsBlock, Zenon DEF LoadSegments
  <2>. QED BY <1>1, <2>1, <2>2 DEF Setup
<1>2. CASE Callback
  BY <1>2 DEF Callback, Synchronize, Succeed
<1>3. CASE LoopHeader \/ ImportReturns
  BY <1>3 DEF LoopHeader, ImportReturns, Interrupt, ReturnFromImport, block
<1>4. CASE WasmStep
  <2>1. CASE \E a \in WasmAccesses : RequestExtension(a)
    BY <2>1, ProbeKeepsBlock, OutcomeKeepsBlock, Zenon DEF RequestExtension
  <2>2. CASE \/ Call \/ Return \/ CallImport
             \/ \E a \in WasmAccesses : AccessDirectly(a)
             \/ \E delta \in GrowDeltas : MemoryGrow(delta)
    BY <2>2 DEF Call, Return, CallImport, AccessDirectly, MemoryGrow, block
  <2>. QED BY <1>4, <2>1, <2>2 DEF WasmStep
<1>5. CASE HostStep
  <2>1. \A length : ShrinkToSize(length) => UNCHANGED <<data, size>>
    BY OutcomeKeepsBlock, Zenon DEF ShrinkToSize
  <2>2. CASE \E a \in HostRegions : Region(a)
    BY <2>2, ProbeKeepsBlock, Zenon DEF Region
  <2>. QED BY <1>5, <2>1, <2>2, Zenon DEF HostStep, ShrinkToActiveSize
<1>6. CASE Limit \/ \E t \in Interrupter : RequestStep(t)
  BY <1>6 DEF Limit, SetMaxRam, RequestStep, LockMutex, WriteFlag, block
<1>7. CASE UNCHANGED vars
  BY <1>7 DEF vars, block
<1>. QED BY <1>1, <1>2, <1>3, <1>4, <1>5, <1>6, <1>7 DEF Next

(***************************************************************************)
(* A reallocation never takes more memory than the limit in force allows:  *)
(* neither the proposed length nor the minimum it falls back to.           *)
(***************************************************************************)
THEOREM GrowthIsLimited == Spec => GrowthWithinMaxRam
<1>1. IInv /\ [Next]_vars => [size' > size => size' <= maxRam]_vars
  <2>. SUFFICES ASSUME IInv, [Next]_vars, size' > size PROVE size' <= maxRam
    OBVIOUS
  <2>1. Reallocate
    <3>1. size \in Nat
      BY SizeAssumption DEF IInv, TypeOK
    <3>. QED BY <3>1, BlockSteps
  <2>2. /\ maxRam \in Nat /\ op.need \in Nat /\ size \in Nat
        /\ Rounded(op.need) <= maxRam /\ Rounded(op.need) <= MaxUint
    BY <2>1, SizeAssumption DEF Reallocate, IInv, TypeOK, LengthOK, Waiting, OperationType
  <2>3. Proposed(Rounded(op.need)) <= maxRam
    BY <2>2, RoundedBounds, ProposedBounds
  <2>4. \/ size' \in {Proposed(Rounded(op.need)), Rounded(op.need)}
        \/ size' = size
    BY <2>1 DEF Reallocate, Rejected, block
  <2>. QED BY <2>2, <2>3, <2>4
<1>. QED BY <1>1, Inductive, PTL DEF Spec, GrowthWithinMaxRam

(***************************************************************************)
(* linearMemoryMutex_ keeps the block in place while a thread that has     *)
(* addressed it writes the interruption flag.                              *)
(***************************************************************************)
THEOREM MutexKeepsBlock == Spec => RequestNotOvertaken
<1>. DEFINE Kept == \A t \in Interrupter :
              (ipc[t] = "locked" /\ iptr[t] = data /\ ipc'[t] = "locked") => iptr[t] = data'
<1>1. IInv /\ [Next]_vars => [Kept]_vars
  <2>. SUFFICES ASSUME IInv, [Next]_vars, NEW t \in Interrupter,
                       ipc[t] = "locked", iptr[t] = data
                PROVE  iptr[t] = data'
    OBVIOUS
  <2>1. mutex # NoThread
    BY ValueAssumption DEF IInv, MutexOK
  <2>2. data' = data
    BY <2>1, BlockSteps DEF Reallocate, MutexFree
  <2>. QED BY <2>2
<1>. QED BY <1>1, Inductive, PTL DEF Spec, RequestNotOvertaken

-----------------------------------------------------------------------------
(***************************************************************************)
(* The refinement of the abstract linear memory.  Mem is what the program  *)
(* sees of the block: the bytes in use, and 0 behind them.                 *)
(***************************************************************************)
Mem == [o \in Offset |-> IF o < InUse THEN bytes[o] ELSE 0]

AbstractStep == LM!LMNext \/ UNCHANGED <<linMemWasmSize, Mem, answer>>

Formal == linMemWasmSize * PageSize

LEMMA FormalFacts ==
  ASSUME IInv
  PROVE  /\ Formal \in Nat /\ Formal <= MaxUint + 1
         /\ allowed * PageSize \in Nat /\ allowed * PageSize <= Formal
         /\ usable \in 0 .. MaxUint /\ usable <= Formal
         /\ InUse \in 0 .. MaxUint /\ InUse <= usable
<1>1. /\ linMemWasmSize \in Nat /\ allowed \in Nat /\ PageSize \in Nat /\ PageLimit \in Nat
      /\ linMemWasmSize <= PageLimit /\ allowed <= linMemWasmSize
      /\ usable \in 0 .. MaxUint
  BY SizeAssumption DEF IInv, TypeOK, UsableBacked
<1>2. PICK now \in Nat : now = allowed * PageSize
  BY <1>1, ProductType, Zenon
<1>3. PICK formal \in Nat : formal = linMemWasmSize * PageSize
  BY <1>1, ProductType, Zenon
<1>4. PICK most \in Nat : most = PageLimit * PageSize
  BY <1>1, ProductType, Zenon
<1>5. now <= formal /\ formal <= most
  BY <1>1, <1>2, <1>3, <1>4, ProductMonotone, Zenon
<1>6. most <= MaxUint + 1 /\ usable <= now
  BY <1>2, <1>4, SizeAssumption, Zenon DEF IInv, UsableBacked
<1>7. MaxUint \in Nat
  BY SizeAssumption
<1>8. /\ formal <= MaxUint + 1 /\ usable <= formal
  BY <1>1, <1>5, <1>6, <1>7
<1>9. InUse \in 0 .. MaxUint /\ InUse <= usable
  BY <1>1 DEF InUse, IInv, TypeOK, OperationType, OperationOK, LengthOK, Permitted, Waiting
<1>. QED BY <1>1, <1>2, <1>3, <1>5, <1>8, <1>9, Zenon DEF Formal

LEMMA SameMem ==
  ASSUME InUse' = InUse, bytes' = bytes
  PROVE  Mem' = Mem
  BY DEF Mem

LEMMA RefineSaid ==
  ASSUME IInv, Mem' = Mem, UNCHANGED linMemWasmSize,
         answer' \in {Said("none"), Said("refused"), Said("interrupted"),
                      Said("couldnotextend"), Said("outofbounds")}
  PROVE  AbstractStep
<1>1. CASE answer' \in {Said("none"), Said("refused"), Said("interrupted")}
  BY <1>1 DEF AbstractStep, Mem, LM!LMNext, LM!Refuse, LM!Said, Said
<1>2. CASE answer' = Said("couldnotextend")
  BY <1>2 DEF AbstractStep, Mem, LM!LMNext, LM!OutOfMemory, LM!Said, Said
<1>3. CASE answer' = Said("outofbounds")
  <2>1. PICK far \in 0 .. MaxUint + 1 : far = MaxUint + 1
    BY SizeAssumption
  <2>2. ~LM!WithinPages(far, far)
    <3>1. PICK formal \in Nat : formal = Formal /\ formal <= MaxUint + 1
      BY FormalFacts
    <3>2. ~(far + far <= formal)
      BY <2>1, <3>1, SizeAssumption
    <3>. QED BY <3>1, <3>2, Zenon DEF LM!WithinPages, Formal
  <2>3. LM!OutOfBounds(far, far)
    BY <1>3, <2>2 DEF Mem, LM!OutOfBounds, LM!Said, Said
  <2>. QED BY <2>1, <2>3 DEF AbstractStep, LM!LMNext
<1>. QED BY <1>1, <1>2, <1>3

\* an access that finds in content what the program sees, and zeroes behind it
LEMMA RefineAccess ==
  ASSUME IInv, NEW a \in Access, UNCHANGED linMemWasmSize, a.at + a.width <= Formal,
         NEW used \in 0 .. MaxUint, InUse' = used, InUse <= used, a.at + a.width <= used,
         NEW content \in [Offset -> Content],
         \A o \in Offset : o < used => content[o] = Mem[o],
         bytes' = Written(content, a), answer' = AccessAnswer(content, a)
  PROVE  AbstractStep
<1>1. /\ a.at \in Nat /\ a.width \in Nat /\ a.byte \in Byte \union {Nothing}
      /\ MaxUint \in Nat /\ InUse \in 0 .. MaxUint
  BY FormalFacts, SizeAssumption DEF Access
<1>2. PICK end \in Nat : end = a.at + a.width /\ end <= used
  BY <1>1
<1>3. a.at \in 0 .. MaxUint + 1 /\ a.width \in 0 .. MaxUint + 1
  BY <1>1, <1>2
<1>4. LM!WithinPages(a.at, a.width)
  BY DEF LM!WithinPages, Formal
<1>5. LM!Covers(a.at, a.width) = Covers(a.at, a.width)
  BY DEF LM!Covers, Covers
<1>6. \A o \in Covers(a.at, a.width) : o \in Offset /\ o < used
  BY <1>1, <1>2 DEF Covers, Offset
<1>7. \A o \in Offset : o >= used => Mem[o] = 0
  <2>. SUFFICES ASSUME NEW o \in Offset, o >= used PROVE Mem[o] = 0
    OBVIOUS
  <2>1. ~(o < InUse)
    BY <1>1 DEF Offset
  <2>. QED BY <2>1 DEF Mem
<1>8. Mem' = [o \in Offset |-> IF o < used THEN Written(content, a)[o] ELSE 0]
  BY DEF Mem
<1>9. CASE a.byte = Nothing
  <2>1. Written(content, a) = content
    BY <1>9 DEF Written
  <2>2. \A o \in Offset : ~(o < used) => o >= used
    BY <1>1 DEF Offset
  <2>3. Mem' = Mem
    <3>1. \A o \in Offset : (IF o < used THEN content[o] ELSE 0) = Mem[o]
      BY <1>7, <2>2, Zenon
    <3>2. Mem = [o \in Offset |-> Mem[o]]
      BY DEF Mem
    <3>. QED BY <1>8, <2>1, <3>1, <3>2
  <2>4. answer' = Accessed("loaded", [o \in Covers(a.at, a.width) |-> Mem[o]])
    <3>1. answer' = Accessed("loaded", [o \in Covers(a.at, a.width) |->
                                          IF o \in Offset THEN content[o] ELSE Junk])
      BY <1>9 DEF AccessAnswer
    <3>2. [o \in Covers(a.at, a.width) |-> IF o \in Offset THEN content[o] ELSE Junk]
            = [o \in Covers(a.at, a.width) |-> Mem[o]]
      BY <1>6
    <3>. QED BY <3>1, <3>2, Zenon
  <2>5. LM!Load(a.at, a.width)
    BY <1>4, <1>5, <1>6, <2>3, <2>4 DEF LM!Load, LM!Accessed, Accessed, Mem
  <2>. QED BY <1>3, <2>5 DEF AbstractStep, LM!LMNext
<1>10. CASE a.byte \in Byte
  <2>1. a.byte # Nothing
    BY <1>10, ValueAssumption
  <2>2. \A o \in Offset : ~(o < used) => o >= used
    BY <1>1 DEF Offset
  <2>3. Mem' = [o \in Offset |-> IF o \in Covers(a.at, a.width) THEN a.byte ELSE Mem[o]]
    <3>1. \A o \in Offset : Written(content, a)[o] = IF o \in Covers(a.at, a.width) THEN a.byte ELSE content[o]
      BY <2>1 DEF Written
    <3>2. \A o \in Offset : (IF o < used THEN Written(content, a)[o] ELSE 0)
                              = IF o \in Covers(a.at, a.width) THEN a.byte ELSE Mem[o]
      BY <1>6, <1>7, <2>2, <3>1, Zenon
    <3>. QED BY <1>8, <3>2
  <2>4. answer' = Accessed("stored", [o \in Covers(a.at, a.width) |-> a.byte])
    BY <2>1 DEF AccessAnswer
  <2>5. LM!Store(a.at, a.width, a.byte)
    BY <1>4, <1>5, <1>6, <2>3, <2>4 DEF LM!Store, LM!Accessed, Accessed, Mem
  <2>. QED BY <1>3, <1>10, <2>5 DEF AbstractStep, LM!LMNext
<1>. QED BY <1>1, <1>9, <1>10

LEMMA RefineGrow ==
  ASSUME IInv, NEW delta \in GrowDeltas, MemoryGrow(delta)
  PROVE  AbstractStep
<1>1. Mem' = Mem
  BY SameMem DEF MemoryGrow, InUse, block, manager
<1>2. PICK pages \in 0 .. PageLimit : pages = linMemWasmSize
  BY DEF IInv, TypeOK
<1>3. /\ delta \in 0 .. MaxUint /\ MaxUint \in Nat /\ PageLimit \in Nat /\ PageLimit <= MaxUint
      /\ pages + delta \in Nat
  BY <1>2, SizeAssumption, InputAssumption
<1>4. pages + delta <= MaxUint => (pages + delta) % (MaxUint + 1) = pages + delta
  BY <1>3, Wraps
<1>5. CASE pages + delta <= PageLimit
  <2>1. pages + delta <= MaxUint
    BY <1>3, <1>5
  <2>2. answer' = Grown(linMemWasmSize) /\ linMemWasmSize' = linMemWasmSize + delta
    BY <1>2, <1>3, <1>4, <1>5, <2>1 DEF MemoryGrow
  <2>3. LM!Grow(delta)
    BY <1>1, <1>2, <1>5, <2>2 DEF LM!Grow, LM!Grown, Grown, Mem
  <2>. QED BY <1>3, <2>3 DEF AbstractStep, LM!LMNext
<1>6. CASE ~(pages + delta <= PageLimit)
  <2>1. answer' = Grown(-1) /\ linMemWasmSize' = linMemWasmSize
    BY <1>2, <1>3, <1>4, <1>6 DEF MemoryGrow
  <2>2. LM!Grow(delta)
    BY <1>1, <1>2, <1>6, <2>1 DEF LM!Grow, LM!Grown, Grown, Mem
  <2>. QED BY <1>3, <2>2 DEF AbstractStep, LM!LMNext
<1>. QED BY <1>5, <1>6

\* the bytes behind a length disappear in a shrink that was to keep that length
LEMMA RefineDiscard ==
  ASSUME IInv, NEW length \in 0 .. MaxUint, length <= InUse, InUse' = length,
         \A o \in Offset : o < length => bytes'[o] = bytes[o],
         UNCHANGED linMemWasmSize, answer' \in {Shrinking(length), Shrunk(length)}
  PROVE  AbstractStep
<1>1. length \in 0 .. MaxUint + 1 /\ MaxUint \in Nat /\ InUse \in 0 .. MaxUint
  BY FormalFacts, SizeAssumption
<1>2. \A o \in Offset : o < length => o < InUse
  BY <1>1 DEF Offset
<1>3. Mem' = [o \in Offset |-> IF o < length THEN bytes'[o] ELSE 0]
  BY DEF Mem
<1>4. Mem' = [o \in Offset |-> IF o < length THEN Mem[o] ELSE 0]
  <2>1. \A o \in Offset : (IF o < length THEN bytes'[o] ELSE 0) = IF o < length THEN Mem[o] ELSE 0
    BY <1>2, Zenon DEF Mem
  <2>. QED BY <1>3, <2>1
<1>5. LM!Discard(length)
  <2>1. \E n \in 0 .. MaxUint + 1 : n >= length /\ Mem' = [o \in Offset |-> IF o < n THEN Mem[o] ELSE 0]
    BY <1>1, <1>4
  <2>. QED BY <2>1 DEF LM!Discard, LM!Shrinking, Shrinking, LM!Shrunk, Shrunk, Mem
<1>. QED BY <1>1, <1>5 DEF AbstractStep, LM!LMNext

\* an operation that asks for no less than it accesses
Covered(o) ==
  IF o.kind \in {"init", "shrink"} THEN o.access = NoAccess
  ELSE o.access.at + o.access.width <= o.need

LEMMA SucceedRefines ==
  ASSUME IInv, NEW o, Ready(o), Covered(o), o.kind = "init" => usable = 0,
         o.kind = "shrink" => o.need <= InUse,
         o.kind # "shrink" => InUse = usable /\ o.need <= Formal, Succeed(o)
  PROVE  AbstractStep
<1>1. /\ o.need \in 0 .. MaxUint /\ o.access \in Access /\ o.kind \in Kind \ {"none"}
      /\ o.from \in Running
      /\ o.kind = "init" => o.need = 0
      /\ bytes \in [Offset -> Content] /\ usable \in 0 .. MaxUint /\ MaxUint \in Nat
      /\ o.kind = "shrink" => o.need <= usable
  BY SizeAssumption DEF Ready, Entered, OperationType, Running, IInv, TypeOK
<1>2. UNCHANGED linMemWasmSize
  BY DEF Succeed
<1>3. PICK used \in 0 .. MaxUint :
        used = IF o.kind = "shrink" THEN o.need ELSE Larger(usable, o.need)
  BY <1>1 DEF Larger
<1>4. InUse' = used
  <2>1. usable' = used /\ pc' = o.from
    BY <1>3, Zenon DEF Succeed
  <2>. QED BY <1>1, <2>1 DEF InUse, Running
<1>5. Exposed(o.need) \in [Offset -> Content]
  BY <1>1, ValueAssumption DEF Exposed
<1>6. CASE o.kind = "init"
  <2>1. usable = 0
    BY <1>6
  <2>2. used = 0
    BY <1>1, <1>3, <1>6, <2>1 DEF Larger
  <2>3. \A x \in Offset : ~(x < 0)
    BY DEF Offset
  <2>4. Mem' = Mem
    BY <1>4, <1>6, <2>1, <2>2, <2>3 DEF Mem
  <2>5. answer' = Said("none")
    BY <1>6 DEF Succeed
  <2>. QED BY <1>2, <2>4, <2>5, RefineSaid
<1>7. CASE o.kind = "shrink"
  <2>1. \A x \in Offset : x \notin usable .. o.need - 1
    BY <1>1, <1>7 DEF Offset
  <2>2. bytes' = Written(Exposed(o.need), NoAccess) /\ answer' = Shrunk(used)
    BY <1>3, <1>7 DEF Succeed, Covered
  <2>3. bytes' = bytes
    BY <1>1, <2>1, <2>2 DEF Written, Exposed, NoAccess
  <2>. QED BY <1>1, <1>2, <1>3, <1>4, <1>7, <2>2, <2>3, RefineDiscard
<1>8. CASE o.kind \in {"segments", "access", "region"}
  <2>1. usable <= used /\ o.need <= used /\ used \in {usable, o.need}
    BY <1>1, <1>3, <1>8 DEF Larger
  <2>2. InUse = usable /\ InUse <= used /\ o.access.at + o.access.width <= used
    <3>1. o.access.at + o.access.width \in Nat /\ o.access.at + o.access.width <= o.need
      BY <1>1, <1>8 DEF Covered, Access
    <3>. QED BY <1>1, <1>8, <2>1, <3>1
  <2>3. o.access.at + o.access.width <= Formal
    <3>1. o.access.at + o.access.width \in Nat /\ o.access.at + o.access.width <= o.need
      BY <1>1, <1>8 DEF Covered, Access
    <3>2. PICK f \in Nat : f = Formal
      BY FormalFacts
    <3>. QED BY <1>1, <1>8, <3>1, <3>2
  <2>4. \A x \in Offset : x < used => Exposed(o.need)[x] = Mem[x]
    <3>. SUFFICES ASSUME NEW x \in Offset, x < used PROVE Exposed(o.need)[x] = Mem[x]
      OBVIOUS
    <3>1. x \in usable .. o.need - 1 <=> ~(x < InUse)
      BY <1>1, <2>1, <2>2 DEF Offset
    <3>. QED BY <3>1 DEF Exposed, Mem
  <2>5. bytes' = Written(Exposed(o.need), o.access) /\ answer' = AccessAnswer(Exposed(o.need), o.access)
    BY <1>8 DEF Succeed
  <2>. QED BY <1>1, <1>2, <1>4, <1>5, <2>2, <2>3, <2>4, <2>5, RefineAccess
<1>. QED BY <1>1, <1>6, <1>7, <1>8

LEMMA RejectedRefines ==
  ASSUME IInv, pc # "sync", NEW o, Entered(o), NEW desired,
         NEW why \in {"refused", "couldnotextend", "outofbounds"}, Rejected(o, why, desired)
  PROVE  AbstractStep
<1>1. /\ pc' # "sync" /\ UNCHANGED <<bytes, usable, linMemWasmSize>>
      /\ answer' \in {Said("refused"), Said("couldnotextend"), Said("outofbounds")}
  BY DEF Rejected, Fail, Trap, Entered, block
<1>2. Mem' = Mem
  BY <1>1, SameMem DEF InUse
<1>. QED BY <1>1, <1>2, RefineSaid

\* an operation that is over, or that starts to wait
LEMMA SucceedAccessOK ==
  ASSUME NEW o, Entered(o), Succeed(o), o.from \in Running
  PROVE  AccessOK'
  BY DEF Succeed, AccessOK, Waiting, Running

LEMMA RejectedAccessOK ==
  ASSUME NEW o, Entered(o), NEW why, NEW desired, Rejected(o, why, desired)
  PROVE  AccessOK'
<1>1. pc' \in {"dead", "idle", "host"}
  BY DEF Rejected, Fail, Trap, Entered
<1>. QED BY <1>1 DEF AccessOK, Waiting

\* the length that a shrink keeps, named before any byte is gone
LEMMA RefineShrinking ==
  ASSUME IInv, NEW length \in 0 .. MaxUint, Mem' = Mem, UNCHANGED linMemWasmSize,
         answer' = Shrinking(length)
  PROVE  AbstractStep
<1>1. /\ MaxUint \in Nat /\ MaxUint + 1 \in 0 .. MaxUint + 1
      /\ length \in 0 .. MaxUint + 1 /\ MaxUint + 1 >= length
  BY SizeAssumption
<1>2. Mem = [o \in Offset |-> IF o < MaxUint + 1 THEN Mem[o] ELSE 0]
  <2>1. \A o \in Offset : o < MaxUint + 1
    BY <1>1 DEF Offset
  <2>2. Mem = [o \in Offset |-> Mem[o]]
    BY DEF Mem
  <2>. QED BY <2>1, <2>2
<1>3. \E n \in 0 .. MaxUint + 1 : n >= length /\ Mem' = [o \in Offset |-> IF o < n THEN Mem[o] ELSE 0]
  BY <1>1, <1>2
<1>4. LM!Discard(length)
  BY <1>3 DEF LM!Discard, LM!Shrinking, Shrinking, LM!Shrunk, Shrunk, Mem
<1>. QED BY <1>1, <1>4 DEF AbstractStep, LM!LMNext

LEMMA ExtendRefines ==
  ASSUME IInv, pc # "sync", NEW o, Covered(o), o.kind = "shrink" => o.need \in 0 .. MaxUint, Extend(o)
  PROVE  AccessOK' /\ AbstractStep
<1>1. /\ pc' = "alloc" /\ op' = o
      /\ UNCHANGED <<bytes, usable, linMemWasmSize>>
      /\ answer' = IF o.kind = "shrink" THEN Shrinking(o.need) ELSE answer
  BY DEF Extend, block, basedata
<1>2. Mem' = Mem
  BY <1>1, SameMem DEF InUse
<1>3. AccessOK'
  BY <1>1 DEF AccessOK, Covered
<1>4. CASE o.kind = "shrink"
  BY <1>1, <1>2, <1>3, <1>4, RefineShrinking
<1>5. CASE o.kind # "shrink"
  BY <1>1, <1>2, <1>3, <1>5 DEF AbstractStep
<1>. QED BY <1>4, <1>5

LEMMA CapacityRefines ==
  ASSUME IInv, pc \notin {"alloc", "sync"}, NEW o, Ready(o), Covered(o), o.kind # "shrink",
         o.kind = "init" => usable = 0, o.need <= Formal, EnsureCapacity(o)
  PROVE  AccessOK' /\ AbstractStep
<1>1. Entered(o) /\ o.from \in Running /\ InUse = usable
  BY DEF Ready, Entered, Running, InUse
<1>2. CASE Succeed(o)
  BY <1>1, <1>2, SucceedAccessOK, SucceedRefines
<1>3. CASE Extend(o)
  BY <1>3, ExtendRefines
<1>4. CASE Rejected(o, "couldnotextend", Unfulfilled(o.need))
  BY <1>1, <1>4, RejectedAccessOK, RejectedRefines
<1>. QED BY <1>2, <1>3, <1>4 DEF EnsureCapacity

LEMMA ProbeRefines ==
  ASSUME IInv, pc \notin {"alloc", "sync"}, NEW o \in OperationType, Entered(o), Covered(o),
         o.kind \notin {"init", "shrink"}, allowed' \in {allowed, linMemWasmSize}, Probe(o)
  PROVE  AccessOK' /\ AbstractStep
<1>. DEFINE required == [o EXCEPT !.need = @ % (MaxUint + 1)]
<1>1. CASE Rejected(o, "outofbounds", maxDesired)
  BY <1>1, RejectedAccessOK, RejectedRefines
<1>2. CASE ~(o.need > usable /\ o.need > allowed' * PageSize)
  <2>1. o.need \in Nat /\ o.need <= MaxUint
    BY SizeAssumption DEF OperationType
  <2>2. o.need % (MaxUint + 1) = o.need
    BY <2>1, Wraps
  <2>3. required = o
    BY <2>2 DEF OperationType
  <2>4. o.need <= Formal
    <3>1. PICK limit \in Nat : limit = allowed' * PageSize
      <4>1. allowed' \in Nat /\ PageSize \in Nat
        BY SizeAssumption DEF IInv, TypeOK
      <4>. QED BY <4>1, ProductType, Zenon
    <3>2. PICK formal \in Nat : formal = Formal /\ usable <= formal
      BY FormalFacts
    <3>3. limit <= formal
      <4>1. CASE allowed' = allowed
        <5>1. allowed * PageSize <= formal
          BY <3>2, FormalFacts
        <5>. QED BY <3>1, <4>1, <5>1, Zenon
      <4>2. CASE allowed' = linMemWasmSize
        <5>1. limit = formal
          BY <3>1, <3>2, <4>2, Zenon DEF Formal
        <5>. QED BY <5>1
      <4>. QED BY <4>1, <4>2
    <3>4. ~(o.need > usable /\ o.need > limit)
      BY <1>2, <3>1, Zenon
    <3>5. usable \in Nat
      BY FormalFacts, SizeAssumption
    <3>6. o.need <= formal
      BY <2>1, <3>2, <3>3, <3>4, <3>5
    <3>. QED BY <3>2, <3>6, Zenon
  <2>5. (UNCHANGED basedataStart /\ Succeed(o)) \/ EnsureCapacity(o)
    <3>1. (UNCHANGED basedataStart /\ Succeed(required)) \/ EnsureCapacity(required)
      BY <1>2 DEF Probe
    <3>. HIDE DEF required
    <3>. QED BY <2>3, <3>1, Zenon
  <2>6. Ready(o) /\ o.from \in Running /\ InUse = usable
    BY DEF Ready, Entered, Running, InUse
  <2>7. CASE Succeed(o)
    BY <2>4, <2>6, <2>7, SucceedAccessOK, SucceedRefines
  <2>8. CASE EnsureCapacity(o)
    BY <2>4, <2>6, <2>8, CapacityRefines
  <2>. QED BY <2>5, <2>7, <2>8
<1>. QED BY <1>1, <1>2 DEF Probe

(***************************************************************************)
(* One lemma per action.                                                   *)
(***************************************************************************)
LEMMA ConstructRefines == ASSUME IInv, Construct PROVE AccessOK' /\ AbstractStep
<1>. DEFINE o == Operation("init", 0, NoAccess, "reserved")
<1>1. Ready(o) /\ Covered(o) /\ o.kind = "init" /\ o.need = 0
  BY SizeAssumption, ValueAssumption
     DEF Ready, Entered, Covered, OperationType, Operation, NoAccess, Access
<1>2. pc = "new" /\ usable = 0 /\ EnsureCapacity(o)
  BY DEF Construct, IInv, NewOK
<1>. HIDE DEF o
<1>3. o.need <= Formal
  BY <1>1, FormalFacts
<1>. QED BY <1>1, <1>2, <1>3, CapacityRefines

LEMMA LoadSegmentsRefines == ASSUME IInv, LoadSegments PROVE AccessOK' /\ AbstractStep
<1>1. PICK a \in DataSegments :
        LET o == Operation("segments", a.at + a.width, a, "idle")
        IN  IF o.need = 0 THEN UNCHANGED basedataStart /\ Succeed(o) ELSE Probe(o)
  BY DEF LoadSegments
<1>. DEFINE o == Operation("segments", a.at + a.width, a, "idle")
<1>2. /\ o \in OperationType /\ Entered(o) /\ o.kind = "segments" /\ o.from \in Running
      /\ Covered(o) /\ o.need \in Nat
  BY SizeAssumption, InputAssumption
     DEF Operation, OperationType, Entered, Access, Running, Covered
<1>3. pc = "reserved" /\ allowed' = allowed /\ InUse = usable
  BY DEF LoadSegments, InUse
<1>4. IF o.need = 0 THEN UNCHANGED basedataStart /\ Succeed(o) ELSE Probe(o)
  BY <1>1
<1>. HIDE DEF o
<1>5. CASE o.need = 0
  <2>1. Ready(o) /\ o.need <= Formal
    BY <1>2, <1>5, FormalFacts DEF Ready
  <2>. QED BY <1>2, <1>3, <1>4, <1>5, <2>1, SucceedAccessOK, SucceedRefines
<1>6. CASE o.need # 0
  BY <1>2, <1>3, <1>4, <1>6, ProbeRefines
<1>. QED BY <1>5, <1>6

LEMMA ReallocateRefines == ASSUME IInv, AccessOK, Reallocate PROVE AccessOK' /\ AbstractStep
<1>1. /\ pc = "alloc" /\ Entered(op) /\ op.need \in 0 .. MaxUint /\ usable \in 0 .. MaxUint
      /\ MaxUint \in Nat /\ BasedataSize \in Nat /\ maxRam \in Nat /\ size \in Nat
      /\ Rounded(op.need) <= maxRam /\ Rounded(op.need) <= MaxUint
      /\ InUse = usable /\ (usable > 0 => BasedataSize + usable <= size)
      /\ IF op.kind = "shrink" THEN op.need <= usable ELSE usable <= op.need
  BY SizeAssumption
     DEF Reallocate, IInv, TypeOK, OperationOK, LengthOK, Permitted, Waiting, OperationType,
         UsableBacked, InUse
<1>2. Rounded(op.need) \in Nat /\ BasedataSize + op.need <= Rounded(op.need)
  BY <1>1, RoundedBounds
<1>3. ASSUME NEW length \in {Proposed(Rounded(op.need)), Rounded(op.need)},
             bytes' = [o \in Offset |-> IF BasedataSize + o < Smaller(size, length)
                                        THEN bytes[o] ELSE Junk],
             pc' = "sync", UNCHANGED <<manager, basedata, op, answer>>
      PROVE  AccessOK' /\ AbstractStep
  <2>1. length \in Nat /\ Rounded(op.need) <= length
    BY <1>1, <1>2, ProposedBounds
  <2>2. PICK used \in 0 .. MaxUint : used = InUse'
    BY <1>1, <1>3 DEF InUse, manager
  <2>3. used = (IF op.kind = "shrink" THEN op.need ELSE usable) /\ used <= op.need /\ used <= usable
    BY <1>1, <1>3, <2>2 DEF InUse, manager
  <2>4. \A o \in Offset : o < used => BasedataSize + o < Smaller(size, length)
    <3>. SUFFICES ASSUME NEW o \in Offset, o < used PROVE BasedataSize + o < Smaller(size, length)
      OBVIOUS
    <3>1. o \in Nat /\ BasedataSize + o < size
      BY <1>1, <2>3 DEF Offset
    <3>2. BasedataSize + o < length
      BY <1>1, <1>2, <2>1, <2>3, <3>1
    <3>. QED BY <3>1, <3>2 DEF Smaller
  <2>5. \A o \in Offset : o < used => bytes'[o] = bytes[o]
    BY <1>3, <2>4
  <2>6. AccessOK'
    BY <1>1, <1>3 DEF AccessOK, Waiting
  <2>7. CASE op.kind = "shrink"
    <3>1. used <= InUse /\ UNCHANGED linMemWasmSize /\ answer' = Shrinking(used)
      BY <1>1, <1>3, <2>3, <2>7 DEF basedata, AccessOK, Waiting
    <3>. QED BY <2>2, <2>5, <2>6, <3>1, RefineDiscard
  <2>8. CASE op.kind # "shrink"
    <3>1. used = InUse
      BY <1>1, <2>3, <2>8
    <3>2. Mem' = Mem
      BY <2>2, <2>5, <3>1 DEF Mem
    <3>. QED BY <1>3, <2>6, <3>2 DEF AbstractStep, basedata
  <2>. QED BY <2>7, <2>8
<1>4. ASSUME op.kind = "shrink", pc' = "sync", UNCHANGED <<block, manager, basedata, op, answer>>
      PROVE  AccessOK' /\ AbstractStep
  <2>1. PICK used \in 0 .. MaxUint : used = op.need /\ used <= InUse
    BY <1>1, <1>4
  <2>2. InUse' = used /\ UNCHANGED <<bytes, linMemWasmSize, answer>>
    BY <1>4, <2>1 DEF InUse, block, basedata
  <2>3. AccessOK'
    BY <1>1, <1>4 DEF AccessOK, Waiting
  <2>4. answer' = Shrinking(used)
    BY <1>1, <1>4, <2>1 DEF AccessOK, Waiting
  <2>. QED BY <2>1, <2>2, <2>3, <2>4, RefineDiscard
<1>5. CASE Rejected(op, "couldnotextend", Rounded(op.need))
  BY <1>1, <1>5, RejectedAccessOK, RejectedRefines
<1>6. \/ \E length \in {Proposed(Rounded(op.need)), Rounded(op.need)} :
           /\ bytes' = [o \in Offset |-> IF BasedataSize + o < Smaller(size, length)
                                         THEN bytes[o] ELSE Junk]
           /\ pc' = "sync" /\ UNCHANGED <<manager, basedata, op, answer>>
      \/ op.kind = "shrink" /\ pc' = "sync" /\ UNCHANGED <<block, manager, basedata, op, answer>>
      \/ Rejected(op, "couldnotextend", Rounded(op.need))
  BY DEF Reallocate
<1>. QED BY <1>3, <1>4, <1>5, <1>6

LEMMA SynchronizeRefines == ASSUME IInv, AccessOK, Synchronize PROVE AccessOK' /\ AbstractStep
<1>1. /\ pc = "sync" /\ op \in OperationType /\ Entered(op) /\ Permitted(op) /\ Succeed(op)
      /\ op.from \in Running /\ Covered(op)
      /\ op.need \in Nat /\ usable \in Nat
  BY SizeAssumption
     DEF Synchronize, IInv, TypeOK, OperationOK, LengthOK, Waiting, AccessOK, Covered, Entered,
         Running, OperationType
<1>2. /\ op.kind = "shrink" => op.need <= usable /\ InUse = op.need
      /\ op.kind # "shrink" => usable <= op.need /\ op.need <= allowed * PageSize /\ InUse = usable
  BY <1>1 DEF Permitted, InUse
<1>3. op.kind = "init" => usable = 0
  BY <1>1, <1>2 DEF Entered
<1>4. op.kind # "shrink" => op.need <= Formal
  <2>1. PICK now \in Nat : now = allowed * PageSize
    BY FormalFacts, Zenon
  <2>2. PICK formal \in Nat : formal = Formal /\ now <= formal
    BY <2>1, FormalFacts
  <2>3. op.kind # "shrink" => op.need <= now
    BY <1>2, <2>1, Zenon
  <2>. QED BY <1>1, <2>2, <2>3
<1>5. Ready(op) /\ (op.kind = "shrink" => op.need <= InUse)
  BY <1>1, <1>2 DEF Ready
<1>. QED BY <1>1, <1>2, <1>3, <1>4, <1>5, SucceedAccessOK, SucceedRefines

\* the steps that only move the thread
LEMMA MoveRefines ==
  ASSUME IInv, Call \/ Return \/ Interrupt \/ CallImport \/ ReturnFromImport
  PROVE  AccessOK' /\ AbstractStep
<1>1. /\ pc \in {"idle", "wasm", "host"} /\ pc' \in {"idle", "wasm", "host"}
      /\ answer' \in {Said("none"), Said("interrupted")}
      /\ UNCHANGED <<bytes, usable, linMemWasmSize>>
  BY DEF Call, Return, Interrupt, CallImport, ReturnFromImport, Trap, block, manager, basedata
<1>2. Mem' = Mem
  BY <1>1, SameMem DEF InUse
<1>3. AccessOK'
  BY <1>1 DEF AccessOK, Waiting
<1>. QED BY <1>1, <1>2, <1>3, RefineSaid

\* the inline check: either comparison keeps the access within the usable bytes
LEMMA AccessDirectlyRefines ==
  ASSUME IInv, NEW a \in WasmAccesses, AccessDirectly(a)
  PROVE  AccessOK' /\ AbstractStep
<1>1. /\ pc = "wasm" /\ pc' = "wasm" /\ regLinMem = data /\ regMemSize = usable - AccessMax
      /\ InUse = usable /\ InUse' = usable /\ bytes \in [Offset -> Content]
      /\ bytes' = Written(bytes, a) /\ answer' = AccessAnswer(bytes, a) /\ UNCHANGED linMemWasmSize
  BY DEF AccessDirectly, IInv, RegistersCurrent, TypeOK, InUse, manager, basedata
<1>2. a \in Access /\ a.at \in Nat /\ a.width \in 1 .. AccessMax /\ AccessMax \in Nat
  BY InputAssumption, SizeAssumption DEF Access
<1>3. PICK used \in 0 .. MaxUint : used = usable /\ used \in Nat
  BY FormalFacts, SizeAssumption
<1>4. a.at + a.width <= used
  BY <1>1, <1>2, <1>3 DEF AccessDirectly, InBounds
<1>5. a.at + a.width <= Formal
  <2>1. PICK formal \in Nat : formal = Formal /\ used <= formal
    BY <1>3, FormalFacts
  <2>. QED BY <1>2, <1>3, <1>4, <2>1
<1>6. \A o \in Offset : o < used => bytes[o] = Mem[o]
  BY <1>1, <1>3 DEF Mem
<1>7. AccessOK'
  BY <1>1 DEF AccessOK, Waiting
<1>8. InUse' = used /\ InUse <= used
  BY <1>1, <1>3
<1>. QED BY <1>1, <1>2, <1>4, <1>5, <1>6, <1>7, <1>8, RefineAccess

LEMMA RequestExtensionRefines ==
  ASSUME IInv, NEW a \in WasmAccesses, RequestExtension(a)
  PROVE  AccessOK' /\ AbstractStep
<1>. DEFINE o == Operation("access", a.at + a.width, a, "wasm")
<1>1. /\ Entered(o) /\ Covered(o) /\ o.kind = "access" /\ o.access = a /\ o.from = "wasm"
      /\ o.need \in Nat /\ a \in Access
  BY InputAssumption DEF Operation, Entered, Covered, Access
<1>2. pc = "wasm"
  BY DEF RequestExtension
<1>3. CASE Rejected(o, "couldnotextend", maxDesired)
  BY <1>1, <1>2, <1>3, RejectedAccessOK, RejectedRefines
<1>4. CASE ~(o.need + BasedataSize > MaxUint) /\ allowed' = linMemWasmSize /\ Probe(o)
  <2>1. o.need \in 0 .. MaxUint
    BY <1>1, <1>4, SizeAssumption
  <2>2. o \in OperationType
    BY <1>1, <2>1 DEF Operation, OperationType
  <2>. HIDE DEF o
  <2>. QED BY <1>1, <1>2, <1>4, <2>2, ProbeRefines
<1>. QED BY <1>3, <1>4 DEF RequestExtension

LEMMA RegionRefines ==
  ASSUME IInv, RegionsInWord, NEW a \in HostRegions, Region(a)
  PROVE  AccessOK' /\ AbstractStep
<1>1. /\ a \in Access /\ a.at \in Nat /\ a.width \in Nat /\ a.width >= 1 /\ a.at + a.width <= MaxUint
      /\ MaxUint \in Nat
  BY InputAssumption, SizeAssumption DEF RegionsInWord, Access
<1>2. PICK last \in Nat : last = a.at + a.width - 1 /\ last <= MaxUint
  BY <1>1
<1>3. last % (MaxUint + 1) = last
  BY <1>2, Wraps
<1>. DEFINE o == Operation("region", last + 1, a, pc)
<1>4. pc \in {"idle", "host"} /\ allowed' = linMemWasmSize /\ Probe(o)
  BY <1>2, <1>3 DEF Region
<1>5. /\ o \in OperationType /\ Entered(o) /\ Covered(o) /\ o.kind = "region"
  BY <1>1, <1>2, <1>4 DEF Operation, OperationType, Entered, Covered
<1>. HIDE DEF o
<1>. QED BY <1>4, <1>5, ProbeRefines

LEMMA ShrinkRefines ==
  ASSUME IInv, NEW length \in Nat, ShrinkToSize(length)
  PROVE  AccessOK' /\ AbstractStep
<1>. DEFINE o == Operation("shrink", length, NoAccess, pc)
<1>1. /\ pc \in {"idle", "host"} /\ o.kind = "shrink" /\ o.need = length /\ o.from \in Running
      /\ Entered(o) /\ Covered(o) /\ InUse = usable /\ usable \in 0 .. MaxUint
  BY FormalFacts DEF ShrinkToSize, Operation, Entered, Covered, Running, InUse
<1>2. CASE Rejected(o, "refused", maxDesired)
  BY <1>1, <1>2, RejectedAccessOK, RejectedRefines
<1>3. CASE length <= usable /\ Extend(o)
  <2>1. length \in 0 .. MaxUint
    BY <1>1, <1>3, SizeAssumption
  <2>. HIDE DEF o
  <2>. QED BY <1>1, <1>3, <2>1, ExtendRefines
<1>4. CASE length <= usable /\ Succeed(o)
  <2>1. o \in OperationType
    BY <1>1, <1>4, SizeAssumption, ValueAssumption DEF Operation, OperationType, NoAccess, Access
  <2>. HIDE DEF o
  <2>2. Ready(o)
    BY <1>1, <1>4, <2>1 DEF Ready
  <2>. QED BY <1>1, <1>4, <2>2, SucceedAccessOK, SucceedRefines
<1>5. length <= usable \/ length > usable
  BY <1>1, SizeAssumption
<1>. QED BY <1>2, <1>3, <1>4, <1>5 DEF ShrinkToSize

LEMMA OtherRefines ==
  ASSUME IInv, AccessOK,
         \/ Limit
         \/ \E t \in Interrupter : RequestStep(t)
         \/ UNCHANGED vars
  PROVE  AccessOK' /\ AbstractStep
<1>1. UNCHANGED <<bytes, usable, linMemWasmSize, pc, op, answer>>
  BY DEF Limit, SetMaxRam, RequestStep, LockMutex, WriteFlag, vars, block, manager, basedata, control
<1>2. Mem' = Mem
  BY <1>1, SameMem DEF InUse
<1>3. AccessOK'
  BY <1>1 DEF AccessOK, Waiting
<1>. QED BY <1>1, <1>2, <1>3 DEF AbstractStep

LEMMA GrowRefines ==
  ASSUME IInv, NEW delta \in GrowDeltas, MemoryGrow(delta)
  PROVE  AccessOK' /\ AbstractStep
<1>1. AccessOK'
  BY DEF MemoryGrow, AccessOK, Waiting
<1>. QED BY <1>1, RefineGrow

LEMMA NextRefines ==
  ASSUME IInv, AccessOK, RegionsInWord, [Next]_vars
  PROVE  AccessOK' /\ AbstractStep
<1>1. CASE Setup
  BY <1>1, ConstructRefines, LoadSegmentsRefines DEF Setup
<1>2. CASE Callback
  BY <1>2, ReallocateRefines, SynchronizeRefines DEF Callback
<1>3. CASE LoopHeader \/ ImportReturns
  BY <1>3, MoveRefines DEF LoopHeader, ImportReturns
<1>4. CASE WasmStep
  BY <1>4, MoveRefines, AccessDirectlyRefines, RequestExtensionRefines, GrowRefines DEF WasmStep
<1>5. CASE HostStep
  <2>1. ShrinkLengths \subseteq Nat /\ usable + BasedataSize \in Nat
    BY SizeAssumption, InputAssumption DEF IInv, TypeOK
  <2>. QED BY <1>5, <2>1, RegionRefines, ShrinkRefines DEF HostStep, ShrinkToActiveSize
<1>6. CASE Limit \/ (\E t \in Interrupter : RequestStep(t)) \/ UNCHANGED vars
  BY <1>6, OtherRefines
<1>. QED BY <1>1, <1>2, <1>3, <1>4, <1>5, <1>6 DEF Next

(***************************************************************************)
(* A program cannot tell the reallocated block from an array that grows,   *)
(* whatever limits, lengths and pages, failed reallocations and shrinks,   *)
(* as long as no host asks for a region that leaves 32 bits.               *)
(***************************************************************************)
THEOREM ImplementsArray == RegionsInWord => (Spec => ImplementsLinearMemory)
<1>. SUFFICES ASSUME RegionsInWord PROVE Spec => ImplementsLinearMemory
  OBVIOUS
<1>1. Init => AccessOK
  BY DEF Init, AccessOK, Waiting
<1>2. Init => LM!LMInit
  <2>. SUFFICES ASSUME Init PROVE LM!LMInit
    OBVIOUS
  <2>1. \A o \in Offset : ~(o < InUse)
    BY DEF Init, InUse, Offset
  <2>2. [o \in Offset |-> IF o < InUse THEN bytes[o] ELSE 0] = [o \in Offset |-> 0]
    BY <2>1, Zenon
  <2>. QED BY <2>2, SizeAssumption DEF Init, LM!LMInit, LM!Said, Said
<1>3. IInv /\ AccessOK /\ [Next]_vars => AccessOK'
  BY NextRefines
<1>4. IInv /\ AccessOK /\ [Next]_vars => [LM!LMNext]_(LM!lmVars)
  <2>. SUFFICES ASSUME IInv, AccessOK, [Next]_vars PROVE [LM!LMNext]_(LM!lmVars)
    OBVIOUS
  <2>. QED BY NextRefines DEF AbstractStep, Mem, LM!lmVars
<1>. QED BY <1>1, <1>2, <1>3, <1>4, Inductive, PTL DEF Spec, ImplementsLinearMemory, LM!LMSpec
=============================================================================
