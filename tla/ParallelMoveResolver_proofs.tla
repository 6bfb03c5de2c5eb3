--------------------- MODULE ParallelMoveResolver_proofs ---------------------
(***************************************************************************)
(* Proofs about ParallelMoveResolver for every number of registers, slots  *)
(* and arguments, both ways of breaking cycles and every width, as long as *)
(* the backend's calls move single registers.                              *)
(***************************************************************************)
EXTENDS ParallelMoveResolver, SequenceTheorems, FiniteSetTheorems, TLAPS

(***************************************************************************)
(* What the moves of single registers make of the model's helpers.         *)
(***************************************************************************)
Single == SingleRegisters /\ machine \in Machines

LEMMA SingleFacts ==
  ASSUME Single
  PROVE  /\ DOMAIN PairOf = {} /\ machine.overlaps = {}
         /\ \A l \in Location : High(l) = l
         /\ machine.targets \subseteq Target /\ machine.temps \subseteq Temp
         /\ \A t \in machine.targets : machine.sources[t] \subseteq Target \union Constant
         /\ machine.widths \subseteq BOOLEAN /\ machine.strategy \in {"temp", "swap"}
         /\ machine.capacity \in Nat
<1>1. DOMAIN PairOf = {} /\ machine.overlaps = {}
  BY DEF Single, SingleRegisters, PairOf
<1>2. \A l \in Location : High(l) = l
  BY <1>1 DEF High
<1>3. machine.targets \subseteq Target /\ machine.sources \in [machine.targets -> SUBSET (Target \union Constant)]
  BY MachineAssumption DEF Single
<1>4. \A t \in machine.targets : machine.sources[t] \subseteq Target \union Constant
  BY <1>3
<1>. QED BY <1>1, <1>2, <1>3, <1>4, MachineAssumption DEF Single

\* where the places of a record are
LEMMA Places ==
  /\ Target \subseteq Location /\ Constant \subseteq Location /\ Temp \subseteq Location
  /\ Target \subseteq Tracked /\ Temp \subseteq Tracked
  /\ Target \intersect Constant = {} /\ Temp \intersect Target = {}
  /\ Temp \intersect Constant = {} /\ Tracked \intersect Constant = {}
  /\ NoLocation \notin Location
BY LocationAssumption DEF Target, Location, Tracked, Constant

LEMMA ErasedFacts ==
  /\ Erased \in RecordType /\ Erased.type = "erased" /\ Erased.source = NoLocation
  /\ \A r : IsMove(r) => r # Erased
BY DEF Erased, Move, RecordType, Type, IsMove

LEMMA MoveFacts ==
  ASSUME NEW r, IsMove(r)
  PROVE  /\ r.type = "normal" /\ r.target \in Target /\ r.source \in Target \union Constant
         /\ r.source # r.target /\ r.target \in Location /\ r.source \in Location
         /\ r.target \in Tracked
BY Places DEF IsMove

\* the pending records are moves with targets of their own
LEMMA Pending ==
  ASSUME IInv
  PROVE  /\ Operational = {i \in DOMAIN records : records[i] # Erased}
         /\ \A i \in Operational : IsMove(records[i]) /\ i \in DOMAIN records
         /\ DOMAIN records = 1 .. Len(records) /\ Len(records) \in Nat
         /\ IsFiniteSet(DOMAIN records) /\ IsFiniteSet(Operational)
         /\ \A i, j \in Operational : records[i].target = records[j].target => i = j
<1>1. records \in Seq(RecordType)
  BY DEF IInv, TypeOK
<1>2. DOMAIN records = 1 .. Len(records) /\ Len(records) \in Nat
  BY <1>1, LenProperties
<1>3. \A i \in DOMAIN records : records[i] = Erased \/ IsMove(records[i])
  BY DEF IInv, RecordsOK
<1>4. Operational = {i \in DOMAIN records : records[i] # Erased}
  BY <1>3, ErasedFacts, MoveFacts DEF Operational
<1>5. \A i \in Operational : IsMove(records[i]) /\ i \in DOMAIN records
  BY <1>3, <1>4
<1>6. IsFiniteSet(DOMAIN records)
  BY <1>2, FS_Interval
<1>7. IsFiniteSet(Operational)
  BY <1>4, <1>6, FS_Subset
<1>. QED BY <1>2, <1>4, <1>5, <1>6, <1>7 DEF IInv, RecordsOK

\* a pending record is one register or slot
LEMMA OneHalf ==
  ASSUME IInv
  PROVE  \A i \in Operational : Halves(i) = {i}
BY Pending, MoveFacts DEF Halves

(***************************************************************************)
(* Readers count the records that read a location.                         *)
(***************************************************************************)
LEMMA ReadersFacts ==
  ASSUME IInv, NEW S \in SUBSET Operational, NEW l
  PROVE  /\ Readers(S, l) \in Nat
         /\ Readers(S, l) = 0 <=> \A i \in S : records[i].source # l
<1>. DEFINE R == {i \in S : records[i].source = l}
<1>1. IsFiniteSet(R)
  BY Pending, FS_Subset
<1>2. Cardinality(R) \in Nat /\ (Cardinality(R) = 0 <=> R = {})
  BY <1>1, FS_CardinalityType, FS_EmptySet
<1>3. R = {} <=> \A i \in S : records[i].source # l
  OBVIOUS
<1>. QED BY <1>2, <1>3 DEF Readers

LEMMA ReadersOfOne ==
  ASSUME NEW i, NEW l
  PROVE  Readers({i}, l) = IF records[i].source = l THEN 1 ELSE 0
<1>1. CASE records[i].source = l
  <2>1. {j \in {i} : records[j].source = l} = {i}
    BY <1>1
  <2>. QED BY <1>1, <2>1, FS_Singleton DEF Readers
<1>2. CASE records[i].source # l
  <2>1. {j \in {i} : records[j].source = l} = {}
    BY <1>2
  <2>. QED BY <1>2, <2>1, FS_EmptySet DEF Readers
<1>. QED BY <1>1, <1>2

LEMMA ReadersWithout ==
  ASSUME IInv, NEW i \in Operational, NEW l
  PROVE  /\ Readers(Operational \ {i}, l) = Readers(Operational, l) - Readers({i}, l)
         /\ Readers(Operational \ {i}, l) \in Nat
<1>. DEFINE R == {j \in Operational : records[j].source = l}
            Q == {j \in Operational \ {i} : records[j].source = l}
<1>1. IsFiniteSet(R) /\ Q = R \ {i}
  BY Pending, FS_Subset
<1>2. Cardinality(Q) = IF i \in R THEN Cardinality(R) - 1 ELSE Cardinality(R)
  BY <1>1, FS_RemoveElement
<1>3. Cardinality(R) \in Nat
  BY <1>1, FS_CardinalityType
<1>4. i \in R <=> records[i].source = l
  OBVIOUS
<1>5. Readers(Operational \ {i}, l) \in Nat
  BY ReadersFacts
<1>6. Readers(Operational \ {i}, l) = Cardinality(Q) /\ Readers(Operational, l) = Cardinality(R)
  BY DEF Readers
<1>7. Readers({i}, l) = IF i \in R THEN 1 ELSE 0
  BY <1>4, ReadersOfOne
<1>. HIDE DEF R, Q
<1>. QED BY <1>2, <1>3, <1>5, <1>6, <1>7

(***************************************************************************)
(* Executing a move.                                                       *)
(***************************************************************************)
Value == [from : Location \union {NoLocation}, whole : BOOLEAN]

LEMMA NarrowedFacts ==
  ASSUME NEW v \in Value, NEW w \in BOOLEAN
  PROVE  /\ Narrowed(v, w) \in Value
         /\ Narrowed(v, w).from = v.from
         /\ Narrowed(v, w).whole <=> v.whole /\ w
<1>0. /\ v = [from |-> v.from, whole |-> v.whole]
      /\ v.from \in Location \union {NoLocation} /\ v.whole \in BOOLEAN
  BY DEF Value
<1>1. PICK f \in Location \union {NoLocation}, b \in BOOLEAN : v = [from |-> f, whole |-> b]
  BY <1>0, Zenon
<1>2. CASE w = TRUE
  <2>1. Narrowed(v, w) = [v EXCEPT !.whole = b]
    BY <1>1, <1>2 DEF Narrowed
  <2>2. Narrowed(v, w) = v
    BY <1>1, <2>1
  <2>. QED BY <1>2, <2>2
<1>3. CASE w = FALSE
  <2>1. Narrowed(v, w) = [v EXCEPT !.whole = FALSE]
    BY <1>3 DEF Narrowed
  <2>2. Narrowed(v, w) = [from |-> f, whole |-> FALSE]
    BY <1>1, <2>1
  <2>3. [from |-> f, whole |-> FALSE] \in Value
    BY DEF Value
  <2>4. Narrowed(v, w).from = v.from /\ Narrowed(v, w).whole = FALSE
    BY <1>1, <2>2
  <2>. QED BY <1>3, <2>2, <2>3, <2>4, Zenon
<1>. QED BY <1>2, <1>3

Has(v, g) == v.from = g.source /\ (g.wide => v.whole)

LEMMA AfterMoveFacts ==
  ASSUME Single, content \in [Location -> Value],
         NEW r, r.type = "normal", r.wide \in BOOLEAN,
         NEW target \in Location, NEW source \in Location
  PROVE  /\ AfterMove(r, target, source) \in [Location -> Value]
         /\ \A l \in Location : l # target => AfterMove(r, target, source)[l] = content[l]
         /\ \A g : (g.wide => r.wide) /\ Has(content[source], g)
                      => Has(AfterMove(r, target, source)[target], g)
<1>1. machine.overlaps = {}
  BY SingleFacts
<1>2. PICK n : n = Narrowed(content[source], r.wide)
  OBVIOUS
<1>3. /\ n \in Value /\ n.from = content[source].from
      /\ n.whole <=> content[source].whole /\ r.wide
  BY <1>2, NarrowedFacts
<1>4. AfterMove(r, target, source) = [l \in Location |-> IF l = target THEN n ELSE content[l]]
  BY <1>1, <1>2 DEF AfterMove
<1>5. \A g : (g.wide => r.wide) /\ Has(content[source], g) => Has(n, g)
  BY <1>3, Zenon DEF Has
<1>. QED BY <1>3, <1>4, <1>5, Zenon

(***************************************************************************)
(* The pending records when nothing can move: every target is read, so     *)
(* every source is a target that one record alone reads.                   *)
(***************************************************************************)
LEMMA Circular ==
  ASSUME IInv, Counted, Movable = {}
  PROVE  /\ SourcesDistinct
         /\ \A i \in Operational : \E j \in Operational : records[j].source = records[i].target
         /\ \A j \in Operational : records[j].source \in Targets
<1>1. \A i \in Operational : \E j \in Operational : records[j].source = records[i].target
  <2>. SUFFICES ASSUME NEW i \in Operational
                PROVE  \E j \in Operational : records[j].source = records[i].target
    OBVIOUS
  <2>1. usage[records[i].target] # 0
    BY DEF Movable, TargetFree
  <2>2. records[i].target \in Tracked
    BY Pending, MoveFacts
  <2>3. Readers(Operational, records[i].target) # 0
    BY <2>1, <2>2 DEF Counted
  <2>. QED BY <2>3, ReadersFacts
<1>. DEFINE f == [i \in Operational |-> CHOOSE j \in Operational : records[j].source = records[i].target]
<1>2. \A i \in Operational : f[i] \in Operational /\ records[f[i]].source = records[i].target
  BY <1>1
<1>3. \A i, j \in Operational : f[i] = f[j] => i = j
  BY <1>2, Pending
<1>. HIDE DEF f
<1>4. f \in [Operational -> Operational]
  <2>1. f = [i \in Operational |-> f[i]]
    BY DEF f
  <2>. QED BY <1>2, <2>1
<1>5. f \in Injection(Operational, Operational)
  BY <1>3, <1>4 DEF Injection, IsInjective
<1>6. f \in Surjection(Operational, Operational)
  BY <1>5, Pending, FS_Injection
<1>7. \A j \in Operational : \E i \in Operational : f[i] = j
  BY <1>6 DEF Surjection
<1>8. SourcesDistinct
  <2>. SUFFICES ASSUME NEW j \in Operational, NEW k \in Operational,
                       records[j].source = records[k].source
                PROVE  j = k
    BY DEF SourcesDistinct
  <2>1. PICK i \in Operational : f[i] = j
    BY <1>7
  <2>2. PICK h \in Operational : f[h] = k
    BY <1>7
  <2>3. records[i].target = records[h].target
    BY <1>2, <2>1, <2>2
  <2>. QED BY <2>1, <2>2, <2>3, Pending
<1>9. \A j \in Operational : records[j].source \in Targets
  BY <1>2, <1>7 DEF Targets
<1>. QED BY <1>1, <1>8, <1>9

(***************************************************************************)
(* Erasing records.                                                        *)
(***************************************************************************)
LEMMA Erasing ==
  ASSUME IInv, NEW S \in SUBSET Operational, goal' = goal, machine' = machine,
         records' = [j \in DOMAIN records |-> IF j \in S THEN Erased ELSE records[j]]
  PROVE  /\ Operational' = Operational \ S
         /\ \A j \in Operational \ S : records'[j] = records[j]
         /\ records' \in Seq(RecordType) /\ Len(records') <= machine.capacity
         /\ RecordsOK'
         /\ \A t : t \in Targets' <=> \E j \in Operational \ S : t = records[j].target
         /\ \A j \in Operational \ S : Wanted(j)' = Wanted(j)
<1>1. /\ records \in Seq(RecordType) /\ Len(records) <= machine.capacity
      /\ DOMAIN records = 1 .. Len(records) /\ Len(records) \in Nat
  BY Pending DEF IInv, TypeOK
<1>2. \A j \in DOMAIN records : records[j] \in RecordType
  BY <1>1, ElementOfSeq
<1>3. records' \in Seq(RecordType) /\ DOMAIN records' = DOMAIN records /\ Len(records') = Len(records)
  <2>1. \A j \in 1 .. Len(records) : records'[j] \in RecordType
    BY <1>1, <1>2, ErasedFacts
  <2>. QED BY <1>1, <2>1
<1>4. \A j \in DOMAIN records : records[j] = Erased \/ IsMove(records[j])
  BY DEF IInv, RecordsOK
<1>5. \A j \in DOMAIN records' : records'[j] = IF j \in S THEN Erased ELSE records[j]
  BY <1>3
<1>6. Operational' = Operational \ S
  BY <1>3, <1>5, ErasedFacts DEF Operational
<1>7. \A j \in Operational \ S : records'[j] = records[j]
  BY <1>5, <1>3, Pending
<1>8. (\A j \in DOMAIN records : records[j] = Erased \/ IsMove(records[j]))'
  BY <1>3, <1>4, <1>5 DEF IsMove
<1>9. \A i, j \in Operational' : records'[i].target = records'[j].target => i = j
  BY <1>6, <1>7, Pending
<1>10. RecordsOK'
  BY <1>8, <1>9 DEF RecordsOK
<1>11. \A t : t \in Targets' <=> \E j \in Operational \ S : t = records[j].target
  <2>1. Targets' = {records'[j].target : j \in Operational \ S}
    BY <1>6 DEF Targets
  <2>. QED BY <1>7, <2>1
<1>12. \A j \in Operational \ S : Wanted(j)' = Wanted(j)
  BY <1>7 DEF Wanted
<1>. QED BY <1>1, <1>3, <1>6, <1>7, <1>10, <1>11, <1>12

LEMMA EraseOne ==
  ASSUME IInv, NEW i \in Operational, goal' = goal, machine' = machine, records' = Erase(i)
  PROVE  /\ Operational' = Operational \ {i}
         /\ \A j \in Operational \ {i} : records'[j] = records[j]
         /\ records' \in Seq(RecordType) /\ Len(records') <= machine.capacity
         /\ RecordsOK'
         /\ \A t : t \in Targets' <=> \E j \in Operational \ {i} : t = records[j].target
<1>1. records' = [j \in DOMAIN records |-> IF j \in {i} THEN Erased ELSE records[j]]
  BY OneHalf DEF Erase
<1>. DEFINE S == {i}
<1>2. S \in SUBSET Operational /\ records' = [j \in DOMAIN records |-> IF j \in S THEN Erased ELSE records[j]]
  BY <1>1
<1>. HIDE DEF S
<1>3. /\ Operational' = Operational \ S
      /\ \A j \in Operational \ S : records'[j] = records[j]
      /\ records' \in Seq(RecordType) /\ Len(records') <= machine.capacity /\ RecordsOK'
      /\ \A t : t \in Targets' <=> \E j \in Operational \ S : t = records[j].target
  BY <1>2, Erasing
<1>. QED BY <1>3 DEF S

LEMMA Uncounting ==
  ASSUME IInv, Counted, NEW i \in Operational,
         Operational' = Operational \ {i},
         \A j \in Operational \ {i} : records'[j] = records[j],
         usage' = Unmarked(usage, Halves(i))
  PROVE  Counted' /\ usage' \in [Tracked -> Nat]
<1>1. \A l \in Tracked : usage'[l] = usage[l] - Readers({i}, l)
  BY OneHalf DEF Unmarked
<1>2. \A l \in Tracked : usage'[l] = Readers(Operational \ {i}, l)
  BY <1>1, ReadersWithout DEF Counted
<1>3. \A l : Readers(Operational, l)' = Readers(Operational \ {i}, l)
  <2>1. \A l : {j \in Operational' : records'[j].source = l} = {j \in Operational \ {i} : records[j].source = l}
    OBVIOUS
  <2>. QED BY <2>1 DEF Readers
<1>4. Counted'
  BY <1>2, <1>3 DEF Counted
<1>5. usage' = [l \in Tracked |-> Readers(Operational \ {i}, l)]
  BY <1>2 DEF Unmarked
<1>. QED BY <1>4, <1>5, ReadersWithout

(***************************************************************************)
(* Initially, and while the call's moves are collected.                    *)
(***************************************************************************)
LEMMA ContentType ==
  ASSUME IInv
  PROVE  /\ content \in [Location -> Value]
         /\ records \in Seq(RecordType) /\ Len(records) <= machine.capacity
         /\ usage \in [Tracked -> Nat]
         /\ goal \in [Target -> RecordType \union {NoLocation}]
BY DEF IInv, TypeOK, Value

LEMMA OriginalFacts ==
  ASSUME NEW l \in Location
  PROVE  /\ Original(l) \in Value
         /\ \A g : g.source = l => Has(Original(l), g)
BY DEF Original, Value, Has

LEMMA GetsHas ==
  ASSUME NEW l, NEW g
  PROVE  Gets(l, g) <=> Has(content[l], g)
BY DEF Gets, Has

LEMMA InitEstablishes ==
  ASSUME SingleRegisters, Init
  PROVE  IInv
<1>. USE DEF Init
<1>1. records = <<>> /\ Len(records) = 0 /\ DOMAIN records = {}
  OBVIOUS
<1>2. Operational = {} /\ Targets = {}
  BY <1>1 DEF Operational, Targets
<1>3. machine.capacity \in Nat
  BY SingleFacts DEF Single
<1>4. TypeOK
  <2>1. records \in Seq(RecordType) /\ Len(records) <= machine.capacity
    BY <1>1, <1>3
  <2>2. content \in [Location -> [from : Location \union {NoLocation}, whole : BOOLEAN]]
    <3>1. content \in [Location -> Value]
      BY OriginalFacts
    <3>. QED BY <3>1 DEF Value
  <2>3. /\ goal \in [Target -> RecordType \union {NoLocation}] /\ usage \in [Tracked -> Nat]
    OBVIOUS
  <2>4. /\ machine \in Machines /\ phase \in Phase /\ head \in RecordType
        /\ {temp, hole} \subseteq Location \union {NoLocation}
    BY ErasedFacts DEF Phase
  <2>5. contains64 \in BOOLEAN
    OBVIOUS
  <2>6. next \in 0 .. machine.capacity
    <3>1. next = 0
      OBVIOUS
    <3>. QED BY <1>3, <3>1
  <2>. QED BY <2>1, <2>2, <2>3, <2>4, <2>5, <2>6, Zenon DEF TypeOK
<1>5. RecordsOK /\ Settled /\ Collecting
  BY <1>1, <1>2 DEF RecordsOK, Settled, Collecting
<1>. QED BY <1>2, <1>4, <1>5 DEF IInv

LEMMA NewMove ==
  ASSUME Single, NEW target \in machine.targets, NEW source \in machine.sources[target],
         NEW wide \in machine.widths
  PROVE  LET m == Move(target, source, "normal", wide)
         IN  /\ m.type = "normal" /\ m.target = target /\ m.source = source
             /\ m.wide = wide /\ m \in RecordType /\ m # NoLocation
             /\ target \in Target /\ source \in Target \union Constant /\ wide \in BOOLEAN
             /\ target \in Location /\ source \in Location
<1>1. target \in Target /\ source \in Target \union Constant /\ wide \in BOOLEAN
  BY SingleFacts
<1>2. target \in Location /\ source \in Location
  BY <1>1, Places
<1>3. Move(target, source, "normal", wide) \in RecordType
  BY <1>1, <1>2 DEF Move, RecordType, Type
<1>. QED BY <1>1, <1>2, <1>3, GoalAssumption DEF Move

LEMMA PushKeeps ==
  ASSUME Single, IInv, machine' = machine,
         NEW target \in machine.targets, NEW wide \in machine.widths,
         NEW source \in machine.sources[target],
         Push(target, source, wide)
  PROVE  IInv'
<1>. PICK m : m = Move(target, source, "normal", wide)
  OBVIOUS
<1>1. /\ m.type = "normal" /\ m.target = target /\ m.source = source
      /\ m.wide = wide /\ m \in RecordType /\ m # NoLocation
      /\ target \in Target /\ source \in Target \union Constant /\ wide \in BOOLEAN
      /\ target \in Location /\ source \in Location
  BY NewMove
<1>2. /\ phase = "collect" /\ Len(records) < machine.capacity /\ target \in Unassigned
      /\ records' = IF target = source THEN records ELSE Append(records, m)
      /\ goal' = [goal EXCEPT ![target] = m]
      /\ UNCHANGED <<usage, content, phase, cycle>>
  BY DEF Push
<1>3. goal[target] = NoLocation /\ goal'[target] = m /\ goal' \in [Target -> RecordType \union {NoLocation}]
      /\ \A t \in Target : t # target => goal'[t] = goal[t]
  BY <1>1, <1>2, ContentType DEF Unassigned
<1>4. \A j \in DOMAIN records : IsMove(records[j]) /\ records[j].target # target
  <2>1. \A j \in DOMAIN records : IsMove(records[j])
    BY <1>2 DEF IInv, Collecting, RecordsOK
  <2>. QED BY <1>3, <2>1 DEF IsMove
<1>5. \A l \in Location : content[l] = Original(l)
  BY <1>2 DEF IInv, Collecting
<1>6. Has(content[source], m)
  BY <1>1, <1>5, OriginalFacts
<1>7. \A j \in DOMAIN records : goal'[records[j].target] = goal[records[j].target]
  BY <1>3, <1>4 DEF IsMove
<1>8. \A j \in DOMAIN records : (records[j] # Erased /\ goal'[records[j].target] # NoLocation
                                   /\ (goal'[records[j].target].wide <=> records[j].wide))
  BY <1>4, <1>7, ErasedFacts DEF IsMove
<1>9. \A j \in DOMAIN records : Has(content[records[j].source], goal[records[j].target])
  <2>1. Operational = DOMAIN records
    BY <1>4, ErasedFacts, Pending, ZenonT(60)
  <2>. QED BY <1>2, <2>1, GetsHas DEF IInv, Held, Wanted
<1>10. CASE target = source
  <2>1. records' = records /\ Operational' = Operational /\ Targets' = Targets
    BY <1>2, <1>10 DEF Operational, Targets
  <2>2. TypeOK'
    BY <1>2, <1>3, <2>1 DEF IInv, TypeOK, cycle
  <2>3. RecordsOK'
    <3>1. (\A j \in DOMAIN records : records[j] = Erased \/ IsMove(records[j]))'
      BY <1>4, <1>8, <2>1 DEF IsMove
    <3>. QED BY <2>1, <3>1 DEF RecordsOK, IInv
  <2>4. Settled'
    <3>1. \A t \in Target : t # target => Has(content'[t], goal'[t]) \/ goal'[t] = NoLocation \/ t \in Targets'
      BY <1>2, <1>3, <2>1, GetsHas DEF IInv, Settled
    <3>2. Has(content'[target], goal'[target])
      BY <1>2, <1>3, <1>6, <1>10
    <3>. QED BY <3>1, <3>2 DEF Settled, Gets, Has
  <2>5. Collecting'
    BY <1>2, <1>4, <2>1 DEF IInv, Collecting
  <2>6. (\A i \in Operational : Held(i))'
    BY <1>2, <1>7, <1>9, <2>1, Pending DEF Held, Gets, Has, Wanted
  <2>. QED BY <1>2, <2>2, <2>3, <2>4, <2>5, <2>6 DEF IInv
<1>11. CASE target # source
  <2>1. /\ records \in Seq(RecordType) /\ Len(records) \in Nat
        /\ records' \in Seq(RecordType) /\ Len(records') = Len(records) + 1
        /\ DOMAIN records' = 1 .. Len(records) + 1 /\ DOMAIN records = 1 .. Len(records)
        /\ \A j \in DOMAIN records : records'[j] = records[j]
        /\ records'[Len(records) + 1] = m
    BY <1>1, <1>2, <1>11, ContentType, AppendProperties, LenProperties
  <2>2. Len(records') <= machine.capacity
    BY <1>2, <2>1, SingleFacts
  <2>3. Operational = DOMAIN records /\ Operational' = DOMAIN records'
    <3>1. \A j \in DOMAIN records : records[j].type = "normal"
      BY <1>4, MoveFacts
    <3>. QED BY <1>1, <2>1, <3>1 DEF Operational
  <2>4. TypeOK'
    BY <1>2, <1>3, <2>1, <2>2 DEF IInv, TypeOK, cycle
  <2>5. (\A j \in DOMAIN records : records[j] # Erased /\ IsMove(records[j]))'
    <3>. SUFFICES ASSUME NEW j \in 1 .. Len(records) + 1
                  PROVE  (records[j] # Erased /\ IsMove(records[j]))'
      BY <2>1
    <3>1. CASE j \in DOMAIN records
      BY <1>4, <1>8, <2>1, <3>1 DEF IsMove
    <3>2. CASE j = Len(records) + 1
      BY <1>1, <1>3, <1>11, <2>1, <3>2, ErasedFacts DEF IsMove
    <3>. QED BY <2>1, <3>1, <3>2
  <2>6. \A i, j \in DOMAIN records' : records'[i].target = records'[j].target => i = j
    BY <1>1, <1>4, <2>1, <2>3, Pending
  <2>7. RecordsOK'
    BY <2>3, <2>5, <2>6 DEF RecordsOK
  <2>8. Settled'
    <3>. SUFFICES ASSUME NEW t \in Target
                  PROVE  goal'[t] = NoLocation \/ t \in Targets' \/ Has(content'[t], goal'[t])
      BY DEF Settled, Gets, Has
    <3>1. CASE t = target
      BY <1>1, <2>1, <2>3, <3>1 DEF Targets
    <3>2. CASE t # target
      <4>1. t \in Targets => t \in Targets'
        BY <2>1, <2>3 DEF Targets
      <4>. QED BY <1>2, <1>3, <3>2, <4>1, GetsHas DEF IInv, Settled
    <3>. QED BY <3>1, <3>2
  <2>9. Collecting'
    BY <1>2, <2>5 DEF IInv, Collecting
  <2>10. (\A i \in Operational : Held(i))'
    <3>. SUFFICES ASSUME NEW j \in 1 .. Len(records) + 1
                  PROVE  Has(content'[records'[j].source], goal'[records'[j].target])
      BY <2>1, <2>3 DEF Held, Gets, Has, Wanted
    <3>1. CASE j \in DOMAIN records
      BY <1>2, <1>7, <1>9, <2>1, <3>1
    <3>2. CASE j = Len(records) + 1
      BY <1>1, <1>2, <1>3, <1>6, <2>1, <3>2
    <3>. QED BY <2>1, <3>1, <3>2
  <2>. QED BY <1>2, <2>4, <2>7, <2>8, <2>9, <2>10 DEF IInv
<1>. QED BY <1>10, <1>11

LEMMA ResolveLinearKeeps ==
  ASSUME Single, IInv, machine' = machine, ResolveLinear
  PROVE  IInv'
<1>1. /\ phase = "collect" /\ phase' = "linear"
      /\ usage' = [l \in Tracked |-> Readers(DOMAIN records, l)]
      /\ UNCHANGED <<records, content, goal, cycle>>
  BY DEF ResolveLinear
<1>2. Operational = DOMAIN records
  BY <1>1, Pending DEF IInv, Collecting
<1>3. Operational' = Operational /\ Targets' = Targets
  BY <1>1 DEF Operational, Targets
<1>4. \A l : Readers(Operational, l)' = Readers(Operational, l)
  BY <1>1, <1>3 DEF Readers
<1>5. Counted'
  BY <1>1, <1>2, <1>4 DEF Counted
<1>6. usage' \in [Tracked -> Nat]
  BY <1>1, <1>2, ReadersFacts
<1>7. TypeOK'
  BY <1>1, <1>6 DEF IInv, TypeOK, Phase, cycle
<1>8. RecordsOK'
  BY <1>1, <1>3 DEF IInv, RecordsOK, IsMove
<1>9. Settled'
  BY <1>1, <1>3 DEF IInv, Settled, Gets
<1>10. (\A i \in Operational : Held(i))'
  BY <1>1, <1>3 DEF IInv, Held, Gets, Wanted
<1>. QED BY <1>1, <1>5, <1>7, <1>8, <1>9, <1>10 DEF IInv

LEMMA FinishKeeps ==
  ASSUME Single, IInv, machine' = machine, Finish
  PROVE  IInv'
<1>1. /\ phase = "linear" /\ phase' = "done" /\ UNCHANGED <<records, usage, content, goal, cycle>>
      /\ \A i \in DOMAIN records : records[i] = Erased
  BY DEF Finish
<1>2. Operational = {}
  BY <1>1, Pending
<1>3. Operational' = {} /\ Targets' = Targets
  BY <1>1, <1>2 DEF Operational, Targets
<1>4. TypeOK'
  BY <1>1 DEF IInv, TypeOK, Phase, cycle
<1>5. RecordsOK'
  BY <1>1, <1>3 DEF IInv, RecordsOK, IsMove
<1>6. Settled'
  BY <1>1, <1>3 DEF IInv, Settled, Gets
<1>. QED BY <1>1, <1>3, <1>4, <1>5, <1>6 DEF IInv

(***************************************************************************)
(* A move to a target that no pending record reads.                        *)
(***************************************************************************)
\* The values that are not at the target stay; the target gets the value.
LEMMA MoveTo ==
  ASSUME Single, IInv, NEW r, r.type = "normal", r.wide \in BOOLEAN,
         NEW target \in Location, NEW source \in Location,
         content' = AfterMove(r, target, source)
  PROVE  /\ content' \in [Location -> Value]
         /\ \A l \in Location : \A g : l # target /\ Has(content[l], g) => Has(content'[l], g)
         /\ \A g : (g.wide => r.wide) /\ Has(content[source], g) => Has(content'[target], g)
<1>1. content \in [Location -> Value]
  BY ContentType
<1>2. /\ AfterMove(r, target, source) \in [Location -> Value]
      /\ \A l \in Location : l # target => AfterMove(r, target, source)[l] = content[l]
      /\ \A g : (g.wide => r.wide) /\ Has(content[source], g)
                   => Has(AfterMove(r, target, source)[target], g)
  BY <1>1, AfterMoveFacts
<1>. QED BY <1>2, Zenon

LEMMA HeldHas ==
  ASSUME IInv, NEW i \in Operational
  PROVE  /\ Held(i) <=> Has(content[records[i].source], goal[records[i].target])
         /\ goal[records[i].target] # NoLocation
         /\ goal[records[i].target].wide <=> records[i].wide
         /\ records[i].wide \in BOOLEAN
BY Pending, GetsHas DEF Held, Wanted, IsMove

\* A record moved and erased, nobody else reading its target.
LEMMA MoveOne ==
  ASSUME Single, IInv, goal' = goal, machine' = machine, NEW i \in Operational, Held(i),
         content' = AfterMove(records[i], records[i].target, records[i].source),
         records' = Erase(i),
         \A j \in Operational \ {i} : records[j].source # records[i].target /\ Held(j)
  PROVE  /\ content' \in [Location -> Value]
         /\ Operational' = Operational \ {i} /\ RecordsOK'
         /\ \A j \in Operational \ {i} : records'[j] = records[j]
         /\ records' \in Seq(RecordType) /\ Len(records') <= machine.capacity
         /\ (\A j \in Operational : Held(j))'
         /\ \A t : t \in Targets' <=> \E j \in Operational \ {i} : t = records[j].target
         /\ \A l \in Location : \A g : l # records[i].target /\ Has(content[l], g) => Has(content'[l], g)
         /\ Has(content'[records[i].target], goal[records[i].target])
<1>2. /\ Operational' = Operational \ {i}
      /\ \A j \in Operational \ {i} : records'[j] = records[j]
      /\ records' \in Seq(RecordType) /\ Len(records') <= machine.capacity /\ RecordsOK'
      /\ \A t : t \in Targets' <=> \E j \in Operational \ {i} : t = records[j].target
  BY EraseOne
<1>3. \A j \in Operational : records[j].source \in Location /\ records[j].target \in Location
                             /\ records[j].type = "normal"
  BY Pending, MoveFacts
<1>4. /\ content' \in [Location -> Value]
      /\ \A l \in Location : \A g : l # records[i].target /\ Has(content[l], g) => Has(content'[l], g)
      /\ \A g : (g.wide => records[i].wide) /\ Has(content[records[i].source], g)
                   => Has(content'[records[i].target], g)
  <2>1. records[i].wide \in BOOLEAN
    BY HeldHas
  <2>. QED BY <1>3, <2>1, MoveTo
<1>5. Has(content'[records[i].target], goal[records[i].target])
  BY <1>4, HeldHas
<1>6. \A j \in Operational \ {i} : Has(content[records[j].source], goal[records[j].target])
  BY HeldHas
<1>7. \A j \in Operational \ {i} : Has(content'[records'[j].source], goal'[records'[j].target])
  BY <1>2, <1>3, <1>4, <1>6
<1>8. (\A j \in Operational : Held(j))'
  BY <1>2, <1>7 DEF Held, Gets, Has, Wanted
<1>. QED BY <1>2, <1>4, <1>5, <1>8

LEMMA BreakCycleKeeps ==
  ASSUME Single, IInv, machine' = machine, BreakCycle
  PROVE  IInv'
<1>1. PICK i \in Operational, t \in machine.temps :
        /\ content' = AfterMove(records[i], t, records[i].source)
        /\ usage' = Unmarked(usage, Halves(i))
        /\ records' = Erase(i)
        /\ head' = records[i] /\ temp' = t /\ hole' = records[i].source
  BY DEF BreakCycle
<1>2. /\ phase = "linear" /\ Movable = {} /\ phase' = "hole"
      /\ UNCHANGED <<goal, next, contains64>>
  BY DEF BreakCycle
<1>. PICK r : r = records[i]
  OBVIOUS
<1>3. t \in Temp /\ t \in Location /\ t \notin Target /\ t \notin Constant
  BY SingleFacts, Places
<1>4. /\ IsMove(r) /\ r.type = "normal" /\ r.source \in Location /\ r.target \in Location
      /\ r.target \in Target /\ r.source # r.target
  BY Pending, MoveFacts
<1>5. Counted /\ \A j \in Operational : Held(j)
  BY <1>2 DEF IInv
<1>6. /\ SourcesDistinct /\ \A j \in Operational : records[j].source \in Targets
  BY <1>2, <1>5, Circular
<1>7. r.wide \in BOOLEAN /\ (goal[r.target].wide <=> r.wide) /\ Has(content[r.source], goal[r.target])
  BY <1>5, HeldHas
<1>8. /\ content' \in [Location -> Value]
      /\ \A l \in Location : \A g : l # t /\ Has(content[l], g) => Has(content'[l], g)
      /\ \A g : (g.wide => r.wide) /\ Has(content[r.source], g) => Has(content'[t], g)
  BY <1>1, <1>3, <1>4, <1>7, MoveTo
<1>9. /\ Operational' = Operational \ {i}
      /\ \A j \in Operational \ {i} : records'[j] = records[j]
      /\ records' \in Seq(RecordType) /\ Len(records') <= machine.capacity /\ RecordsOK'
      /\ \A u : u \in Targets' <=> \E j \in Operational \ {i} : u = records[j].target
  BY <1>1, <1>2, EraseOne
<1>10. Counted' /\ usage' \in [Tracked -> Nat]
  BY <1>1, <1>5, <1>9, Uncounting
<1>11. TypeOK'
  <2>1. /\ machine' \in Machines /\ goal' \in [Target -> RecordType \union {NoLocation}]
        /\ next' \in 0 .. machine'.capacity /\ contains64' \in BOOLEAN
    BY <1>2 DEF IInv, TypeOK
  <2>2. head' \in RecordType /\ {temp', hole'} \subseteq Location \union {NoLocation}
    <3>1. r \in RecordType
      BY ContentType, Pending, ElementOfSeq
    <3>. QED BY <1>1, <1>3, <1>4, <3>1
  <2>. QED BY <1>2, <1>8, <1>9, <1>10, <2>1, <2>2 DEF TypeOK, Value, Phase
<1>12. \A j \in Operational : /\ records[j].source \in Location /\ records[j].source # t
                              /\ records[j].target # r.target \/ j = i
  BY <1>3, Pending, MoveFacts
<1>13. (\A j \in Operational : Held(j))'
  <2>1. \A j \in Operational : Has(content'[records[j].source], goal[records[j].target])
    BY <1>5, <1>8, <1>12, HeldHas
  <2>. QED BY <1>2, <1>9, <2>1 DEF Held, Gets, Has, Wanted
<1>14. Settled'
  <2>. SUFFICES ASSUME NEW u \in Target
                PROVE  \/ goal'[u] = NoLocation \/ u \in Targets' \/ u = head'.target
                       \/ Has(content'[u], goal'[u])
    BY <1>2 DEF Settled, Gets, Has
  <2>1. u \in Targets => u \in Targets' \/ u = head'.target
    BY <1>1, <1>9 DEF Targets
  <2>2. u # t /\ u \in Location
    BY <1>3, Places
  <2>3. goal[u] = NoLocation \/ u \in Targets \/ Has(content[u], goal[u])
    BY <1>2, GetsHas DEF IInv, Settled
  <2>. QED BY <1>2, <1>8, <2>1, <2>2, <2>3
<1>15. WithHole'
  <2>1. SourcesDistinct'
    BY <1>6, <1>9 DEF SourcesDistinct
  <2>2. IsMove(head)'
    BY <1>1, <1>2, <1>4 DEF IsMove
  <2>3. Gets(temp, goal[head.target])'
    BY <1>1, <1>2, <1>7, <1>8 DEF Gets, Has
  <2>4. \A u \in Targets : u \in Targets' \/ u = r.target
    BY <1>9 DEF Targets
  <2>5. r.target \notin Targets'
    BY <1>9, <1>12
  <2>6. \A j \in Operational \ {i} : records[j].source # r.source /\ records[j].source \in Targets
    BY <1>6 DEF SourcesDistinct
  <2>7. (\A j \in Operational : records[j].source # hole /\ records[j].source \in Targets \union {head.target})'
    BY <1>1, <1>9, <2>4, <2>6
  <2>8. hole' \in Targets' \union {head'.target}
    BY <1>1, <1>6, <2>4
  <2>. QED BY <1>1, <1>3, <2>1, <2>2, <2>3, <2>5, <2>7, <2>8 DEF WithHole
<1>. QED BY <1>2, <1>9, <1>10, <1>11, <1>13, <1>14, <1>15 DEF IInv

LEMMA FillHoleKeeps ==
  ASSUME Single, IInv, machine' = machine, FillHole
  PROVE  IInv'
<1>1. PICK i \in Operational :
        /\ records[i].target = hole
        /\ content' = AfterMove(records[i], records[i].target, records[i].source)
        /\ usage' = Unmarked(usage, Halves(i))
        /\ records' = Erase(i)
        /\ hole' = records[i].source
  BY DEF FillHole, Targeting
<1>2. phase = "hole" /\ UNCHANGED <<goal, phase, head, temp, next, contains64>>
  BY DEF FillHole
<1>. PICK r : r = records[i]
  OBVIOUS
<1>3. /\ IsMove(r) /\ r.type = "normal" /\ r.source \in Location /\ r.target \in Location
      /\ r.target \in Target /\ r.source # r.target /\ r.target = hole
  BY <1>1, Pending, MoveFacts
<1>4. Counted /\ WithHole /\ \A j \in Operational : Held(j)
  BY <1>2 DEF IInv
<1>5. /\ SourcesDistinct /\ IsMove(head) /\ temp \in Temp
      /\ Gets(temp, goal[head.target])
      /\ hole \in Targets \union {head.target} /\ head.target \notin Targets
      /\ \A j \in Operational : /\ records[j].source # hole
                                /\ records[j].source \in Targets \union {head.target}
  BY <1>4 DEF WithHole
<1>6. /\ content' \in [Location -> Value]
      /\ Operational' = Operational \ {i} /\ RecordsOK'
      /\ \A j \in Operational \ {i} : records'[j] = records[j]
      /\ records' \in Seq(RecordType) /\ Len(records') <= machine.capacity
      /\ (\A j \in Operational : Held(j))'
      /\ \A t : t \in Targets' <=> \E j \in Operational \ {i} : t = records[j].target
      /\ \A l \in Location : \A g : l # records[i].target /\ Has(content[l], g) => Has(content'[l], g)
      /\ Has(content'[records[i].target], goal[records[i].target])
  BY <1>1, <1>2, <1>4, <1>5, MoveOne
<1>7. Counted' /\ usage' \in [Tracked -> Nat]
  BY <1>1, <1>4, <1>6, Uncounting
<1>8. TypeOK'
  <2>1. /\ machine' \in Machines /\ goal' \in [Target -> RecordType \union {NoLocation}]
        /\ next' \in 0 .. machine'.capacity /\ contains64' \in BOOLEAN
        /\ head' \in RecordType
    BY <1>2 DEF IInv, TypeOK
  <2>2. {temp', hole'} \subseteq Location \union {NoLocation}
    BY <1>1, <1>2, <1>3 DEF IInv, TypeOK
  <2>. QED BY <1>2, <1>6, <1>7, <2>1, <2>2 DEF TypeOK, Value, Phase
<1>9. Settled'
  <2>. SUFFICES ASSUME NEW u \in Target
                PROVE  \/ goal'[u] = NoLocation \/ u \in Targets' \/ u = head'.target
                       \/ Has(content'[u], goal'[u])
    BY <1>2 DEF Settled, Gets, Has
  <2>1. u \in Targets => u \in Targets' \/ u = r.target
    BY <1>6 DEF Targets
  <2>2. u \in Location
    BY Places
  <2>3. goal[u] = NoLocation \/ u \in Targets \/ u = head.target \/ Has(content[u], goal[u])
    BY <1>2, GetsHas DEF IInv, Settled
  <2>. QED BY <1>2, <1>6, <2>1, <2>2, <2>3
<1>10. WithHole'
  <2>1. SourcesDistinct'
    BY <1>5, <1>6 DEF SourcesDistinct
  <2>2. IsMove(head)'
    BY <1>2, <1>5 DEF IsMove
  <2>3. Gets(temp, goal[head.target])'
    <3>1. temp \in Location /\ temp # r.target
      BY <1>3, <1>5, Places
    <3>2. Has(content[temp], goal[head.target])
      BY <1>5, GetsHas
    <3>. QED BY <1>2, <1>6, <3>1, <3>2 DEF Gets, Has
  <2>4. \A u \in Targets : u \in Targets' \/ u = r.target
    BY <1>6 DEF Targets
  <2>5. \A u \in Targets' : u \in Targets
    BY <1>6 DEF Targets
  <2>6. \A j \in Operational \ {i} : records[j].source # r.source
    BY <1>5 DEF SourcesDistinct
  <2>7. (\A j \in Operational : records[j].source # hole /\ records[j].source \in Targets \union {head.target})'
    <3>1. \A j \in Operational \ {i} : /\ records[j].source # hole'
                                       /\ records[j].source \in Targets' \union {head'.target}
      BY <1>1, <1>2, <1>3, <1>5, <2>4, <2>6
    <3>. QED BY <1>6, <3>1
  <2>8. hole' \in Targets' \union {head'.target}
    BY <1>1, <1>2, <1>3, <1>5, <2>4
  <2>. QED BY <1>2, <1>5, <2>1, <2>2, <2>3, <2>5, <2>7, <2>8 DEF WithHole
<1>. QED BY <1>2, <1>6, <1>7, <1>8, <1>9, <1>10 DEF IInv

LEMMA CloseCycleKeeps ==
  ASSUME Single, IInv, machine' = machine, CloseCycle
  PROVE  IInv'
<1>1. /\ phase = "hole" /\ Targeting(hole) = {}
      /\ content' = AfterMove(head, head.target, temp)
      /\ phase' = "linear"
      /\ head' = Erased /\ temp' = NoLocation /\ hole' = NoLocation
      /\ UNCHANGED <<records, usage, goal, next, contains64>>
  BY DEF CloseCycle
<1>2. Counted /\ WithHole /\ \A j \in Operational : Held(j)
  BY <1>1 DEF IInv
<1>3. /\ IsMove(head) /\ temp \in Temp
      /\ Gets(temp, goal[head.target])
      /\ hole \in Targets \union {head.target} /\ head.target \notin Targets
      /\ \A j \in Operational : records[j].source # hole
  BY <1>2 DEF WithHole
<1>4. hole = head.target
  BY <1>1, <1>3 DEF Targets, Targeting
<1>5. /\ head.type = "normal" /\ head.target \in Location /\ head.target \in Target
      /\ temp \in Location
      /\ head.wide \in BOOLEAN /\ (goal[head.target].wide <=> head.wide)
  BY <1>3, MoveFacts, Places DEF IsMove
<1>6. /\ content' \in [Location -> Value]
      /\ \A l \in Location : \A g : l # head.target /\ Has(content[l], g) => Has(content'[l], g)
      /\ \A g : (g.wide => head.wide) /\ Has(content[temp], g) => Has(content'[head.target], g)
  BY <1>1, <1>5, MoveTo
<1>7. Has(content'[head.target], goal[head.target])
  BY <1>3, <1>5, <1>6, GetsHas
<1>8. Operational' = Operational /\ Targets' = Targets
  BY <1>1 DEF Operational, Targets
<1>9. (\A j \in Operational : Held(j))'
  <2>1. \A j \in Operational : /\ records[j].source \in Location
                               /\ records[j].source # head.target
                               /\ Has(content[records[j].source], goal[records[j].target])
    BY <1>2, <1>3, <1>4, Pending, MoveFacts, HeldHas
  <2>2. \A j \in Operational : Has(content'[records[j].source], goal[records[j].target])
    BY <1>6, <2>1
  <2>. QED BY <1>1, <1>8, <2>2 DEF Held, Gets, Has, Wanted
<1>10. Settled'
  <2>. SUFFICES ASSUME NEW u \in Target
                PROVE  goal'[u] = NoLocation \/ u \in Targets' \/ Has(content'[u], goal'[u])
    BY <1>1 DEF Settled, Gets, Has
  <2>1. u \in Location
    BY Places
  <2>2. goal[u] = NoLocation \/ u \in Targets \/ u = head.target \/ Has(content[u], goal[u])
    BY <1>1, GetsHas DEF IInv, Settled
  <2>. QED BY <1>1, <1>6, <1>7, <1>8, <2>1, <2>2
<1>11. TypeOK'
  <2>1. /\ machine' \in Machines /\ goal' \in [Target -> RecordType \union {NoLocation}]
        /\ next' \in 0 .. machine'.capacity /\ contains64' \in BOOLEAN
        /\ records' \in Seq(RecordType) /\ Len(records') <= machine'.capacity
        /\ usage' \in [Tracked -> Nat]
    BY <1>1 DEF IInv, TypeOK
  <2>2. head' \in RecordType /\ {temp', hole'} \subseteq Location \union {NoLocation}
    BY <1>1, ErasedFacts
  <2>. QED BY <1>1, <1>6, <2>1, <2>2 DEF TypeOK, Value, Phase
<1>12. RecordsOK'
  BY <1>1, <1>8 DEF IInv, RecordsOK, IsMove
<1>13. Counted'
  BY <1>1, <1>2, <1>8 DEF Counted, Readers
<1>. QED BY <1>1, <1>9, <1>10, <1>11, <1>12, <1>13 DEF IInv

(***************************************************************************)
(* tryMove, with the records that read the target from now on.             *)
(***************************************************************************)
Redirected(q, location) == [q EXCEPT !.source = location]

LEMMA RedirectedFacts ==
  ASSUME NEW q \in RecordType, NEW l \in Location
  PROVE  /\ Redirected(q, l) \in RecordType
         /\ Redirected(q, l).source = l /\ Redirected(q, l).target = q.target
         /\ Redirected(q, l).type = q.type /\ Redirected(q, l).wide = q.wide
BY DEF RecordType, Redirected

\* the records after the move of record i, of which those of R read its target
LEMMA Redirecting ==
  ASSUME IInv, goal' = goal, machine' = machine, NEW i \in Operational,
         NEW R \in SUBSET (Operational \ {i}),
         \A j \in R : records[j].source = records[i].source,
         records' = [j \in DOMAIN records |->
                       IF j \in R THEN Redirected(records[j], records[i].target)
                       ELSE IF j = i THEN Erased ELSE records[j]]
  PROVE  /\ Operational' = Operational \ {i}
         /\ \A j \in Operational \ {i} :
              /\ records'[j].target = records[j].target
              /\ records'[j].wide = records[j].wide
              /\ records'[j].source = IF j \in R THEN records[i].target ELSE records[j].source
         /\ records' \in Seq(RecordType) /\ Len(records') <= machine.capacity
         /\ RecordsOK'
         /\ \A t : t \in Targets' <=> \E j \in Operational \ {i} : t = records[j].target
<1>1. /\ records \in Seq(RecordType) /\ Len(records) <= machine.capacity
      /\ DOMAIN records = 1 .. Len(records) /\ Len(records) \in Nat
  BY Pending DEF IInv, TypeOK
<1>2. \A j \in DOMAIN records : records[j] \in RecordType
  BY <1>1, ElementOfSeq
<1>. PICK t : t = records[i].target
  OBVIOUS
<1>3. t \in Target /\ t \in Location /\ t # records[i].source
  BY Pending, MoveFacts
<1>4. \A j \in R : /\ Redirected(records[j], t) \in RecordType
                   /\ Redirected(records[j], t).source = t
                   /\ Redirected(records[j], t).target = records[j].target
                   /\ Redirected(records[j], t).type = records[j].type
                   /\ Redirected(records[j], t).wide = records[j].wide
  BY <1>2, <1>3, RedirectedFacts, Pending
<1>5. DOMAIN records' = DOMAIN records
      /\ \A j \in DOMAIN records : records'[j] = IF j \in R THEN Redirected(records[j], t)
                                                 ELSE IF j = i THEN Erased ELSE records[j]
  OBVIOUS
<1>6. records' \in Seq(RecordType) /\ Len(records') = Len(records)
  <2>1. \A j \in 1 .. Len(records) : records'[j] \in RecordType
    BY <1>1, <1>2, <1>4, <1>5, ErasedFacts
  <2>. QED BY <1>1, <2>1
<1>7. \A j \in Operational \ {i} :
        /\ records'[j].target = records[j].target /\ records'[j].wide = records[j].wide
        /\ records'[j].type = records[j].type
        /\ records'[j].source = IF j \in R THEN t ELSE records[j].source
  BY <1>4, <1>5, Pending
<1>8. \A j \in DOMAIN records : j \notin Operational \ {i} => records'[j] = Erased
  BY <1>5, Pending
<1>9. \A j \in DOMAIN records : j \in Operational \ {i} =>
        /\ records'[j].type = "normal" /\ records'[j].target \in Target
        /\ records'[j].source \in Target \union Constant
        /\ records'[j].source # records'[j].target /\ records'[j].wide \in BOOLEAN
        /\ goal[records'[j].target] # NoLocation
        /\ (goal[records'[j].target].wide <=> records'[j].wide)
  <2>. SUFFICES ASSUME NEW j \in Operational \ {i}
                PROVE  /\ records'[j].type = "normal" /\ records'[j].target \in Target
                       /\ records'[j].source \in Target \union Constant
                       /\ records'[j].source # records'[j].target /\ records'[j].wide \in BOOLEAN
                       /\ goal[records'[j].target] # NoLocation
                       /\ (goal[records'[j].target].wide <=> records'[j].wide)
    OBVIOUS
  <2>1. IsMove(records[j]) /\ records[j].target # t
    BY Pending
  <2>2. records'[j].source \in Target \union Constant /\ records'[j].source # records'[j].target
    BY <1>3, <1>7, <2>1, MoveFacts
  <2>3. /\ records'[j].type = "normal" /\ records'[j].target \in Target
        /\ goal[records'[j].target] # NoLocation
    BY <1>7, <2>1 DEF IsMove
  <2>4. records'[j].wide \in BOOLEAN /\ (goal[records'[j].target].wide <=> records'[j].wide)
    BY <1>7, <2>1, Zenon DEF IsMove
  <2>. QED BY <2>2, <2>3, <2>4
<1>10. Operational' = Operational \ {i}
  BY <1>5, <1>8, <1>9, ErasedFacts, Pending DEF Operational
<1>11. RecordsOK'
  <2>1. (\A j \in DOMAIN records : records[j] = Erased \/ IsMove(records[j]))'
    BY <1>5, <1>8, <1>9 DEF IsMove
  <2>2. \A j, k \in Operational' : records'[j].target = records'[k].target => j = k
    BY <1>7, <1>10, Pending
  <2>. QED BY <2>1, <2>2 DEF RecordsOK
<1>12. \A u : u \in Targets' <=> \E j \in Operational \ {i} : u = records[j].target
  <2>1. Targets' = {records'[j].target : j \in Operational \ {i}}
    BY <1>10 DEF Targets
  <2>. QED BY <1>7, <2>1
<1>. QED BY <1>1, <1>6, <1>7, <1>10, <1>11, <1>12

\* what the usage maps count then
LEMMA Recounting ==
  ASSUME IInv, Counted, NEW i \in Operational, NEW R \in SUBSET (Operational \ {i}),
         \A j \in R : records[j].source = records[i].source,
         Operational' = Operational \ {i},
         \A j \in Operational \ {i} :
           records'[j].source = IF j \in R THEN records[i].target ELSE records[j].source,
         NEW l \in Tracked
  PROVE  /\ Readers(Operational, l)' \in Nat
         /\ Readers(Operational, l)' =
              IF l = records[i].source THEN Unmarked(usage, {i})[l] - Cardinality(R)
              ELSE IF l = records[i].target THEN Unmarked(usage, {i})[l] + Cardinality(R)
              ELSE Unmarked(usage, {i})[l]
<1>. DEFINE A == {j \in Operational \ {i} : records[j].source = l}
            B == {j \in Operational \ {i} : records'[j].source = l}
<1>1. IsFiniteSet(A) /\ IsFiniteSet(B) /\ IsFiniteSet(R)
  <2>1. IsFiniteSet(Operational) /\ A \subseteq Operational /\ B \subseteq Operational /\ R \subseteq Operational
    BY Pending
  <2>. QED BY <2>1, FS_Subset
<1>2. Unmarked(usage, {i})[l] = Cardinality(A)
  <2>1. Unmarked(usage, {i})[l] = usage[l] - Readers({i}, l)
    BY DEF Unmarked
  <2>2. usage[l] = Readers(Operational, l)
    BY DEF Counted
  <2>3. Readers(Operational \ {i}, l) = Readers(Operational, l) - Readers({i}, l)
    BY ReadersWithout
  <2>4. Readers(Operational \ {i}, l) = Cardinality(A)
    BY DEF Readers
  <2>. QED BY <2>1, <2>2, <2>3, <2>4
<1>3. Readers(Operational, l)' = Cardinality(B)
  BY DEF Readers
<1>4. Cardinality(A) \in Nat /\ Cardinality(B) \in Nat /\ Cardinality(R) \in Nat
  BY <1>1, FS_CardinalityType
<1>5. records[i].source # records[i].target
  BY Pending, MoveFacts
<1>6. CASE l = records[i].source
  <2>1. B = A \ R /\ A \cap R = R
    BY <1>5, <1>6
  <2>2. Cardinality(B) = Cardinality(A) - Cardinality(R)
    BY <1>1, <2>1, FS_Difference
  <2>. QED BY <1>2, <1>3, <1>4, <1>6, <2>2
<1>7. CASE l = records[i].target
  <2>1. B = A \cup R /\ A \cap R = {}
    BY <1>5, <1>7
  <2>2. Cardinality(B) = Cardinality(A) + Cardinality(R) - Cardinality({})
    BY <1>1, <2>1, FS_Union
  <2>3. Cardinality(B) = Cardinality(A) + Cardinality(R)
    BY <1>4, <2>2, FS_EmptySet
  <2>. QED BY <1>2, <1>3, <1>4, <1>5, <1>7, <2>3
<1>8. CASE l # records[i].source /\ l # records[i].target
  <2>1. B = A
    BY <1>8
  <2>. QED BY <1>2, <1>3, <1>4, <1>8, <2>1
<1>. QED BY <1>6, <1>7, <1>8

\* what tryMove does with record i and the records R that read its value
Moved(i, R) ==
  /\ R = Replaced(records[i], Erase(i))
  /\ content' = AfterMove(records[i], records[i].target, records[i].source)
  /\ records' = [j \in DOMAIN records |->
                   IF j \in R THEN [Erase(i)[j] EXCEPT !.source = records[i].target]
                              ELSE Erase(i)[j]]
  /\ usage' = [l \in Tracked |->
                 IF l = records[i].source THEN Unmarked(usage, Halves(i))[l] - Cardinality(R)
                 ELSE IF l = records[i].target THEN Unmarked(usage, Halves(i))[l] + Cardinality(R)
                 ELSE Unmarked(usage, Halves(i))[l]]

LEMMA TryMoveKeeps ==
  ASSUME Single, IInv, machine' = machine, TryMove
  PROVE  IInv'
<1>1. phase = "linear" /\ UNCHANGED <<goal, phase, cycle>>
  BY DEF TryMove
<1>0. PICK i \in Movable : Moved(i, Replaced(records[i], Erase(i)))
  BY DEF TryMove, Moved
<1>20. PICK R : R = Replaced(records[i], Erase(i))
  OBVIOUS
<1>2. Moved(i, R)
  BY <1>0, <1>20, Zenon
<1>3. i \in Operational /\ usage[records[i].target] = 0 /\ Halves(i) = {i} /\ i \in DOMAIN records
  BY OneHalf, Pending DEF Movable, TargetFree
<1>. PICK r : r = records[i]
  OBVIOUS
<1>4. /\ IsMove(r) /\ r.type = "normal" /\ r.source \in Location /\ r.target \in Location
      /\ r.target \in Target /\ r.source # r.target /\ r.target \in Tracked
  BY <1>3, Pending, MoveFacts
<1>5. Counted /\ \A j \in Operational : Held(j)
  BY <1>1 DEF IInv
<1>6. r.wide \in BOOLEAN /\ (goal[r.target].wide <=> r.wide) /\ Has(content[r.source], goal[r.target])
  BY <1>3, <1>5, HeldHas
<1>7. \A j \in Operational : records[j].source # r.target
  BY <1>3, <1>4, <1>5, ReadersFacts DEF Counted
<1>8. \A j \in DOMAIN records : Erase(i)[j] = IF j = i THEN Erased ELSE records[j]
  BY <1>3 DEF Erase
<1>9. R \in SUBSET (Operational \ {i})
      /\ \A j \in R : records[j].source = r.source /\ records[j].wide = r.wide
  <2>1. DOMAIN Erase(i) = DOMAIN records
    BY DEF Erase
  <2>2. \A j \in R : j \in DOMAIN records /\ Erase(i)[j].type \in {"normal", "extend"}
                     /\ Erase(i)[j].source = r.source /\ Erase(i)[j].wide = r.wide
    <3>1. R = Replaced(r, Erase(i))
      BY <1>2, Zenon DEF Moved
    <3>. QED BY <2>1, <3>1 DEF Replaced
  <2>3. \A j \in R : j # i
    BY <1>8, <2>2, ErasedFacts
  <2>. QED BY <1>8, <2>2, <2>3 DEF Operational
<1>10. records' = [j \in DOMAIN records |->
                    IF j \in R THEN Redirected(records[j], records[i].target)
                    ELSE IF j = i THEN Erased ELSE records[j]]
  BY <1>2, <1>8, <1>9 DEF Redirected, Moved
<1>11. /\ Operational' = Operational \ {i}
       /\ \A j \in Operational \ {i} :
            /\ records'[j].target = records[j].target
            /\ records'[j].wide = records[j].wide
            /\ records'[j].source = IF j \in R THEN records[i].target ELSE records[j].source
       /\ records' \in Seq(RecordType) /\ Len(records') <= machine.capacity
       /\ RecordsOK'
       /\ \A t : t \in Targets' <=> \E j \in Operational \ {i} : t = records[j].target
  <2>1. \A j \in R : records[j].source = records[i].source
    BY <1>9
  <2>2. goal' = goal /\ machine' = machine /\ R \in SUBSET (Operational \ {i}) /\ i \in Operational
    BY <1>1, <1>3, <1>9
  <2>. QED BY <1>10, <2>1, <2>2, Redirecting, Zenon
<1>12. /\ content' \in [Location -> Value]
       /\ \A l \in Location : \A g : l # r.target /\ Has(content[l], g) => Has(content'[l], g)
       /\ \A g : (g.wide => r.wide) /\ Has(content[r.source], g) => Has(content'[r.target], g)
  <2>1. content' = AfterMove(r, r.target, r.source)
    BY <1>2, Zenon DEF Moved
  <2>. QED BY <1>4, <1>6, <2>1, MoveTo
<1>13. \A l \in Tracked : Readers(Operational, l)' \in Nat /\ usage'[l] = Readers(Operational, l)'
  <2>1. \A l \in Tracked : usage'[l] =
          IF l = records[i].source THEN Unmarked(usage, {i})[l] - Cardinality(R)
          ELSE IF l = records[i].target THEN Unmarked(usage, {i})[l] + Cardinality(R)
          ELSE Unmarked(usage, {i})[l]
    BY <1>2, <1>3 DEF Moved
  <2>2. \A l \in Tracked :
          /\ Readers(Operational, l)' \in Nat
          /\ Readers(Operational, l)' =
               IF l = records[i].source THEN Unmarked(usage, {i})[l] - Cardinality(R)
               ELSE IF l = records[i].target THEN Unmarked(usage, {i})[l] + Cardinality(R)
               ELSE Unmarked(usage, {i})[l]
    <3>1. /\ i \in Operational /\ R \in SUBSET (Operational \ {i})
          /\ \A j \in R : records[j].source = records[i].source
      BY <1>3, <1>9
    <3>2. \A j \in Operational \ {i} :
            records'[j].source = IF j \in R THEN records[i].target ELSE records[j].source
      BY <1>11, Zenon
    <3>. QED BY <1>5, <1>11, <3>1, <3>2, Recounting
  <2>. QED BY <2>1, <2>2
<1>14. Counted' /\ usage' \in [Tracked -> Nat]
  <2>1. Counted'
    BY <1>13 DEF Counted
  <2>2. \A l \in Tracked : usage'[l] \in Nat
    BY <1>13
  <2>3. usage' = [l \in Tracked |-> usage'[l]]
    BY <1>2 DEF Moved
  <2>. QED BY <2>1, <2>2, <2>3
<1>15. (\A j \in Operational : Held(j))'
  <2>1. \A j \in Operational \ {i} : Has(content'[records'[j].source], goal[records[j].target])
    <3>. SUFFICES ASSUME NEW j \in Operational \ {i}
                  PROVE  Has(content'[records'[j].source], goal[records[j].target])
      OBVIOUS
    <3>1. Has(content[records[j].source], goal[records[j].target])
      BY <1>5, HeldHas
    <3>2. CASE j \in R
      <4>1. goal[records[j].target].wide <=> r.wide
        <5>1. goal[records[j].target].wide <=> records[j].wide
          BY HeldHas
        <5>. QED BY <1>9, <3>2, <5>1, Zenon
      <4>2. records'[j].source = r.target /\ records[j].source = r.source
        BY <1>9, <1>11, <3>2
      <4>. QED BY <1>12, <3>1, <4>1, <4>2
    <3>3. CASE j \notin R
      <4>1. records'[j].source = records[j].source /\ records[j].source # r.target
            /\ records[j].source \in Location
        BY <1>7, <1>11, <3>3, Pending, MoveFacts
      <4>. QED BY <1>12, <3>1, <4>1
    <3>. QED BY <3>2, <3>3
  <2>. QED BY <1>1, <1>11, <2>1 DEF Held, Gets, Has, Wanted
<1>16. Settled'
  <2>. SUFFICES ASSUME NEW u \in Target
                PROVE  goal'[u] = NoLocation \/ u \in Targets' \/ Has(content'[u], goal'[u])
    BY DEF Settled, Gets, Has
  <2>1. u \in Targets => u \in Targets' \/ u = r.target
    BY <1>11 DEF Targets
  <2>2. u \in Location
    BY Places
  <2>3. goal[u] = NoLocation \/ u \in Targets \/ Has(content[u], goal[u])
    BY <1>1, GetsHas DEF IInv, Settled
  <2>4. Has(content'[r.target], goal[r.target])
    BY <1>6, <1>12
  <2>. QED BY <1>1, <1>12, <2>1, <2>2, <2>3, <2>4
<1>17. TypeOK'
  <2>1. /\ machine' \in Machines /\ goal' \in [Target -> RecordType \union {NoLocation}]
        /\ next' \in 0 .. machine'.capacity /\ contains64' \in BOOLEAN
        /\ head' \in RecordType /\ {temp', hole'} \subseteq Location \union {NoLocation}
    BY <1>1 DEF IInv, TypeOK, cycle
  <2>. QED BY <1>1, <1>11, <1>12, <1>14, <2>1 DEF TypeOK, Value, Phase
<1>. QED BY <1>1, <1>11, <1>14, <1>15, <1>16, <1>17 DEF IInv

(***************************************************************************)
(* Swaps.                                                                  *)
(***************************************************************************)
LEMMA BeginSwapsKeeps ==
  ASSUME Single, IInv, machine' = machine, BeginSwaps
  PROVE  IInv'
<1>1. /\ phase = "linear" /\ phase' = "swap" /\ Movable = {}
      /\ next' \in Operational /\ contains64' = RemainingContain64
      /\ UNCHANGED <<records, usage, content, goal, head, temp, hole>>
  BY DEF BeginSwaps, IsFirst
<1>2. Counted /\ \A j \in Operational : Held(j)
  BY <1>1 DEF IInv
<1>3. /\ SourcesDistinct /\ \A j \in Operational : records[j].source \in Targets
      /\ \A i \in Operational : \E j \in Operational : records[j].source = records[i].target
  BY <1>1, <1>2, Circular
<1>4. Operational' = Operational /\ Targets' = Targets
  BY <1>1 DEF Operational, Targets
<1>5. TypeOK'
  <2>1. contains64' \in BOOLEAN
    BY <1>1 DEF RemainingContain64
  <2>2. next' \in 0 .. machine.capacity
    BY <1>1, Pending, ContentType, SingleFacts
  <2>. QED BY <1>1, <2>1, <2>2 DEF IInv, TypeOK, Phase
<1>6. RecordsOK'
  BY <1>1, <1>4 DEF IInv, RecordsOK, IsMove
<1>7. Settled'
  BY <1>1, <1>4 DEF IInv, Settled, Gets
<1>8. \A l \in Tracked : usage[l] = IF l \in Targets THEN 1 ELSE 0
  <2>. SUFFICES ASSUME NEW l \in Tracked
                PROVE  Readers(Operational, l) = IF l \in Targets THEN 1 ELSE 0
    BY <1>2 DEF Counted
  <2>1. CASE l \in Targets
    <3>1. PICK j \in Operational : records[j].source = l
      BY <1>3, <2>1 DEF Targets
    <3>2. {i \in Operational : records[i].source = l} = {j}
      BY <1>3, <3>1 DEF SourcesDistinct
    <3>. QED BY <2>1, <3>2, FS_Singleton DEF Readers
  <2>2. CASE l \notin Targets
    BY <1>3, <2>2, ReadersFacts
  <2>. QED BY <2>1, <2>2
<1>9. PICK n : n = next'
  OBVIOUS
<1>10. n \in Operational /\ IsMove(records[n]) /\ records[n].target \in Target
       /\ records[n].source # records[n].target
  BY <1>1, <1>9, Pending, MoveFacts
<1>11. \A i \in Operational :
         IF records[i].source = records[n].target THEN Has(content[records[n].target], goal[records[i].target])
         ELSE /\ Has(content[records[i].source], goal[records[i].target])
              /\ records[i].source \in Targets \ {records[n].target}
  BY <1>2, <1>3, HeldHas
<1>13. (\E start \in Target : Swapping(start))'
  <2>1. PICK u : u = records[n].target
    OBVIOUS
  <2>2. records'[next'].target = u /\ u \in Target
    BY <1>1, <1>9, <1>10, <2>1
  <2>3. Swapping(u)'
    BY <1>1, <1>4, <1>9, <1>10, <1>11, <2>1 DEF Swapping, Held, Gets, Has, Wanted
  <2>. QED BY <2>2, <2>3
<1>14. WithSwaps'
  <2>1. SourcesDistinct'
    BY <1>1, <1>3, <1>4 DEF SourcesDistinct
  <2>2. contains64' \/ \A i \in Operational : ~records[i].wide
    BY <1>1 DEF RemainingContain64
  <2>. QED BY <1>1, <1>4, <1>8, <1>13, <2>1, <2>2 DEF WithSwaps
<1>. QED BY <1>1, <1>5, <1>6, <1>7, <1>14 DEF IInv

LEMMA AfterSwapFacts ==
  ASSUME content \in [Location -> Value], NEW target \in Location, NEW source \in Location,
         target # source, NEW w \in BOOLEAN
  PROVE  /\ AfterSwap(target, source, w) \in [Location -> Value]
         /\ \A l \in Location : l \notin {target, source}
              => AfterSwap(target, source, w)[l] = content[l]
         /\ \A g : (g.wide => w) /\ Has(content[source], g)
                     => Has(AfterSwap(target, source, w)[target], g)
         /\ \A g : (g.wide => w) /\ Has(content[target], g)
                     => Has(AfterSwap(target, source, w)[source], g)
<1>. PICK n : n = Narrowed(content[source], w)
  OBVIOUS
<1>. PICK m : m = Narrowed(content[target], w)
  OBVIOUS
<1>1. n \in Value /\ n.from = content[source].from /\ (n.whole <=> content[source].whole /\ w)
  BY NarrowedFacts
<1>2. m \in Value /\ m.from = content[target].from /\ (m.whole <=> content[target].whole /\ w)
  BY NarrowedFacts
<1>3. AfterSwap(target, source, w) = [content EXCEPT ![target] = n, ![source] = m]
  BY DEF AfterSwap
<1>4. \A g : (g.wide => w) /\ Has(content[source], g) => Has(n, g)
  BY <1>1, Zenon DEF Has
<1>5. \A g : (g.wide => w) /\ Has(content[target], g) => Has(m, g)
  BY <1>2, Zenon DEF Has
<1>6. PICK c : c = AfterSwap(target, source, w)
  OBVIOUS
<1>7. c \in [Location -> Value] /\ c[target] = n /\ c[source] = m
      /\ \A l \in Location : l \notin {target, source} => c[l] = content[l]
  BY <1>1, <1>2, <1>3, <1>6
<1>. QED BY <1>4, <1>5, <1>6, <1>7, Zenon

\* erasing swapped records
LEMMA SwappedErases ==
  ASSUME IInv, WithSwaps, NEW S \in SUBSET Operational, Swapped(S), goal' = goal, machine' = machine
  PROVE  /\ Operational' = Operational \ S
         /\ \A j \in Operational \ S : records'[j] = records[j]
         /\ records' \in Seq(RecordType) /\ Len(records') <= machine.capacity
         /\ RecordsOK'
         /\ \A t : t \in Targets' <=> \E j \in Operational \ S : t = records[j].target
         /\ usage' \in [Tracked -> Nat]
         /\ \A l \in Tracked : usage'[l] = IF l \in Targets' THEN 1 ELSE 0
<1>1. UNION {Halves(i) : i \in S} = S
  BY OneHalf
<1>2. records' = [j \in DOMAIN records |-> IF j \in S THEN Erased ELSE records[j]]
  BY <1>1 DEF Swapped
<1>3. usage' = [l \in Tracked |-> usage[l] - Cardinality({j \in S : records[j].target = l})]
  BY <1>1 DEF Swapped
<1>4. /\ Operational' = Operational \ S
      /\ \A j \in Operational \ S : records'[j] = records[j]
      /\ records' \in Seq(RecordType) /\ Len(records') <= machine.capacity
      /\ RecordsOK'
      /\ \A t : t \in Targets' <=> \E j \in Operational \ S : t = records[j].target
  BY <1>2, Erasing
<1>5. \A l \in Tracked : usage'[l] = IF l \in Targets' THEN 1 ELSE 0
  <2>. SUFFICES ASSUME NEW l \in Tracked
                PROVE  usage'[l] = IF l \in Targets' THEN 1 ELSE 0
    OBVIOUS
  <2>1. usage[l] = IF l \in Targets THEN 1 ELSE 0
    BY DEF WithSwaps
  <2>2. usage'[l] = usage[l] - Cardinality({j \in S : records[j].target = l})
    BY <1>3
  <2>3. CASE \E j \in S : records[j].target = l
    <3>1. PICK j \in S : records[j].target = l
      BY <2>3
    <3>2. {i \in S : records[i].target = l} = {j}
      BY <3>1, Pending
    <3>3. Cardinality({i \in S : records[i].target = l}) = 1
      BY <3>2, FS_Singleton
    <3>4. l \in Targets /\ l \notin Targets'
      BY <1>4, <3>1, Pending DEF Targets
    <3>. QED BY <2>1, <2>2, <3>3, <3>4
  <2>4. CASE \A j \in S : records[j].target # l
    <3>1. {j \in S : records[j].target = l} = {}
      BY <2>4
    <3>2. Cardinality({j \in S : records[j].target = l}) = 0
      BY <3>1, FS_EmptySet
    <3>3. l \in Targets <=> l \in Targets'
      BY <1>4, <2>4 DEF Targets
    <3>. QED BY <2>1, <2>2, <3>2, <3>3
  <2>. QED BY <2>3, <2>4
<1>6. usage' \in [Tracked -> Nat]
  <2>1. usage' = [l \in Tracked |-> usage'[l]]
    BY <1>3
  <2>. QED BY <1>5, <2>1
<1>. QED BY <1>4, <1>5, <1>6

\* the record that moves to where the next swap's source is, if its own source
\* ends the cycle
Follows == {i \in Targeting(records[next].source) : IsFirst(i, Targeting(records[next].source))}
Closes == {i \in Follows : Targeting(records[i].source) \ {next} = {}}

LEMMA SwapSteps ==
  ASSUME Swap
  PROVE  /\ content' = AfterSwap(records[next].target, records[next].source, contains64)
         /\ Swapped({next} \union Closes)
         /\ SwapOn(Follows \ Closes, Operational \ ({next} \union Closes))
BY DEF Swap, Follows, Closes

LEMMA SwapKeeps ==
  ASSUME Single, IInv, machine' = machine, Swap
  PROVE  IInv'
<1>1. phase = "swap" /\ UNCHANGED <<goal, head, temp, hole, contains64>>
  BY DEF Swap
<1>2. WithSwaps
  BY <1>1 DEF IInv
<1>3. /\ SourcesDistinct /\ next \in Operational
      /\ contains64 \/ \A i \in Operational : ~records[i].wide
  BY <1>2 DEF WithSwaps
<1>4. PICK start \in Target : Swapping(start)
  BY <1>2 DEF WithSwaps
<1>. PICK n : n = next
  OBVIOUS
<1>5. PICK place : place = records[n].target
  OBVIOUS
<1>6. PICK source : source = records[n].source
  OBVIOUS
<1>7. /\ n \in Operational /\ place \in Target /\ place \in Location /\ source \in Location
      /\ source # place
  BY <1>3, <1>5, <1>6, Pending, MoveFacts
<1>8. /\ source # start /\ (start = place \/ start \notin Targets)
      /\ \A i \in Operational :
           IF records[i].source = start THEN Has(content[place], goal[records[i].target])
           ELSE /\ Has(content[records[i].source], goal[records[i].target])
                /\ records[i].source \in Targets \ {place}
  <2>1. \A i \in Operational :
           IF records[i].source = start THEN Gets(place, Wanted(i))
           ELSE Held(i) /\ records[i].source \in Targets \ {place}
    BY <1>4, <1>5 DEF Swapping
  <2>2. \A i \in Operational : /\ Gets(place, Wanted(i)) <=> Has(content[place], goal[records[i].target])
                               /\ Held(i) <=> Has(content[records[i].source], goal[records[i].target])
    BY GetsHas DEF Wanted, Held
  <2>3. source # start /\ (start = place \/ start \notin Targets)
    BY <1>4, <1>5, <1>6 DEF Swapping
  <2>. QED BY <2>1, <2>2, <2>3
<1>9. PICK k \in Operational : records[k].target = source
  BY <1>3, <1>6, <1>8 DEF Targets
<1>10. k # n /\ k \in Nat /\ source \in Target
  BY <1>5, <1>7, <1>9, Pending, MoveFacts
<1>11. Follows = {k}
  <2>1. Targeting(source) = {k}
    BY <1>9, Pending DEF Targeting
  <2>. QED BY <1>6, <1>10, <2>1 DEF Follows, IsFirst
<1>12. \A i \in Operational : goal[records[i].target].wide => contains64
  BY <1>3, HeldHas
<1>13. /\ content' \in [Location -> Value]
       /\ \A l \in Location : l \notin {place, source} => content'[l] = content[l]
       /\ \A g : (g.wide => contains64) /\ Has(content[source], g) => Has(content'[place], g)
       /\ \A g : (g.wide => contains64) /\ Has(content[place], g) => Has(content'[source], g)
  <2>1. contains64 \in BOOLEAN /\ content \in [Location -> Value]
    BY ContentType DEF IInv, TypeOK
  <2>2. content' = AfterSwap(place, source, contains64)
    BY <1>5, <1>6, SwapSteps
  <2>. QED BY <1>7, <2>1, <2>2, AfterSwapFacts
<1>14. Has(content'[place], goal[place])
  BY <1>5, <1>6, <1>7, <1>8, <1>12, <1>13
<1>15. PICK S \in SUBSET Operational : S = {n} \union Closes
  BY <1>7, <1>11 DEF Closes
<1>16. Swapped(S)
  BY <1>15, SwapSteps
<1>17. /\ Operational' = Operational \ S
       /\ \A j \in Operational \ S : records'[j] = records[j]
       /\ records' \in Seq(RecordType) /\ Len(records') <= machine.capacity
       /\ RecordsOK'
       /\ \A t : t \in Targets' <=> \E j \in Operational \ S : t = records[j].target
       /\ usage' \in [Tracked -> Nat]
       /\ \A l \in Tracked : usage'[l] = IF l \in Targets' THEN 1 ELSE 0
  BY <1>1, <1>2, <1>16, SwappedErases
<1>18. SwapOn(Follows \ Closes, Operational \ S)
  BY <1>15, SwapSteps
<1>19. \A j \in Operational \ S : records[j].source # source
  BY <1>3, <1>6, <1>7, <1>15 DEF SourcesDistinct
<1>20. SourcesDistinct'
  BY <1>3, <1>17 DEF SourcesDistinct
<1>21. contains64' \/ \A i \in Operational' : ~records'[i].wide
  BY <1>1, <1>3, <1>17
<1>22. \A m \in Operational : m \in 0 .. machine.capacity
  BY Pending, ContentType, SingleFacts
<1>23. TypeOK' <=> phase' \in Phase /\ next' \in 0 .. machine.capacity
  <2>1. /\ machine' \in Machines /\ goal' \in [Target -> RecordType \union {NoLocation}]
        /\ contains64' \in BOOLEAN /\ head' \in RecordType
        /\ {temp', hole'} \subseteq Location \union {NoLocation}
    BY <1>1 DEF IInv, TypeOK
  <2>. QED BY <1>13, <1>17, <2>1 DEF TypeOK, Value
<1>24. \A u \in Target : u \notin {place, source} =>
         \/ goal'[u] = NoLocation \/ u \in Targets' \/ Has(content'[u], goal'[u])
  <2>. SUFFICES ASSUME NEW u \in Target, u \notin {place, source}
                PROVE  goal'[u] = NoLocation \/ u \in Targets' \/ Has(content'[u], goal'[u])
    OBVIOUS
  <2>1. \A j \in S : records[j].target \in {place, source}
    BY <1>5, <1>9, <1>11, <1>15 DEF Closes
  <2>2. u \in Targets => u \in Targets'
    BY <1>17, <2>1 DEF Targets
  <2>3. goal[u] = NoLocation \/ u \in Targets \/ Has(content[u], goal[u])
    BY <1>1, GetsHas DEF IInv, Settled
  <2>4. u \in Location
    BY Places
  <2>. QED BY <1>1, <1>13, <2>2, <2>3, <2>4
<1>25. Settled' <=> \A u \in Target : \/ goal'[u] = NoLocation \/ u \in Targets'
                                      \/ phase' = "hole" /\ u = head'.target
                                      \/ Has(content'[u], goal'[u])
  BY DEF Settled, Gets, Has
<1>26. CASE k \in Closes
  <2>1. Closes = {k} /\ S = {n, k} /\ Follows \ Closes = {}
    BY <1>11, <1>15, <1>26 DEF Closes
  <2>2. records[k].source = start
    <3>1. Targeting(records[k].source) \ {n} = {}
      BY <1>26 DEF Closes
    <3>2. \A j \in Operational : records[j].target = records[k].source => j = n
      BY <3>1 DEF Targeting
    <3>3. records[k].source \notin Targets \ {place}
      BY <1>5, <3>2 DEF Targets
    <3>. QED BY <1>8, <3>3
  <2>3. Has(content'[source], goal[source])
    BY <1>8, <1>9, <1>12, <1>13, <2>2
  <2>4. Settled'
    BY <1>1, <1>14, <1>24, <1>25, <2>3
  <2>5. \A j \in Operational \ S : /\ records[j].source \in Targets'
                                   /\ Has(content'[records[j].source], goal[records[j].target])
    <3>. SUFFICES ASSUME NEW j \in Operational \ S
                  PROVE  /\ records[j].source \in Targets'
                         /\ Has(content'[records[j].source], goal[records[j].target])
      OBVIOUS
    <3>1. records[j].source # start
      BY <1>3, <2>1, <2>2 DEF SourcesDistinct
    <3>2. /\ Has(content[records[j].source], goal[records[j].target])
          /\ records[j].source \in Targets \ {place}
      BY <1>8, <3>1
    <3>3. records[j].source \notin {place, source} /\ records[j].source \in Location
      BY <1>19, <3>2, Pending, MoveFacts
    <3>4. records[j].source \in Targets'
      BY <1>5, <1>9, <1>17, <2>1, <3>2, <3>3, SMTT(30) DEF Targets
    <3>. QED BY <1>13, <3>2, <3>3, <3>4
  <2>6. CASE Operational \ S = {}
    <3>1. phase' = "linear" /\ next' = 0
      BY <1>18, <2>1, <2>6 DEF SwapOn
    <3>2. TypeOK'
      BY <1>23, <3>1, SingleFacts DEF Phase
    <3>3. Operational' = {} /\ \A l : l \notin Targets'
      BY <1>17, <2>6
    <3>4. Counted'
      <4>1. \A l : Readers(Operational, l)' = 0
        BY <3>3, FS_EmptySet DEF Readers
      <4>. QED BY <1>17, <3>3, <4>1 DEF Counted
    <3>. QED BY <1>17, <2>4, <3>1, <3>2, <3>3, <3>4 DEF IInv
  <2>7. CASE Operational \ S # {}
    <3>1. UNCHANGED phase /\ next' \in Operational \ S
      BY <1>18, <2>1, <2>7 DEF SwapOn, IsFirst
    <3>2. TypeOK'
      BY <1>1, <1>22, <1>23, <3>1 DEF Phase
    <3>. PICK p : p = next'
      OBVIOUS
    <3>3. PICK u : u = records[p].target
      OBVIOUS
    <3>4. p \in Operational \ S /\ u \in Target /\ records[p].source # u
      BY <3>1, <3>3, Pending, MoveFacts
    <3>5. \A i \in Operational \ S :
            IF records[i].source = u THEN Has(content'[u], goal[records[i].target])
            ELSE Has(content'[records[i].source], goal[records[i].target]) /\ records[i].source \in Targets' \ {u}
      BY <2>5
    <3>6. \A i \in Operational' :
            IF records'[i].source = u THEN Has(content'[u], goal'[records'[i].target])
            ELSE Has(content'[records'[i].source], goal'[records'[i].target]) /\ records'[i].source \in Targets' \ {u}
      BY <1>1, <1>17, <3>5
    <3>7. records'[next'].target = u /\ records'[next'].source # u
      BY <1>17, <3>3, <3>4
    <3>8. Swapping(u)'
      BY <3>6, <3>7 DEF Swapping, Held, Gets, Has, Wanted
    <3>9. (\E t \in Target : Swapping(t))'
      BY <3>4, <3>8
    <3>10. WithSwaps'
      BY <1>17, <1>20, <1>21, <3>1, <3>9 DEF WithSwaps
    <3>. QED BY <1>1, <1>17, <2>4, <3>1, <3>2, <3>10 DEF IInv
  <2>. QED BY <2>6, <2>7
<1>27. CASE k \notin Closes
  <2>1. Closes = {} /\ S = {n} /\ Follows \ Closes = {k}
    BY <1>11, <1>15, <1>27 DEF Closes
  <2>2. UNCHANGED phase /\ next' = k
    BY <1>18, <2>1 DEF SwapOn, IsFirst
  <2>3. records[k].source # start
    <3>1. PICK j \in Operational : records[j].target = records[k].source /\ j # n
      BY <1>11, <1>27 DEF Closes, Targeting
    <3>2. records[k].source \in Targets /\ records[k].source # place
      BY <1>5, <1>7, <3>1, Pending DEF Targets
    <3>. QED BY <1>8, <3>2
  <2>4. TypeOK'
    BY <1>1, <1>22, <1>23, <2>2 DEF Phase
  <2>5. k \in Operational \ S /\ source \in Targets'
    BY <1>9, <1>10, <1>17, <2>1
  <2>6. Settled'
    BY <1>1, <1>14, <1>24, <1>25, <2>5
  <2>7. start = source \/ start \notin Targets'
    <3>1. \A j \in Operational \ S : records[j].target # place
      BY <1>5, <1>7, <2>1, Pending
    <3>. QED BY <1>8, <1>17, <3>1 DEF Targets
  <2>8. \A i \in Operational \ S :
          IF records[i].source = start THEN Has(content'[source], goal[records[i].target])
          ELSE /\ Has(content'[records[i].source], goal[records[i].target])
               /\ records[i].source \in Targets' \ {source}
    <3>. SUFFICES ASSUME NEW i \in Operational \ S
                  PROVE  IF records[i].source = start THEN Has(content'[source], goal[records[i].target])
                         ELSE /\ Has(content'[records[i].source], goal[records[i].target])
                              /\ records[i].source \in Targets' \ {source}
      OBVIOUS
    <3>1. CASE records[i].source = start
      <4>1. Has(content[place], goal[records[i].target])
        BY <1>8, <3>1
      <4>2. goal[records[i].target].wide => contains64
        BY <1>12
      <4>3. Has(content'[source], goal[records[i].target])
        BY <1>13, <4>1, <4>2
      <4>. QED BY <3>1, <4>3
    <3>2. CASE records[i].source # start
      <4>1. /\ Has(content[records[i].source], goal[records[i].target])
            /\ records[i].source \in Targets \ {place}
        BY <1>8, <3>2
      <4>2. records[i].source \notin {place, source} /\ records[i].source \in Location
        BY <1>19, <4>1, Pending, MoveFacts
      <4>3. records[i].source \in Targets'
        BY <1>5, <1>17, <2>1, <4>1 DEF Targets
      <4>4. Has(content'[records[i].source], goal[records[i].target])
        BY <1>13, <4>1, <4>2
      <4>. QED BY <3>2, <4>2, <4>3, <4>4
    <3>. QED BY <3>1, <3>2
  <2>9. \A i \in Operational' :
          IF records'[i].source = start THEN Has(content'[source], goal'[records'[i].target])
          ELSE /\ Has(content'[records'[i].source], goal'[records'[i].target])
               /\ records'[i].source \in Targets' \ {source}
    BY <1>1, <1>17, <2>8
  <2>10. records'[next'].target = source /\ records'[next'].source # start
    BY <1>9, <1>17, <2>2, <2>3, <2>5
  <2>11. Swapping(start)'
    BY <2>7, <2>9, <2>10 DEF Swapping, Held, Gets, Has, Wanted
  <2>12. WithSwaps'
    BY <1>17, <1>20, <1>21, <2>2, <2>5, <2>11 DEF WithSwaps
  <2>. QED BY <1>1, <1>17, <2>2, <2>4, <2>6, <2>12 DEF IInv
<1>. QED BY <1>26, <1>27

(***************************************************************************)
(* The theorems.                                                           *)
(***************************************************************************)
LEMMA Stutters ==
  ASSUME IInv, UNCHANGED vars
  PROVE  IInv'
<1>. USE DEF vars, cycle
<1>1. Operational' = Operational /\ Targets' = Targets
  BY DEF Operational, Targets
<1>2. TypeOK' /\ RecordsOK'
  BY <1>1 DEF IInv, TypeOK, RecordsOK, IsMove
<1>3. Settled'
  BY <1>1 DEF IInv, Settled, Gets
<1>4. Counted <=> Counted'
  BY <1>1 DEF Counted, Readers
<1>5. \A i \in Operational : Held(i) <=> Held(i)'
  BY DEF Held, Gets, Wanted
<1>6. Collecting <=> Collecting'
  BY DEF Collecting
<1>7. SourcesDistinct <=> SourcesDistinct'
  BY <1>1 DEF SourcesDistinct
<1>8. WithHole <=> WithHole'
  BY <1>1, <1>7 DEF WithHole, IsMove, Gets
<1>9. \A u : Swapping(u) <=> Swapping(u)'
  BY <1>1 DEF Swapping, Held, Gets, Wanted
<1>10. WithSwaps <=> WithSwaps'
  BY <1>1, <1>7, <1>9 DEF WithSwaps
<1>. QED BY <1>1, <1>2, <1>3, <1>4, <1>5, <1>6, <1>8, <1>10 DEF IInv

LEMMA NextKeeps ==
  ASSUME SingleRegisters, IInv, [Next]_vars
  PROVE  IInv'
<1>1. Single
  BY DEF IInv, TypeOK, Single
<1>2. CASE Next
  <2>1. machine' = machine
    BY <1>2 DEF Next
  <2>2. CASE Collect
    <3>1. \A target \in DOMAIN PairOf \ Temp : FALSE
      BY <1>1, SingleFacts
    <3>2. PICK target \in machine.targets, wide \in machine.widths :
            \E source \in machine.sources[target] : Push(target, source, wide)
      BY <2>2, <3>1 DEF Collect
    <3>. QED BY <1>1, <2>1, <3>2, PushKeeps
  <2>3. CASE ResolveLinear
    BY <1>1, <2>1, <2>3, ResolveLinearKeeps
  <2>4. CASE TryMove
    BY <1>1, <2>1, <2>4, TryMoveKeeps
  <2>5. CASE Finish
    BY <1>1, <2>1, <2>5, FinishKeeps
  <2>6. CASE BreakCycle
    BY <1>1, <2>1, <2>6, BreakCycleKeeps
  <2>7. CASE FillHole
    BY <1>1, <2>1, <2>7, FillHoleKeeps
  <2>8. CASE CloseCycle
    BY <1>1, <2>1, <2>8, CloseCycleKeeps
  <2>9. CASE BeginSwaps
    BY <1>1, <2>1, <2>9, BeginSwapsKeeps
  <2>10. CASE Swap
    BY <1>1, <2>1, <2>10, SwapKeeps
  <2>. QED BY <1>2, <2>2, <2>3, <2>4, <2>5, <2>6, <2>7, <2>8, <2>9, <2>10 DEF Next, Resolve
<1>3. CASE UNCHANGED vars
  BY <1>3, Stutters
<1>. QED BY <1>2, <1>3

\* The inductive invariant of the resolver.
THEOREM Inductive == SingleRegisters => (Spec => []IInv)
<1>. SUFFICES ASSUME SingleRegisters
              PROVE  Spec => []IInv
  OBVIOUS
<1>1. Init => IInv
  BY InitEstablishes
<1>2. IInv /\ [Next]_vars => IInv'
  BY NextKeeps
<1>. QED BY <1>1, <1>2, PTL DEF Spec

\* resolveLinear: when the resolver is done, every target of the call holds
\* the value that its source held before the first emitted instruction.
THEOREM ArgumentsMoveAtOnce == SingleRegisters => (Spec => []Resolved)
<1>. SUFFICES ASSUME SingleRegisters
              PROVE  Spec => []Resolved
  OBVIOUS
<1>1. IInv => Resolved
  <2>. SUFFICES ASSUME IInv, phase = "done", NEW t \in Target, goal[t] # NoLocation
                PROVE  Gets(t, goal[t])
    BY DEF Resolved
  <2>1. Targets = {}
    BY DEF IInv, Targets
  <2>. QED BY <2>1 DEF IInv, Settled
<1>. QED BY <1>1, Inductive, PTL

\* tryMove, resolveCycle: between two emitted instructions every value that
\* is still to be moved is in a location that the usage maps protect.
THEOREM ValuesAreProtected == SingleRegisters => (Spec => []NothingLost)
<1>. SUFFICES ASSUME SingleRegisters
              PROVE  Spec => []NothingLost
  OBVIOUS
<1>1. IInv => NothingLost
  <2>. SUFFICES ASSUME IInv
                PROVE  NothingLost
    OBVIOUS
  <2>1. phase \in Phase
    BY DEF IInv, TypeOK
  <2>2. phase = "hole" => Gets(temp, goal[head.target])
    BY DEF IInv, WithHole
  <2>3. ASSUME phase # "collect", NEW i \in Operational
        PROVE  \E l \in Protected : Gets(l, goal[records[i].target])
    <3>1. CASE phase \in {"linear", "hole"}
      <4>1. Counted /\ Gets(records[i].source, goal[records[i].target])
        BY <3>1 DEF IInv, Held, Wanted
      <4>2. CASE records[i].source \in Constant
        BY <4>1, <4>2 DEF Protected
      <4>3. CASE records[i].source \in Tracked
        <5>1. usage[records[i].source] > 0
          BY <4>1, <4>3, ReadersFacts DEF Counted
        <5>. QED BY <4>1, <4>3, <5>1 DEF Protected
      <4>. QED BY <4>2, <4>3, Pending, MoveFacts, Places
    <3>2. CASE phase = "swap"
      <4>1. WithSwaps
        BY <3>2 DEF IInv
      <4>2. PICK start \in Target : Swapping(start)
        BY <4>1 DEF WithSwaps
      <4>3. \A u \in Targets : u \in Tracked /\ usage[u] = 1
        BY <4>1, Pending, MoveFacts DEF Targets, WithSwaps
      <4>4. \A u \in Targets : u \in Protected
        BY <4>3 DEF Protected
      <4>5. records[next].target \in Targets
        BY <4>1 DEF WithSwaps, Targets
      <4>6. \/ Gets(records[next].target, goal[records[i].target])
            \/ /\ Gets(records[i].source, goal[records[i].target])
               /\ records[i].source \in Targets
        BY <4>2 DEF Swapping, Held, Wanted
      <4>. QED BY <4>4, <4>5, <4>6
    <3>3. CASE phase = "done"
      BY <3>3 DEF IInv
    <3>. QED BY <2>1, <2>3, <3>1, <3>2, <3>3 DEF Phase
  <2>. QED BY <2>2, <2>3 DEF NothingLost
<1>. QED BY <1>1, Inductive, PTL
=============================================================================
