------------------------ MODULE ParallelMoveResolver ------------------------
(***************************************************************************)
(* ParallelMoveResolver.hpp: the arguments of a call all move at once, the *)
(* emitted instructions move one at a time.  The resolver orders them so   *)
(* that none overwrites what a later one still reads, and breaks cycles    *)
(* through a scratch register or by swaps.                                 *)
(*                                                                         *)
(* "content" is the machine that executes the emitted instructions.        *)
(***************************************************************************)
EXTENDS Integers, Sequences, FiniteSets

CONSTANTS
  Register,      \* registers that calls pass arguments in or read them from
  Slot,          \* stack and link data slots
  CheapConst,    \* constants that one instruction encodes
  CostlyConst,   \* constants that take several instructions
  Temp,          \* scratch registers
  Machines,      \* the calls to resolve, see below
  NoLocation

Constant == CheapConst \union CostlyConst
Location == Register \union Slot \union Constant \union Temp
Target == Register \union Slot
Type == {"normal", "extend", "placeholder", "erased"}

ASSUME LocationAssumption ==
  /\ Register \intersect Slot = {} /\ Register \intersect Constant = {}
  /\ Slot \intersect Constant = {} /\ CheapConst \intersect CostlyConst = {}
  /\ Temp \intersect (Register \union Slot \union Constant) = {}
  /\ NoLocation \notin Location

(***************************************************************************)
(* What a backend makes of the resolver: the locations its calls write and *)
(* those each may get its value from, the registers its temp provider      *)
(* selects from, which registers are the two halves of an extended         *)
(* register, which slots share bytes, whether moves are 64 bits wide, how  *)
(* cycles are broken ("temp" or "swap"), and recordsCapacity_.             *)
(***************************************************************************)
ASSUME MachineAssumption ==
  \A m \in Machines :
    /\ m.targets \subseteq Target /\ m.sources \in [m.targets -> SUBSET (Target \union Constant)]
    /\ m.temps \subseteq Temp
    /\ DOMAIN m.pairs \subseteq m.targets \union m.temps
    /\ \A l \in DOMAIN m.pairs :
         m.pairs[l] \in (IF l \in Temp THEN Temp ELSE m.targets) \ DOMAIN m.pairs
    /\ m.overlaps \subseteq {{l, k} : l \in Slot, k \in Slot}
    /\ m.widths \subseteq BOOLEAN /\ m.strategy \in {"temp", "swap"} /\ m.capacity \in Nat

VARIABLES
  machine,       \* the backend, and the kind of call
  records,       \* records_, a sequence whose erased records keep their place
  usage,         \* regSourceMap_ and memorySourceMap_
  content,       \* what each location holds
  goal,          \* for each target pushed: the location whose value it gets
  phase,         \* where resolveLinear and resolveCycle are
  head, temp, hole,  \* the temp cycle being resolved
  next, contains64   \* the swap cycles being resolved

vars == <<machine, records, usage, content, goal, phase, head, temp, hole, next, contains64>>
cycle == <<head, temp, hole, next, contains64>>

PairOf == machine.pairs

Move(target, source, type, wide) ==
  [target |-> target, source |-> source, type |-> type, wide |-> wide]
Erased == Move(NoLocation, NoLocation, "erased", FALSE)

\* a value: where it was at the start, and whether its upper half is still there
Original(l) == [from |-> l, whole |-> TRUE]

-----------------------------------------------------------------------------
(***************************************************************************)
(* The records and the usage maps.                                         *)
(***************************************************************************)
Operational == {i \in DOMAIN records : records[i].type \in {"normal", "extend"}}

IsFirst(i, S) == i \in S /\ \A j \in S : i <= j

Targeting(location) == {i \in Operational : records[i].target = location}

\* a faulty variant, to show what the properties detect
TargetNeverUsed(location) == TRUE
TargetFree(location) == usage[location] = 0

Tracked == Register \union Slot \union Temp

\* sources of the records of S that read a location
Readers(S, location) == Cardinality({i \in S : records[i].source = location})

\* a faulty variant, to show what the properties detect
FirstHalf(r) == {r}
\* a record and, of an extended register, its placeholder
Halves(r) == {i \in {r, r + 1} : i = r \/ records[r].type = "extend"}

Unmarked(usages, S) == [l \in Tracked |-> usages[l] - Readers(S, l)]

Erase(i) == [j \in DOMAIN records |-> IF j \in Halves(i) THEN Erased ELSE records[j]]

(***************************************************************************)
(* Executing an instruction.  A move of an extended register moves its     *)
(* second half as well; the high half of a slot or constant is the slot or *)
(* constant itself.  A narrow move keeps the lower half of a value.  What  *)
(* shares bytes with the target is destroyed.                              *)
(***************************************************************************)
High(location) == IF location \in DOMAIN PairOf THEN PairOf[location] ELSE location

Destroyed == [from |-> NoLocation, whole |-> FALSE]

Narrowed(value, wide) == [value EXCEPT !.whole = @ /\ wide]

AfterMove(r, target, source) ==
  [l \in Location |->
     IF l = target THEN Narrowed(content[source], r.wide)
     ELSE IF r.type = "extend" /\ l = High(target) THEN content[High(source)]
     ELSE IF {l, target} \in machine.overlaps THEN Destroyed
     ELSE content[l]]

AfterSwap(target, source, wide) ==
  [content EXCEPT ![target] = Narrowed(content[source], wide),
                  ![source] = Narrowed(content[target], wide)]

(***************************************************************************)
(* storageReplacement: the other records that read the same slot or costly *)
(* constant read the register that now holds it.                           *)
(***************************************************************************)
\* a faulty variant, to show what the properties detect
ReplacedAnyWidth(r, erased) ==
  {i \in DOMAIN erased :
     /\ r.target \in Register /\ r.source \in Slot \union CostlyConst
     /\ erased[i].type \in {"normal", "extend"}
     /\ erased[i].source = r.source}

Replaced(r, erased) ==
  {i \in DOMAIN erased :
     /\ r.target \in Register /\ r.source \in Slot \union CostlyConst
     /\ erased[i].type \in {"normal", "extend"}
     /\ erased[i].source = r.source /\ erased[i].wide = r.wide}

-----------------------------------------------------------------------------
(***************************************************************************)
(* push.  A call gives every argument a position of its own; a move to the *)
(* location the value is in already is dropped.  TriCore pushes a 64-bit   *)
(* register target as an extend record and a placeholder.                  *)
(***************************************************************************)
Unassigned == {t \in machine.targets : goal[t] = NoLocation}

Push(target, source, wide) ==
  /\ phase = "collect"
  /\ Len(records) < machine.capacity
  /\ target \in Unassigned
  /\ records' = IF target = source THEN records
                ELSE Append(records, Move(target, source, "normal", wide))
  /\ goal' = [goal EXCEPT ![target] = Move(target, source, "normal", wide)]
  /\ UNCHANGED <<usage, content, phase, cycle>>

PushExtended(target, source) ==
  LET second == Move(PairOf[target], High(source), "placeholder", TRUE)
  IN  /\ phase = "collect"
      /\ Len(records) + 1 < machine.capacity
      /\ {target, PairOf[target]} \subseteq Unassigned
      /\ target # source
      /\ records' = records \o <<Move(target, source, "extend", TRUE), second>>
      /\ goal' = [goal EXCEPT ![target] = Move(target, source, "extend", TRUE),
                              ![PairOf[target]] = second]
      /\ UNCHANGED <<usage, content, phase, cycle>>

(***************************************************************************)
(* resolveLinear: initSourceUsage.                                         *)
(***************************************************************************)
\* a faulty variant, to show what the properties detect
ResolveLinearButLast ==
  /\ phase = "collect"
  /\ usage' = [l \in Tracked |-> Readers(DOMAIN records \ {Len(records)}, l)]
  /\ phase' = "linear"
  /\ UNCHANGED <<records, content, goal, cycle>>

ResolveLinear ==
  /\ phase = "collect"
  /\ usage' = [l \in Tracked |-> Readers(DOMAIN records, l)]
  /\ phase' = "linear"
  /\ UNCHANGED <<records, content, goal, cycle>>

(***************************************************************************)
(* tryMove, repeated by moveAllWithoutConflict: the first record whose     *)
(* target nobody reads any more.                                           *)
(***************************************************************************)
Movable == {i \in Operational : TargetFree(records[i].target)}

TryMove ==
  /\ phase = "linear"
  /\ \E i \in Movable :
       LET r == records[i]
           erased == Erase(i)
           replaced == Replaced(r, erased)
           unmarked == Unmarked(usage, Halves(i))
       IN  /\ IsFirst(i, Movable)
           /\ content' = AfterMove(r, r.target, r.source)
           /\ records' = [j \in DOMAIN records |->
                            IF j \in replaced THEN [erased[j] EXCEPT !.source = r.target]
                                              ELSE erased[j]]
           /\ usage' = [l \in Tracked |->
                          IF l = r.source THEN unmarked[l] - Cardinality(replaced)
                          ELSE IF l = r.target THEN unmarked[l] + Cardinality(replaced)
                          ELSE unmarked[l]]
  /\ UNCHANGED <<goal, phase, cycle>>

(***************************************************************************)
(* No move is left without conflict: the resolver is done, or resolveCycle *)
(* takes up the first record.                                              *)
(***************************************************************************)
\* a faulty variant, to show what the properties detect
FinishUncounted ==
  /\ phase = "linear"
  /\ Len(records) = 0
  /\ phase' = "done"
  /\ UNCHANGED <<records, usage, content, goal, cycle>>

Finish ==
  /\ phase = "linear"
  /\ \A i \in DOMAIN records : records[i] = Erased
  /\ phase' = "done"
  /\ UNCHANGED <<records, usage, content, goal, cycle>>

\* a faulty variant, to show what the properties detect
AlwaysExtended(t, r) ==
  /\ t \in DOMAIN PairOf
  /\ \A j \in DOMAIN records : records[j].source \notin {t, High(t)}

\* the temp provider: a scratch register that no pending record reads
Selectable(t, r) ==
  /\ r.type = "extend" => t \in DOMAIN PairOf
  /\ \A j \in DOMAIN records : records[j].source \notin {t, High(t)}

BreakCycle ==
  /\ phase = "linear" /\ Movable = {} /\ machine.strategy = "temp"
  /\ \E i \in Operational, t \in machine.temps :
       /\ IsFirst(i, Operational)
       /\ Selectable(t, records[i])
       /\ content' = AfterMove(records[i], t, records[i].source)
       /\ usage' = Unmarked(usage, Halves(i))
       /\ records' = Erase(i)
       /\ head' = records[i] /\ temp' = t /\ hole' = records[i].source
  /\ phase' = "hole"
  /\ UNCHANGED <<goal, next, contains64>>

FillHole ==
  /\ phase = "hole"
  /\ \E i \in Targeting(hole) :
       /\ IsFirst(i, Targeting(hole))
       /\ content' = AfterMove(records[i], records[i].target, records[i].source)
       /\ usage' = Unmarked(usage, Halves(i))
       /\ records' = Erase(i)
       /\ hole' = records[i].source
  /\ UNCHANGED <<goal, phase, head, temp, next, contains64>>

CloseCycle ==
  /\ phase = "hole"
  /\ Targeting(hole) = {}
  /\ content' = AfterMove(head, head.target, temp)
  /\ phase' = "linear"
  /\ head' = Erased /\ temp' = NoLocation /\ hole' = NoLocation
  /\ UNCHANGED <<records, usage, goal, next, contains64>>

(***************************************************************************)
(* resolveCycleImpl by swaps.  One width serves all remaining records.     *)
(***************************************************************************)
\* a faulty variant, to show what the properties detect
HeadIs64 == \E i \in Operational : IsFirst(i, Operational) /\ records[i].wide
RemainingContain64 == \E i \in Operational : records[i].wide

BeginSwaps ==
  /\ phase = "linear" /\ Movable = {} /\ machine.strategy = "swap"
  /\ \E i \in Operational : IsFirst(i, Operational) /\ next' = i
  /\ contains64' = RemainingContain64
  /\ phase' = "swap"
  /\ UNCHANGED <<records, usage, content, goal, head, temp, hole>>

\* a faulty variant, to show what the properties detect
SwappedBySource(S) ==
  LET gone == UNION {Halves(i) : i \in S}
  IN  /\ records' = [j \in DOMAIN records |-> IF j \in gone THEN Erased ELSE records[j]]
      /\ usage' = Unmarked(usage, gone)

\* markAsSwapped, of one record or of the last two of a cycle
Swapped(S) ==
  LET gone == UNION {Halves(i) : i \in S}
  IN  /\ records' = [j \in DOMAIN records |-> IF j \in gone THEN Erased ELSE records[j]]
      /\ usage' = [l \in Tracked |->
                     usage[l] - Cardinality({j \in gone : records[j].target = l})]

\* the swap that follows: on in the cycle, or at the first record that is left
SwapOn(going, left) ==
  LET candidates == IF going # {} THEN going ELSE left
  IN  IF candidates = {} THEN phase' = "linear" /\ next' = 0
      ELSE UNCHANGED phase /\ \E i \in candidates : IsFirst(i, candidates) /\ next' = i

Swap ==
  /\ phase = "swap"
  /\ LET r == records[next]
         following == {i \in Targeting(r.source) : IsFirst(i, Targeting(r.source))}
         closing == {i \in following : Targeting(records[i].source) \ {next} = {}}
         resolved == {next} \union closing
     IN  /\ content' = AfterSwap(r.target, r.source, contains64)
         /\ Swapped(resolved)
         /\ SwapOn(following \ closing, Operational \ resolved)
  /\ UNCHANGED <<goal, head, temp, hole, contains64>>

-----------------------------------------------------------------------------
Init ==
  /\ machine \in Machines
  /\ records = <<>>
  /\ usage = [l \in Tracked |-> 0]
  /\ content = [l \in Location |-> Original(l)]
  /\ goal = [t \in Target |-> NoLocation]
  /\ phase = "collect"
  /\ head = Erased /\ temp = NoLocation /\ hole = NoLocation
  /\ next = 0 /\ contains64 = FALSE

Collect ==
  \/ \E target \in machine.targets, wide \in machine.widths :
       \E source \in machine.sources[target] : Push(target, source, wide)
  \/ \E target \in DOMAIN PairOf \ Temp, source \in (DOMAIN PairOf \ Temp) \union Slot \union Constant :
       PushExtended(target, source)

Resolve ==
  TryMove \/ Finish \/ BreakCycle \/ FillHole \/ CloseCycle \/ BeginSwaps \/ Swap

Next == (Collect \/ ResolveLinear \/ Resolve) /\ UNCHANGED machine

Spec == Init /\ [][Next]_vars

(***************************************************************************)
(* The resolver is one call that runs to its end.                          *)
(***************************************************************************)
FairSpec == Spec /\ WF_vars((ResolveLinear \/ Resolve) /\ UNCHANGED machine)

-----------------------------------------------------------------------------
(***************************************************************************)
(* Type invariant.  The usage counters never underflow.                    *)
(***************************************************************************)
RecordType ==
  [target : Location \union {NoLocation}, source : Location \union {NoLocation},
   type : Type, wide : BOOLEAN]
Phase == {"collect", "linear", "hole", "swap", "done"}

\* a target without a goal is told from one that has it
ASSUME GoalAssumption == NoLocation \notin RecordType

TypeOK ==
  /\ machine \in Machines
  /\ records \in Seq(RecordType) /\ Len(records) <= machine.capacity
  /\ usage \in [Tracked -> Nat]
  /\ content \in [Location -> [from : Location \union {NoLocation}, whole : BOOLEAN]]
  /\ goal \in [Target -> RecordType \union {NoLocation}]
  /\ phase \in Phase
  /\ head \in RecordType
  /\ {temp, hole} \subseteq Location \union {NoLocation}
  /\ next \in 0 .. machine.capacity /\ contains64 \in BOOLEAN

(***************************************************************************)
(* When the resolver is done, every target holds the value its source had  *)
(* before the first instruction, as wide as the argument is.               *)
(***************************************************************************)
Gets(location, g) == content[location].from = g.source /\ (g.wide => content[location].whole)

Resolved ==
  phase = "done" => \A t \in Target : goal[t] # NoLocation => Gets(t, goal[t])

(***************************************************************************)
(* Between two instructions no value is lost: what a pending record moves  *)
(* is in a constant or in a location the usage maps protect, the value of  *)
(* the cycle's head in the scratch register.                               *)
(***************************************************************************)
Protected == Constant \union {l \in Tracked : usage[l] > 0}

NothingLost ==
  /\ phase # "collect" =>
       \A i \in Operational : \E l \in Protected : Gets(l, goal[records[i].target])
  /\ phase = "hole" => Gets(temp, goal[head.target])

(***************************************************************************)
(* Inductive invariant, for the backends whose calls move single           *)
(* registers and slots that share no bytes.                                *)
(***************************************************************************)
SingleRegisters == \A m \in Machines : DOMAIN m.pairs = {} /\ m.overlaps = {}

Targets == {records[i].target : i \in Operational}
Wanted(i) == goal[records[i].target]

\* the record's value is where it reads it
Held(i) == Gets(records[i].source, Wanted(i))

\* a move of a single register that a call has asked for
IsMove(r) ==
  /\ r.type = "normal" /\ r.target \in Target /\ r.source \in Target \union Constant
  /\ r.source # r.target /\ r.wide \in BOOLEAN
  /\ goal[r.target] # NoLocation /\ (goal[r.target].wide <=> r.wide)

RecordsOK ==
  /\ \A i \in DOMAIN records : records[i] = Erased \/ IsMove(records[i])
  /\ \A i, j \in Operational : records[i].target = records[j].target => i = j

\* every target that was pushed is pending or has its value
Settled ==
  \A t \in Target : \/ goal[t] = NoLocation \/ t \in Targets
                    \/ phase = "hole" /\ t = head.target
                    \/ Gets(t, goal[t])

\* the usage maps count the pending records that read a location
Counted == \A l \in Tracked : usage[l] = Readers(Operational, l)

Collecting ==
  /\ \A i \in DOMAIN records : records[i] # Erased
  /\ content = [l \in Location |-> Original(l)]

\* In a cycle no two records read the same location.
SourcesDistinct ==
  \A i, j \in Operational : records[i].source = records[j].source => i = j

\* the chain of moves that ends with the scratch register: nobody reads the hole
WithHole ==
  /\ SourcesDistinct /\ IsMove(head) /\ temp \in Temp
  /\ Gets(temp, goal[head.target])
  /\ hole \in Targets \union {head.target} /\ head.target \notin Targets
  /\ \A i \in Operational : /\ records[i].source # hole
                            /\ records[i].source \in Targets \union {head.target}

\* a chain of swaps: what "start" held at first has come to the target of the
\* swap that is next
Swapping(start) ==
  LET place == records[next].target
  IN  /\ records[next].source # start /\ (start = place \/ start \notin Targets)
      /\ \A i \in Operational :
           IF records[i].source = start THEN Gets(place, Wanted(i))
           ELSE Held(i) /\ records[i].source \in Targets \ {place}

WithSwaps ==
  /\ SourcesDistinct /\ next \in Operational
  /\ \A l \in Tracked : usage[l] = IF l \in Targets THEN 1 ELSE 0
  /\ contains64 \/ \A i \in Operational : ~records[i].wide
  /\ \E start \in Target : Swapping(start)

IInv ==
  /\ TypeOK /\ RecordsOK /\ Settled
  /\ phase = "collect" => Collecting
  /\ phase # "swap" => \A i \in Operational : Held(i)
  /\ phase \in {"linear", "hole"} => Counted
  /\ phase = "hole" => WithHole
  /\ phase = "swap" => WithSwaps
  /\ phase = "done" => Operational = {}

(***************************************************************************)
(* The resolver gets rid of every record.                                  *)
(***************************************************************************)
Terminates == phase = "linear" ~> phase = "done"
=============================================================================
