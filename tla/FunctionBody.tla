---------------------------- MODULE FunctionBody ----------------------------
(***************************************************************************)
(* How the frontend validates a function body and keeps track of its       *)
(* control structure, one instruction at a time.  Two stacks are kept in   *)
(* step: the ValidationStack, a flat list in which structural elements lie *)
(* among the operand types, and the compile-time stack with the elements   *)
(* the code is generated for.  Each has its own idea of what cannot        *)
(* execute: the first follows the specification, the second also knows     *)
(* conditions that are constants and what lies inside of dead code.        *)
(*                                                                         *)
(* The instructions are arbitrary; an instruction that is refused ends the *)
(* compilation of the module.                                              *)
(***************************************************************************)
EXTENDS WasmInstructions, SequencesExt

CONSTANTS
  Number,        \* the number types
  FunctionType,  \* the signature of the function
  Instruction,   \* the instructions a body may contain
  MaxElements,   \* bound: elements on the validation stack
  MaxNesting     \* bound: elements of the compile-time stack with a block

Structural == {"FUNC", "BLOCK", "LOOP", "IF"}
SignatureType == [params : Seq(Number), results : Seq(Number)]

ASSUME NumberAssumption ==
  "i32" \in Number /\ Number \intersect (Structural \union {"ELSE_FENCE", "any"}) = {}

\* a branch has a label; the last one of a br_table is the default
ASSUME InstructionAssumption ==
  /\ FunctionType \in SignatureType
  /\ \A i \in Instruction :
       /\ i.type \in SignatureType
       /\ i.op \in {"br", "br_if", "br_table"} => i.labels \in Seq(Nat) /\ i.labels # <<>>

ASSUME BoundAssumption == MaxElements \in Nat /\ MaxNesting \in Nat

VARIABLES
  elements,      \* the validation stack, the function's element first
  current,       \* position of the innermost structural element
  blocks,        \* the function and the open blocks on the compile-time stack
  verdict,       \* "valid" so far, "rejected", or "done"
  instruction    \* the last instruction looked at

vars == <<elements, current, blocks, verdict, instruction>>

-----------------------------------------------------------------------------
(* The validation stack.                                                   *)

Element(kind, type, prev) ==
  [kind |-> kind, type |-> type, prev |-> prev, formallyUnreachable |-> FALSE]

ElseFence == Element("ELSE_FENCE", NoType, 0)
Values(types) == [k \in DOMAIN types |-> Element(types[k], NoType, 0)]

IsNumber(e) == e.kind \in Number \union {"any"}
NumberKinds(list) == [k \in DOMAIN list |-> list[k].kind]

\* the last element that is not a number: the current block or its fence
Floor(list) == SelectLastInSeq(list, LAMBDA e : ~IsNumber(e))
Held(list) == NumberKinds(SubSeq(list, Floor(list) + 1, Len(list)))

FormallyUnreachable == elements[current].formallyUnreachable

\* validateParams, validateResults, validateLastNumberType: the types are on
\* top; in unreachable code those that are missing are made up
Holds(list, types) == FitsAtEnd(Held(list), types, FormallyUnreachable)

\* the position below them; the variant digs below the current block
BaseAnywhere(list, types) == Len(list) - Len(types)
Base(list, types) == LET n == Len(list) - Len(types)
                     IN  IF n < Floor(list) THEN Floor(list) ELSE n

\* what is left when they are popped
Below(types) == Keep(elements, Base(elements, types))

\* when they stay, the missing ones are made up and an operand of any type becomes
\* one of the type asked for; the variant leaves on the stack what is there
KeptAsFound(types) == SubSeq(elements, Base(elements, types) + 1, Len(elements))
Kept(types) == Values(types)

\* markCurrentBlockUnreachable
MarkedUnreachable ==
  [Keep(elements, Floor(elements)) EXCEPT ![current].formallyUnreachable = TRUE]

\* findTargetBlock: 0 if there is none
Target(depth) ==
  LET enclosing[d \in 0 .. depth] ==
        IF d = 0 THEN current
        ELSE IF enclosing[d - 1] = 0 THEN 0 ELSE elements[enclosing[d - 1]].prev
  IN  enclosing[depth]

BranchTypes(isLoop, type) == IF isLoop THEN type.params ELSE type.results

\* validateBranch: what the target expects
TargetTypes(depth) ==
  LET e == elements[Target(depth)] IN BranchTypes(e.kind = "LOOP", e.type)

\* a structural element goes below its parameters
BlockInserted(kind, type) ==
  Append(Below(type.params), Element(kind, type, current)) \o Kept(type.params)

\* below the condition two copies of the parameters, one on each side of the fence
Condition(type) == Append(type.params, "i32")
IfInserted(type) ==
  LET params == Front(Kept(Condition(type)))
  IN  Append(Below(Condition(type)), Element("IF", type, current))
        \o params \o <<ElseFence>> \o params

\* validateElse: the results and nothing else lie above the fence
ElseExpected ==
  LET results == elements[current].type.results
  IN  /\ elements[current].kind = "IF"
      /\ Holds(elements, results)
      /\ Last(Below(results)) = ElseFence

\* validateEnd: the results and nothing else lie above the block, or above the
\* fence of an if
EndExpected ==
  LET e == elements[current]
      base == Base(elements, e.type.results)
  IN  /\ Holds(elements, e.type.results)
      /\ base = current \/ (e.kind = "IF" /\ elements[base] = ElseFence)

-----------------------------------------------------------------------------
(* The compile-time stack.  "count" is the number of operands (valent      *)
(* blocks) above the element and below the next one; no code is generated  *)
(* in an unreachable frame, and what it still has on the stack is ignored. *)

Block(kind, type, unreachable, count) ==
  [kind |-> kind, type |-> type, unreachable |-> unreachable,
   count |-> IF unreachable THEN 0 ELSE count]

\* currentFrameIsUnreachable
CurrentFrameIsUnreachable == Last(blocks).unreachable

\* code is generated that pops and pushes so many operands
Moved(pops, pushes) ==
  IF CurrentFrameIsUnreachable THEN blocks
  ELSE [blocks EXCEPT ![Len(blocks)].count = @ - pops + pushes]

\* setCurrentFrameFormallyUnreachable
FrameUnreachable ==
  Append(Front(blocks), Block(Last(blocks).kind, Last(blocks).type, TRUE, 0))

\* the innermost block is popped: operands left in it, n of which the end of
\* the block has consumed, go to the block around it, and so do "back" more;
\* the variant forgets what an unreachable block returns
ClosedByCount(list, n, back) ==
  LET k == Len(list) - 1
  IN  [Front(list) EXCEPT ![k].count =
         IF list[k].unreachable THEN 0 ELSE @ + Last(list).count - n + back]

Closed(list, n, back) ==
  LET inner == Last(list)
      left == IF inner.unreachable THEN 0 ELSE inner.count - n
      k == Len(list) - 1
  IN  [Front(list) EXCEPT ![k].count = IF list[k].unreachable THEN 0 ELSE @ + left + back]

\* findTargetBlock of the frontend skips the inner block of an if; 0 if there is
\* no block at this depth
BeyondIf(k) == IF k # 0 /\ blocks[k].kind = "IFBLOCK" THEN k - 1 ELSE k
BranchTarget(depth) ==
  LET enclosing[d \in 0 .. depth] ==
        IF d = 0 THEN BeyondIf(Len(blocks))
        ELSE IF enclosing[d - 1] = 0 THEN 0 ELSE BeyondIf(enclosing[d - 1] - 1)
  IN  enclosing[depth]

-----------------------------------------------------------------------------
Accept(elementsAfter, currentAfter, blocksAfter) ==
  /\ elements' = elementsAfter
  /\ current' = currentAfter
  /\ blocks' = blocksAfter
  /\ verdict' = "valid"

\* a ValidationException
Reject == verdict' = "rejected" /\ UNCHANGED <<elements, current, blocks>>

Decide(valid, elementsAfter, currentAfter, blocksAfter) ==
  IF valid THEN Accept(elementsAfter, currentAfter, blocksAfter) ELSE Reject

PlainInstruction(i) ==
  /\ i.op = "plain"
  /\ Decide(Holds(elements, i.type.params),
            Below(i.type.params) \o Values(i.type.results), current,
            Moved(Len(i.type.params), Len(i.type.results)))

Drop(i) ==
  /\ i.op = "drop"
  /\ Decide(Held(elements) # <<>> \/ FormallyUnreachable,
            IF Held(elements) = <<>> THEN elements ELSE Front(elements), current,
            Moved(1, 0))

\* of two operands one stays; of less than two, in unreachable code, what is there
Select(i) ==
  LET list == Below(<<"i32">>)
      held == Held(list)
      n == Len(held)
      arg0 == held[n - 1]
      arg1 == held[n]
      valid == IF n >= 2 THEN arg0 = arg1 \/ (FormallyUnreachable /\ "any" \in {arg0, arg1})
               ELSE FormallyUnreachable
      after == IF n = 0 THEN list \o Values(<<"any">>)
               ELSE IF n = 1 THEN list
               ELSE Keep(list, Len(list) - 2) \o Values(<<IF arg0 = "any" THEN arg1 ELSE arg0>>)
  IN  /\ i.op = "select"
      /\ Decide(Holds(elements, <<"i32">>) /\ valid, after, current, Moved(3, 1))

EnterBlock(i) ==
  LET n == Len(i.type.params)
      kind == IF i.op = "loop" THEN "LOOP" ELSE "BLOCK"
  IN  /\ i.op \in {"block", "loop"}
      /\ Decide(Holds(elements, i.type.params),
                BlockInserted(kind, i.type), Base(elements, i.type.params) + 1,
                Append(Moved(n, 0), Block(kind, i.type, CurrentFrameIsUnreachable, n)))

\* a block within a block: the inner one ends at the else, where a false
\* condition leads; a constant condition makes one of them dead
EnterIf(i) ==
  LET n == Len(i.type.params)
      dead == CurrentFrameIsUnreachable
  IN  /\ i.op = "if"
      /\ Decide(Holds(elements, Condition(i.type)),
                IfInserted(i.type), Base(elements, Condition(i.type)) + 1,
                Moved(n + 1, 0)
                  \o <<Block("BLOCK", i.type, dead \/ i.known = "true", n),
                       Block("IFBLOCK", i.type, dead \/ i.known = "false", n)>>)

\* the first copy of the parameters is what the other branch starts with; the
\* variant does not reset formallyUnreachable
BelowFence == Front(Below(elements[current].type.results))
ElseStaysUnreachable(i) ==
  i.op = "else" /\ Decide(ElseExpected, BelowFence, current, Front(blocks))

Else(i) ==
  /\ i.op = "else"
  /\ Decide(ElseExpected,
            [BelowFence EXCEPT ![current].formallyUnreachable = FALSE], current,
            Front(blocks))

EndFunction(i) ==
  /\ i.op = "end"
  /\ elements[current].kind = "FUNC"
  /\ IF EndExpected
     THEN /\ verdict' = "done"
          /\ elements' = <<>>
          /\ blocks' = <<>>
          /\ UNCHANGED current
     ELSE Reject

\* an if that still has its inner block has no else: the parameters that a false
\* condition would return are compared with the results by their number
EndBlock(i) ==
  LET e == elements[current]
      results == e.type.results
      n == Len(results)
      noElse == Last(blocks).kind = "IFBLOCK"
  IN  /\ i.op = "end"
      /\ e.kind # "FUNC"
      /\ Decide(EndExpected /\ (noElse => Len(e.type.params) = n),
                Keep(elements, current - 1) \o Kept(results), e.prev,
                IF noElse THEN Closed(Closed(blocks, n, 0), n, n)
                          ELSE Closed(blocks, n, n))

-----------------------------------------------------------------------------
BranchAlways(i) ==
  LET depth == i.labels[1]
  IN  /\ i.op = "br"
      /\ Decide(Target(depth) # 0 /\ Holds(elements, TargetTypes(depth)),
                MarkedUnreachable, current, FrameUnreachable)

\* a condition that is the constant true makes the rest of the frame dead for
\* the compiler, not for the validation
BranchIf(i) ==
  LET depth == i.labels[1]
      needed == Append(TargetTypes(depth), "i32")
      always == i.known = "true" /\ ~CurrentFrameIsUnreachable
  IN  /\ i.op = "br_if"
      /\ Decide(Target(depth) # 0 /\ Holds(elements, needed),
                Below(needed) \o Front(Kept(needed)), current,
                IF always THEN FrameUnreachable ELSE Moved(1, 0))

\* the first label is validated; the others are compared with it, in dead code
\* by their number of types only
SameTypes(depth, types) ==
  LET b == blocks[BranchTarget(depth)]
      own == BranchTypes(b.kind = "LOOP", b.type)
  IN  /\ BranchTarget(depth) # 0
      /\ Len(own) = Len(types) /\ (CurrentFrameIsUnreachable \/ own = types)

BranchTable(i) ==
  LET depth == i.labels[1]
      types == TargetTypes(depth)
  IN  /\ i.op = "br_table"
      /\ Decide(/\ Target(depth) # 0
                /\ Holds(elements, Append(types, "i32"))
                /\ \A k \in DOMAIN i.labels : SameTypes(i.labels[k], types),
                MarkedUnreachable, current, FrameUnreachable)

Unreachable(i) ==
  /\ i.op = "unreachable"
  /\ Accept(MarkedUnreachable, current, FrameUnreachable)

Return(i) ==
  /\ i.op = "return"
  /\ Decide(Holds(elements, elements[1].type.results),
            MarkedUnreachable, current, FrameUnreachable)

ReturnCallInstruction(i) ==
  /\ i.op = "return_call"
  /\ Decide(i.type.results = elements[1].type.results /\ Holds(elements, i.type.params),
            MarkedUnreachable, current, FrameUnreachable)

-----------------------------------------------------------------------------
Init ==
  /\ elements = <<Element("FUNC", FunctionType, 0)>>
  /\ current = 1
  /\ blocks = <<Block("FUNC", FunctionType, FALSE, 0)>>
  /\ verdict = "valid"
  /\ instruction = Simple("none")

Handle(i) ==
  \/ PlainInstruction(i) \/ Drop(i) \/ Select(i)
  \/ EnterBlock(i) \/ EnterIf(i) \/ Else(i) \/ EndBlock(i) \/ EndFunction(i)
  \/ BranchAlways(i) \/ BranchIf(i) \/ BranchTable(i)
  \/ Unreachable(i) \/ Return(i) \/ ReturnCallInstruction(i)

Next ==
  /\ verdict = "valid"
  /\ \E i \in Instruction : Handle(i) /\ instruction' = i
  /\ Len(elements') <= MaxElements
  /\ Len(blocks') <= MaxNesting

Spec == Init /\ [][Next]_vars

-----------------------------------------------------------------------------
(* Properties.                                                             *)

BlockKind == {"FUNC", "BLOCK", "LOOP", "IFBLOCK"}
Type == {FunctionType, NoType} \union {i.type : i \in Instruction}
ElementType == [kind : Structural \union {"ELSE_FENCE", "any"} \union Number,
                type : Type, prev : 0 .. MaxElements, formallyUnreachable : BOOLEAN]
BlockType == [kind : BlockKind, type : Type, unreachable : BOOLEAN, count : 0 .. MaxElements]

\* The two stacks hold elements of their kinds, and until the function has ended
\* the current block is among them.
TypeOK ==
  /\ elements \in Seq(ElementType) /\ blocks \in Seq(BlockType)
  /\ verdict \in {"valid", "rejected", "done"}
  /\ verdict # "done" =>
       blocks # <<>> /\ current \in DOMAIN elements /\ elements[current].kind \in Structural

\* The element k, or the end of the list behind k - 1, belongs to the
\* structural element j.
Encloses(list, j, k) ==
  /\ j \in 1 .. k - 1 /\ list[j].kind \in Structural
  /\ \A l \in j + 1 .. k - 1 : list[l].kind \notin Structural

\* Values whose type was made up behind an unconditional branch must not leave
\* the block they are in: an operand of any type exists only in a block that the
\* validation has marked unreachable, so a check elsewhere cannot be met by it
\* (numberMatch replaces it whenever operands are kept).
AnyOnlyWhereUnreachable ==
  \A j, k \in DOMAIN elements :
    elements[k].kind = "any" /\ Encloses(elements, j, k) => elements[j].formallyUnreachable

\* The structural element that each block of the compile-time stack stands for:
\* the current one for the last block, and the others by following prev.  Both
\* blocks of an if stand for the same one.
PlacesOf(list, last, opened) ==
  LET place[k \in DOMAIN opened] ==
        IF k = Len(opened) THEN last
        ELSE IF opened[k + 1].kind = "IFBLOCK" THEN place[k + 1]
        ELSE list[place[k + 1]].prev
  IN  place

\* While the first branch of an if is open, the block around it waits with the
\* parameters of the second one.
Waits(opened, k) == k < Len(opened) /\ opened[k + 1].kind = "IFBLOCK"
EndOf(list, opened, place, k) == IF k = Len(opened) THEN Len(list) ELSE place[k + 1] - 1

Matches(list, b, j, end, waits) ==
  LET e == list[j]
  IN  /\ b.type = e.type
      /\ b.kind = IF e.kind # "IF" THEN e.kind ELSE IF b.kind = "IFBLOCK" THEN "IFBLOCK" ELSE "BLOCK"
      /\ waits => b.kind = "BLOCK" /\ (b.unreachable \/ b.count = Len(e.type.params))
      /\ ~waits =>
           /\ Encloses(list, j, end + 1)
           /\ b.kind = "IFBLOCK" <=> \E q \in j + 1 .. end : list[q].kind = "ELSE_FENCE"
           /\ e.formallyUnreachable => b.unreachable
           /\ b.unreachable \/ b.count = end - Floor(Keep(list, end))

Agrees(list, opened, place, k) ==
  Matches(list, opened[k], place[k], EndOf(list, opened, place, k), Waits(opened, k))

\* The validation and the compiler see the same structure, although each keeps
\* its own and decides for itself what is unreachable: the same blocks with the
\* same signatures, an inner block exactly while an else may still come, dead
\* code for the compiler wherever the validation has any, and in live code as
\* many operands on one stack as on the other, so that popping a block's results
\* finds the block below them.
CompileStackAgrees ==
  LET place == PlacesOf(elements, current, blocks)
  IN  verdict # "done" =>
        place[1] = 1 /\ \A k \in DOMAIN blocks : Agrees(elements, blocks, place, k)

\* The stack of control frames that the flat list stands for: each structural
\* element with what is held when the list ends before the next one.  While an if
\* has its fence, the parameters for its else are set aside below it.
ControlFrame(list, j) ==
  LET e == list[j]
  IN  [op |-> CASE e.kind = "FUNC" -> "function"
                [] e.kind = "BLOCK" -> "block"
                [] e.kind = "LOOP" -> "loop"
                [] e.kind = "IF" -> IF Floor(list) = j THEN "else" ELSE "if",
       type |-> e.type,
       operands |-> Held(list),
       unreachable |-> e.formallyUnreachable]

FramesAround(list, last) ==
  LET around[j \in 1 .. last] ==
        LET outer == list[j].prev
        IN  IF outer \in 1 .. j - 1
            THEN Append(around[outer], ControlFrame(Keep(list, j - 1), outer)) ELSE <<>>
  IN  around[last]

ControlFrames(list, last) ==
  IF list = <<>> THEN <<>> ELSE Append(FramesAround(list, last), ControlFrame(list, last))

\* Each instruction is accepted or rejected as the validation algorithm of the
\* WebAssembly specification does it, through any nesting and any amount of code
\* that cannot execute: the flat list with its fences stands for the stack of
\* control frames, each with its own operands.
WasmSpecification == INSTANCE WasmValidation WITH
  frames <- ControlFrames(elements, current),
  dead <- CurrentFrameIsUnreachable

ImplementsValidation == WasmSpecification!Spec

-----------------------------------------------------------------------------
(***************************************************************************)
(* Inductive invariant: a structural element names the one around it, and  *)
(* a fence lies above the copy of the parameters that its if began with.   *)
(***************************************************************************)
WellPlaced(list, k) ==
  /\ list[k].kind # "FUNC"
  /\ list[k].kind \in Structural => Encloses(list, list[k].prev, k)
  /\ list[k].kind = "ELSE_FENCE" =>
       /\ list[k] = ElseFence
       /\ \E j \in 1 .. k - 1 :
            /\ list[j].kind = "IF" /\ k = j + Len(list[j].type.params) + 1
            /\ \A l \in j + 1 .. k - 1 : list[l].kind \in Number

ListOK ==
  /\ elements # <<>> /\ elements[1].kind = "FUNC" /\ elements[1].prev = 0
  /\ Encloses(elements, current, Len(elements) + 1)
  /\ \A k \in DOMAIN elements \ {1} : WellPlaced(elements, k)

IInv ==
  /\ TypeOK
  /\ IF verdict = "done" THEN elements = <<>> ELSE ListOK /\ AnyOnlyWhereUnreachable
  /\ CompileStackAgrees

\* What the refinement needs beyond it: the first element is the function's, an if
\* has the type of its instruction, and what lies between it and its fence are its
\* parameters.
IfTypes(list, k) ==
  list[k].kind = "IF" => \E i \in Instruction : i.op = "if" /\ i.type = list[k].type

ParamsSaved(list, k) ==
  list[k].kind = "ELSE_FENCE" =>
    \A j \in 1 .. k - 1 :
      Encloses(list, j, k) =>
        \A q \in j + 1 .. k - 1 : list[q].kind = list[j].type.params[q - j]

Saved(list) ==
  /\ list[1].type = FunctionType
  /\ \A k \in 1 .. Len(list) : IfTypes(list, k) /\ ParamsSaved(list, k)

SavedOK == verdict # "done" => Saved(elements)
=============================================================================
