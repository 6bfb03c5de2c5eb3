----------------------------- MODULE Arithmetic -----------------------------
(***************************************************************************)
(* Numeric instructions from their translation to their execution: the     *)
(* compiler picks machine instructions for the top elements of its stack,  *)
(* and the program runs them on whatever values the operands have by then. *)
(***************************************************************************)
EXTENDS NumericCode

TriCore == INSTANCE ArithTriCore

CONSTANTS Instructions, \* the instructions that are translated
          Values,       \* for each type, the values operands may have
          Places,       \* for each type, the scratch registers, locals and memory an operand may be in
          Hints,        \* for each type of a result, where the compiler may want it
          Bystanders    \* elements that may lie below the operands on the compile-time stack

VARIABLES phase,        \* "idle", "compiled" or "done"
          job,          \* the instruction, its operands and its translation
          outcome       \* what running it gave
vars == <<phase, job, outcome>>

-----------------------------------------------------------------------------
Cell(v, k) == (37 * k + 11 * v + 90) % Size(W)      \* what an unused cell holds
NoJob == [op |-> NoOp, args |-> <<>>, hint |-> NoElem, code |-> <<>>, result |-> NoElem, live |-> {}]
NotRun == [trap |-> "none", values |-> <<>>, result |-> 0, kept |-> TRUE]

\* The cells an element takes.
CellsOf(e) == IF e.k \in {"const", "none"} THEN {} ELSE IF Is64(e.t) THEN {e.r, e.r + 1} ELSE {e.r}
Apart(e, f) == CellsOf(e) \cap CellsOf(f) = {} \/ InSameLocation(e, f)
Operand(type) == Places[type] \cup {Const(type, v) : v \in Values[type]}
Operands(op) ==
  {a \in [1 .. Arity(op) -> UNION {Operand(ArgType(op, k)) : k \in 1 .. Arity(op)}] :
     /\ \A k \in 1 .. Arity(op) : a[k] \in Operand(ArgType(op, k))
     /\ \A k, l \in 1 .. Arity(op) : k # l => Apart(a[k], a[l])
     /\ \E k \in 1 .. Arity(op) : a[k].k # "const" }

\* What the instruction must leave alone: everything but its scratch operands
\* and the place its result goes to.
Live(args, hint, below) ==
  UNION {CellsOf(e) : e \in below \cup {args[k] : k \in {l \in DOMAIN args : args[l].k \in {"local", "memory"}}}}
  \ CellsOf(hint)

Compile ==
  /\ phase = "idle"
  /\ \E op \in Instructions :
       \E args \in Operands(op), hint \in Hints[ResultType(op)], below \in Bystanders :
         /\ \A e \in below : Apart(e, hint) /\ \A k \in DOMAIN args : CellsOf(e) \cap CellsOf(args[k]) = {}
         /\ \E stk \in {{e \in below \cup {args[k] : k \in DOMAIN args} : e.k = "scratch"}} :
              \E c \in {TriCore!Emit(op, args, hint, stk)} :
                 job' = [op |-> op, args |-> args, hint |-> hint, code |-> c.code, result |-> c.e,
                         live |-> Live(args, hint, below)]
  /\ phase' = "compiled"
  /\ UNCHANGED outcome

-----------------------------------------------------------------------------
Ended(trap, s) == [trap |-> trap, s |-> s]
RECURSIVE RunFrom(_, _, _)
RunFrom(code, i, s) ==
  IF i > Len(code) THEN Ended("none", s)
  ELSE IF code[i].n \in TrapCodes THEN Ended(code[i].n, s)
  ELSE IF TriCore!IsJump(code[i])
  THEN RunFrom(code, i + 1 + (IF TriCore!Jumps(code[i], s) THEN code[i].x ELSE 0), s)
  ELSE RunFrom(code, i + 1, TriCore!Exec(code[i], s))

\* The values of operands; those in one place have one value.
Assigned(args) ==
  {v \in [DOMAIN args -> UNION {Values[args[k].t] : k \in DOMAIN args}] :
     /\ \A k \in DOMAIN args : IF args[k].k = "const" THEN v[k] = args[k].v ELSE v[k] \in Values[args[k].t]
     /\ \A k, l \in DOMAIN args : InSameLocation(args[k], args[l]) => v[k] = v[l]}
RECURSIVE Placed(_, _, _)
Placed(args, v, s) ==
  IF args = <<>> THEN s
  ELSE Placed(Tail(args), Tail(v), IF Head(args).k = "const" THEN s ELSE TriCore!Store(s, Head(args), Head(v)))

Run ==
  /\ phase = "compiled"
  /\ \E v \in Assigned(job.args) :
       \E before \in {Placed(job.args, v, [k \in TriCore!Cells |-> Cell(v[1], k)])} :
         \E end \in {RunFrom(job.code, 1, before)} :
           outcome' = [trap |-> end.trap, values |-> v,
                       result |-> IF end.trap # "none" THEN 0 ELSE TriCore!Load(end.s, job.result),
                       kept |-> \A k \in job.live : end.s[k] = before[k]]
  /\ phase' = "done"
  /\ job' = [op |-> job.op, args |-> job.args, hint |-> job.hint, code |-> <<>>, result |-> job.result,
             live |-> job.live]

Init == phase = "idle" /\ job = NoJob /\ outcome = NotRun
Next == Compile \/ Run
Spec == Init /\ [][Next]_vars

-----------------------------------------------------------------------------
(***************************************************************************)
(* Two translations that TriCore gets wrong, see README.  A constant that  *)
(* the selected instruction overwrites goes to a register of its own when  *)
(* the hint already holds the other operand; and the low word of an F64    *)
(* stays behind when only the sign in its high word changes.               *)
(***************************************************************************)
ConstantMissesHint(op, args, hint) ==
  /\ op \in Of({"SUB", "MUL", "AND", "OR", "XOR"}, {"I32"}) /\ hint.k = "scratch"
  /\ \E k \in {1, 2} : args[k].k = "const" /\ args[3 - k].k = "memory"
LowWordStaysBehind(op, args, result) ==
  op \in Of({"ABS", "NEG"}, {"F64"}) /\ args[1].k # "memory" /\ args[1].r # result.r
KnownWrong == ConstantMissesHint(job.op, job.args, job.hint) \/ LowWordStaysBehind(job.op, job.args, job.result)

Finished == phase = "done"
Right ==
  /\ job.result.t = ResultType(job.op)
  /\ SameResult(job.op, Result(job.op, outcome.values), outcome.result)

(***************************************************************************)
(* Whatever instructions are selected, whichever registers the operands    *)
(* and the result share, and whatever the operands' values are: what the   *)
(* emitted code leaves where the compiler says the result is, is what the  *)
(* WebAssembly instruction computes.                                       *)
(***************************************************************************)
ResultMatches ==
  Finished /\ ~KnownWrong /\ Trap(job.op, outcome.values) = "none" /\ outcome.trap = "none" => Right

(***************************************************************************)
(* The emitted checks trap for the values for which the instruction is to  *)
(* trap, and for no others: a check left out because an operand is         *)
(* constant, a limit that is off by one, a NaN that passes.                *)
(***************************************************************************)
TrapsExactly == Finished => outcome.trap = Trap(job.op, outcome.values)

(***************************************************************************)
(* Locals, elements further down the stack and memory operands still hold  *)
(* their values afterwards: scratch registers that the code takes are      *)
(* free, halves of register pairs included.                                *)
(***************************************************************************)
OperandsKept == Finished => outcome.kept
=============================================================================
