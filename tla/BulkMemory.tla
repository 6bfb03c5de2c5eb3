------------------------------ MODULE BulkMemory ------------------------------
(***************************************************************************)
(* The code the three backends emit for memory.copy and memory.fill, as    *)
(* the phases it goes through: each moves (or sets) chunks of one width,   *)
(* so often as was known to the compiler or as long as the size register   *)
(* says.  An action is one chunk.                                          *)
(*                                                                         *)
(* Chunks and unrolling thresholds are the code's; a 32-bit register holds *)
(* Word values, so that Word \div 2 is where a size becomes negative.      *)
(* The addresses 0 .. size of the memory - 1 are the linear memory; other  *)
(* addresses hold something else of the same process.                      *)
(***************************************************************************)
EXTENDS Integers, Sequences

CONSTANTS
  Word,          \* 2^32
  MemorySizes,   \* [target -> bytes of its linear memory]
  Requests,      \* the instructions to execute
  Filler         \* the byte memory.fill sets

Targets == {"x86_64", "aarch64", "tricore"}
Address == 0 .. Word - 1

ASSUME BulkAssumption ==
  /\ Word \in Nat /\ Word % 32 = 0 /\ Word >= 128
  /\ MemorySizes \in [Targets -> 0 .. Word]
  /\ MemorySizes["tricore"] <= Word \div 2
  /\ Filler \notin Address
  /\ Requests \subseteq [target : Targets, kind : {"copy", "fill"}, constant : BOOLEAN,
                         dst : Address, src : Address, size : Address]

VARIABLES
  req,       \* the instruction
  mem,       \* what every address holds; at first its own name
  done,      \* bytes the pointers have moved from the end they started at
  left,      \* the size register
  phases,    \* what is still to be done
  pc         \* "check", "run", "trapped", "finished"

vars == <<req, mem, done, left, phases, pc>>

(***************************************************************************)
(* Phases.                                                                 *)
(***************************************************************************)
Loop == -1
Negative(n) == n % Word >= Word \div 2
Phase(kind, width, times) == [kind |-> kind, width |-> width, times |-> times]

\* unrolled: the offsets are constants and the size register stays as it is
Unrolled(width, n) == <<Phase("unrolled", width, n)>>
\* a chunk that also decrements the size register
Counted(width, n) == <<Phase("counted", width, n)>>
\* while the size register, unsigned, has a chunk
WhileAtLeast(width) == <<Phase("atleast", width, Loop)>>
\* while the size register less the chunk is not negative
WhileNotNegative(width) == <<Phase("notnegative", width, Loop)>>
\* while the size register, negated and signed, is not above -width
WhileNegated(width) == <<Phase("negated", width, Loop)>>
\* the size register is set anew
Reduce(n) == <<Phase("reduce", 0, n)>>

\* a faulty variant, to show what the properties detect
EmptyWhenZero(p, n) ==
  \/ p.kind \in {"unrolled", "counted"} /\ p.times = 0
  \/ p.kind = "atleast" /\ n = 0
  \/ p.kind = "notnegative" /\ Negative(n - p.width)
  \/ p.kind = "negated" /\ (n < p.width \/ n > Word \div 2)

\* a phase is over when the size register holds n
Empty(p, n) ==
  \/ p.kind \in {"unrolled", "counted"} /\ p.times = 0
  \/ p.kind = "atleast" /\ n < p.width
  \/ p.kind = "notnegative" /\ Negative(n - p.width)
  \/ p.kind = "negated" /\ (n < p.width \/ n > Word \div 2)

-----------------------------------------------------------------------------
(***************************************************************************)
(* Which way: towards lower addresses when the source is below.            *)
(***************************************************************************)
\* a faulty variant, to show what the properties detect
BackwardsSwapped(r) == r.kind = "copy" /\ r.src > r.dst

Backwards(r) ==
  IF r.kind = "fill" THEN r.target = "x86_64"
  ELSE IF r.target = "x86_64" THEN r.src <= r.dst ELSE r.src < r.dst

(***************************************************************************)
(* x86_64.                                                                 *)
(***************************************************************************)
X86Loop(r, width) ==
  IF width = 8 /\ ~Backwards(r) THEN WhileNegated(8) ELSE WhileAtLeast(width)

X86Constant(r) ==
  LET words == r.size \div 8
      bytes == r.size % 8
  IN  (IF words <= 3 THEN Unrolled(8, words) \o Reduce(IF bytes = 0 THEN 0 ELSE 8 * words)
                     ELSE X86Loop(r, 8))
      \o (IF bytes <= 3 THEN Unrolled(1, bytes) ELSE X86Loop(r, 1))

X86Copy(r) == IF r.constant THEN X86Constant(r) ELSE X86Loop(r, 8) \o X86Loop(r, 1)
X86Fill(r) == X86Loop(r, 8) \o X86Loop(r, 1)

(***************************************************************************)
(* AArch64.  A constant size leaves the wide loop with the size register   *)
(* at what is left of it.                                                  *)
(***************************************************************************)
Arm64Constant(r) ==
  LET pairs == r.size \div 16
      words == (r.size % 16) \div 8
      bytes == r.size % 8
  IN  (IF pairs <= 2 THEN Unrolled(16, pairs) ELSE WhileNotNegative(16))
      \o (IF bytes <= 2 THEN <<>> ELSE Reduce(IF pairs <= 2 THEN r.size - bytes ELSE 8 * words))
      \o Unrolled(8, words)
      \o (IF bytes <= 2 THEN Unrolled(1, bytes) ELSE WhileAtLeast(1))

Arm64Copy(r) == IF r.constant THEN Arm64Constant(r) ELSE WhileNotNegative(16) \o WhileAtLeast(1)
Arm64Fill(r) == WhileNotNegative(16) \o WhileAtLeast(1)

(***************************************************************************)
(* TriCore: words and double words must lie at even addresses.  The first  *)
(* byte of a copy is moved on its own when the end it starts at is odd.    *)
(***************************************************************************)
End(r) == IF Backwards(r) THEN r.dst + r.size ELSE r.dst

TriCoreCopy(r) ==
  (IF r.size >= 8 /\ r.src % 2 = r.dst % 2
   THEN Counted(1, End(r) % 2) \o WhileAtLeast(8)
   ELSE <<>>) \o WhileAtLeast(1)

\* the byte that aligns the destination is not asked whether there is one to set
TriCoreFill(r) == Counted(1, r.dst % 2) \o WhileAtLeast(4) \o WhileAtLeast(1)

Emitted(r) ==
  IF r.target = "x86_64" THEN IF r.kind = "copy" THEN X86Copy(r) ELSE X86Fill(r)
  ELSE IF r.target = "aarch64" THEN IF r.kind = "copy" THEN Arm64Copy(r) ELSE Arm64Fill(r)
  ELSE IF r.kind = "copy" THEN TriCoreCopy(r) ELSE TriCoreFill(r)

-----------------------------------------------------------------------------
(***************************************************************************)
(* The bounds check is made once, for the operand that reaches further:    *)
(* 64 bits wide, or in 32 bits with a test for the carry.                  *)
(***************************************************************************)
Farther(r) == IF r.kind = "copy" /\ r.src > r.dst THEN r.src ELSE r.dst

CheckedEnd(r) ==
  LET sum == (Farther(r) + r.size) % Word
  IN  IF r.target # "tricore" THEN Farther(r) + r.size
      ELSE IF sum < r.size THEN Word ELSE sum

Init ==
  /\ req \in Requests
  /\ mem = [a \in Address |-> a]
  /\ done = 0
  /\ left = req.size
  /\ phases = <<>>
  /\ pc = "check"

Check ==
  /\ pc = "check"
  /\ IF CheckedEnd(req) > MemorySizes[req.target]
     THEN pc' = "trapped" /\ UNCHANGED phases
     ELSE pc' = "run" /\ phases' = Emitted(req)
  /\ UNCHANGED <<req, mem, done, left>>

(***************************************************************************)
(* One chunk: loaded as a whole, then stored.                              *)
(***************************************************************************)
At(start, width) == (IF Backwards(req) THEN start + req.size - done - width ELSE start + done)
                    % Word

Store(width) ==
  LET to == At(req.dst, width)
      from == At(req.src, width)
      covered == {(to + i) % Word : i \in 0 .. width - 1}
  IN  mem' = [a \in Address |->
                IF a \notin covered THEN mem[a]
                ELSE IF req.kind = "fill" THEN Filler
                ELSE mem[(from + a - to) % Word]]

Chunk ==
  /\ pc = "run" /\ phases # <<>>
  /\ LET p == Head(phases)
     IN  /\ p.kind # "reduce" /\ ~Empty(p, left)
         /\ Store(p.width)
         /\ done' = (done + p.width) % Word
         /\ left' = IF p.kind = "unrolled" THEN left ELSE (left - p.width) % Word
         /\ phases' = IF p.times = Loop THEN phases
                      ELSE <<[p EXCEPT !.times = p.times - 1]>> \o Tail(phases)
  /\ UNCHANGED <<req, pc>>

NextPhase ==
  /\ pc = "run" /\ phases # <<>>
  /\ LET p == Head(phases)
     IN  IF p.kind = "reduce" THEN left' = (left - p.times) % Word
                              ELSE Empty(p, left) /\ UNCHANGED left
  /\ phases' = Tail(phases)
  /\ UNCHANGED <<req, mem, done, pc>>

Finish ==
  /\ pc = "run" /\ phases = <<>>
  /\ pc' = "finished"
  /\ UNCHANGED <<req, mem, done, left, phases>>

Next == Check \/ Chunk \/ NextPhase \/ Finish

Spec == Init /\ [][Next]_vars

\* The thread that executes the code goes on.
FairSpec == Spec /\ WF_vars(Next)

-----------------------------------------------------------------------------
(***************************************************************************)
(* What WebAssembly says the instructions do.                              *)
(***************************************************************************)
Destination(r) == r.dst .. r.dst + r.size - 1
OutOfBounds(r) == Farther(r) + r.size > MemorySizes[r.target]

Effect(r) ==
  [a \in Address |->
     IF a \notin Destination(r) THEN a
     ELSE IF r.kind = "fill" THEN Filler ELSE r.src + a - r.dst]

(***************************************************************************)
(* Requests the emitted code gets wrong: see the README.                   *)
(***************************************************************************)
\* the wide loop takes the size for a negative number, or its negation for a
\* positive one, and only the unrolled bytes that follow are copied
HugeConstantCopy(r) ==
  /\ r.kind = "copy" /\ r.constant
  /\ \/ r.target = "aarch64" /\ r.size >= Word \div 2 + 16 /\ r.size % 8 <= 2
     \/ r.target = "x86_64" /\ ~Backwards(r) /\ r.size > Word \div 2 /\ r.size % 8 <= 3

\* the byte that aligns the destination makes the size negative
EmptyFillAtOddAddress(r) ==
  r.target = "tricore" /\ r.kind = "fill" /\ r.size = 0 /\ r.dst % 2 = 1

Unsound(r) == HugeConstantCopy(r) \/ EmptyFillAtOddAddress(r)

\* When the instruction is over, memory is what one indivisible move or fill
\* would have made of it, whatever the overlap, the order of the chunks and the
\* unrolling; it has trapped exactly when it reaches out of bounds, and then
\* not a byte was written.
DoneAsIfAtOnce ==
  /\ pc = "finished" => ~OutOfBounds(req) /\ mem = Effect(req)
  /\ pc = "trapped" => OutOfBounds(req) /\ mem = [a \in Address |-> a]

\* While it is under way, no chunk reaches beyond the bytes it is meant to
\* write: these need not be the module's own.
OnlyDestinationWritten ==
  \A a \in Address \ Destination(req) : mem[a] = a

\* TriCore accepts words and double words at even addresses only, at both ends
\* of a copy.
EvenAddresses ==
  (req.target = "tricore" /\ pc = "run" /\ phases # <<>> /\ Head(phases).width > 1
   /\ ~Empty(Head(phases), left))
  => /\ At(req.dst, Head(phases).width) % 2 = 0
     /\ req.kind = "copy" => At(req.src, Head(phases).width) % 2 = 0

(***************************************************************************)
(* Inductive invariant.  Before(p, After) are the pairs of bytes that are  *)
(* left to do and of contents of the size register from which the phase p, *)
(* and what comes after it, does what is left and no more: a loop may end  *)
(* wherever its condition says so, and what follows must do the rest.      *)
(***************************************************************************)
Over == {x \in Address \X Address : x[1] = 0}

Completes(p, rest, n, After) ==
  /\ p.kind = "unrolled" =>
       /\ rest >= p.width * p.times
       /\ <<rest - p.width * p.times, n>> \in After
  /\ p.kind = "counted" =>
       /\ rest >= p.width * p.times /\ n >= p.width * p.times
       /\ <<rest - p.width * p.times, n - p.width * p.times>> \in After
  /\ p.kind = "reduce" => n >= p.times /\ <<rest, n - p.times>> \in After
  /\ p.kind \in {"atleast", "notnegative", "negated"} =>
       /\ rest = n
       /\ \A end \in 0 .. rest, k \in 0 .. rest :
            rest = end + k * p.width /\ Empty(p, end) => <<end, end>> \in After

Before(p, After) == {x \in Address \X Address : Completes(p, x[1], x[2], After)}

\* no instruction has more than four phases
Exactly(s) ==
  IF Len(s) = 0 THEN Over
  ELSE IF Len(s) = 1 THEN Before(s[1], Over)
  ELSE IF Len(s) = 2 THEN Before(s[1], Before(s[2], Over))
  ELSE IF Len(s) = 3 THEN Before(s[1], Before(s[2], Before(s[3], Over)))
  ELSE IF Len(s) = 4 THEN Before(s[1], Before(s[2], Before(s[3], Before(s[4], Over))))
  ELSE {}

PhaseType ==
  [kind : {"unrolled", "counted"}, width : 1 .. 16, times : Nat]
    \union [kind : {"reduce"}, width : {0}, times : Nat]
    \union [kind : {"atleast", "notnegative", "negated"}, width : 1 .. 16, times : {Loop}]

TypeOK ==
  /\ req \in Requests
  /\ mem \in [Address -> Address \union {Filler}]
  /\ done \in Address /\ left \in Address
  /\ phases \in Seq(PhaseType)
  /\ pc \in {"check", "run", "trapped", "finished"}

\* the bytes the chunks have dealt with so far
Dealt == IF Backwards(req) THEN req.dst + req.size - done .. req.dst + req.size - 1
                           ELSE req.dst .. req.dst + done - 1

Moved == mem = [a \in Address |-> IF a \in Dealt THEN Effect(req)[a] ELSE a]

IInv ==
  /\ TypeOK
  /\ pc \in {"check", "trapped"} => done = 0 /\ left = req.size
  /\ pc = "trapped" => OutOfBounds(req)
  /\ pc \in {"run", "finished"} => ~OutOfBounds(req)
  /\ done <= req.size
  /\ Moved
  /\ pc = "run" => <<req.size - done, left>> \in Exactly(phases)
  /\ pc = "finished" => done = req.size

\* TriCore: a loop over words is the first phase, or waits for the byte that
\* makes the address it starts from even
EvenAfter(t) ==
  /\ (End(req) + done + t) % 2 = 0
  /\ req.kind = "copy" => req.src % 2 = req.dst % 2

Aligned ==
  req.target = "tricore" =>
    \A i \in 1 .. Len(phases) : phases[i].width > 1 =>
      /\ i \in {1, 2} /\ phases[i].kind = "atleast" /\ phases[i].width \in {4, 8}
      /\ i = 1 => EvenAfter(0)
      /\ i = 2 => /\ phases[1].kind = "counted" /\ phases[1].width = 1
                  /\ EvenAfter(phases[1].times)

AllSound == \A r \in Requests : ~Unsound(r)

\* The loops end, whatever the size.
Ends == <>(pc \in {"trapped", "finished"})
=============================================================================
