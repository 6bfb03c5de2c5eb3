-------------------------- MODULE BulkMemory_proofs --------------------------
(***************************************************************************)
(* Proofs about BulkMemory for every width of the size register, every     *)
(* memory and every instruction that is not known to be compiled wrongly.  *)
(***************************************************************************)
EXTENDS BulkMemory, SequenceTheorems, TLAPS

(***************************************************************************)
(* Arithmetic of the registers.                                            *)
(***************************************************************************)
LEMMA WordFacts ==
  \E half \in Nat : /\ Word = 2 * half /\ half >= 64
                    /\ Word \div 2 = half
                    /\ \A n \in Int : Negative(n) <=> n % Word >= half
<1>1. Word \in Nat /\ Word % 32 = 0 /\ Word >= 128
  BY BulkAssumption
<1>2. PICK half \in Nat : Word = 2 * half
  <2>1. Word % 2 = 0
    BY <1>1
  <2>2. Word \div 2 \in Nat /\ Word = 2 * (Word \div 2)
    BY <1>1, <2>1
  <2>. QED BY <2>2
<1>3. half >= 64 /\ Word \div 2 = half
  BY <1>1, <1>2
<1>. QED BY <1>2, <1>3, Zenon DEF Negative

LEMMA SmallMod ==
  ASSUME NEW n \in Int
  PROVE  /\ 0 <= n /\ n < Word => n % Word = n
         /\ -Word <= n /\ n < 0 => n % Word = n + Word
         /\ n % Word \in Address
<1>1. PICK w \in Nat \ {0} : w = Word
  BY BulkAssumption
<1>2. /\ 0 <= n /\ n < w => n % w = n
      /\ -w <= n /\ n < 0 => n % w = n + w
      /\ n % w \in 0 .. w - 1
  BY SMTT(30)
<1>. QED BY <1>1, <1>2 DEF Address

\* a bounded loop goes on only while its chunk is left
LEMMA LoopHasChunk ==
  ASSUME NEW p \in PhaseType, p.kind \in {"atleast", "notnegative", "negated"},
         NEW n \in Address, ~Empty(p, n)
  PROVE  p.width <= n
<1>1. PICK half \in Nat : /\ Word = 2 * half /\ half >= 64
                          /\ \A m \in Int : Negative(m) <=> m % Word >= half
  BY WordFacts
<1>2. p.width \in 1 .. 16 /\ n \in Nat /\ n < Word
  BY <1>1 DEF PhaseType, Address
<1>3. CASE p.kind = "notnegative"
  <2>1. ~Negative(n - p.width)
    BY <1>3 DEF Empty
  <2>2. PICK d \in Int : d = n - p.width
    BY <1>2
  <2>3. CASE d < 0
    <3>1. -Word <= d /\ d + Word >= half
      BY <1>1, <1>2, <2>2, <2>3
    <3>2. d % Word = d + Word
      BY <2>3, <3>1, SmallMod
    <3>. QED BY <1>1, <2>1, <2>2, <3>1, <3>2
  <2>4. CASE d >= 0
    BY <1>2, <2>2, <2>4
  <2>. QED BY <2>3, <2>4
<1>4. CASE p.kind \in {"atleast", "negated"}
  BY <1>2, <1>4 DEF Empty
<1>. QED BY <1>3, <1>4

(***************************************************************************)
(* One chunk of a phase leaves as much less, for the phase and what comes  *)
(* after it.                                                               *)
(***************************************************************************)
Smaller(p) == IF p.times = Loop THEN p ELSE [p EXCEPT !.times = p.times - 1]

LEMMA TimesLess ==
  ASSUME NEW w \in Nat, NEW t \in Nat \ {0}
  PROVE  w * t \in Nat /\ w * (t - 1) \in Nat /\ w * t = w * (t - 1) + w
<1>1. t - 1 \in Nat
  OBVIOUS
<1>. QED BY <1>1, SMTT(30)

LEMMA ChunkLeaves ==
  ASSUME NEW p \in PhaseType, p.kind # "reduce", NEW After, NEW rest \in Address, NEW n \in Address,
         <<rest, n>> \in Before(p, After), ~Empty(p, n)
  PROVE  /\ p.width \in 1 .. 16 /\ p.width <= rest /\ Smaller(p) \in PhaseType
         /\ (p.kind # "unrolled" => p.width <= n)
         /\ <<rest - p.width, IF p.kind = "unrolled" THEN n ELSE n - p.width>>
              \in Before(Smaller(p), After)
<1>1. rest \in Nat /\ n \in Nat /\ rest < Word /\ n < Word /\ Word \in Nat
  BY BulkAssumption DEF Address
<1>2. CASE p.kind \in {"unrolled", "counted"}
  <2>1. p.width \in 1 .. 16 /\ p.times \in Nat \ {0}
    BY <1>2 DEF PhaseType, Empty
  <2>2. PICK w \in 1 .. 16 : w = p.width
    BY <2>1
  <2>3. PICK t \in Nat \ {0} : t = p.times
    BY <2>1
  <2>4. PICK big \in Nat : big = w * t
    BY TimesLess
  <2>5. PICK small \in Nat : small = w * (t - 1) /\ big = small + w
    BY <2>4, TimesLess
  <2>6. /\ Smaller(p) \in PhaseType /\ Smaller(p).kind = p.kind
        /\ Smaller(p).width = w /\ Smaller(p).times = t - 1
    BY <1>2, <2>2, <2>3 DEF Smaller, PhaseType, Loop
  <2>7. CASE p.kind = "unrolled"
    <3>1. rest >= big /\ <<rest - big, n>> \in After
      BY <2>2, <2>3, <2>4, <2>7 DEF Before, Completes
    <3>2. rest - big = (rest - w) - small /\ rest - w >= small /\ rest - w \in Nat /\ rest - w <= rest
      BY <1>1, <2>5, <3>1
    <3>3. <<rest - w, n>> \in Address \X Address
      BY <1>1, <3>2 DEF Address
    <3>4. <<(rest - w) - small, n>> \in After
      BY <3>1, <3>2
    <3>5. <<rest - w, n>> \in Before(Smaller(p), After)
      BY <2>5, <2>6, <2>7, <3>2, <3>3, <3>4 DEF Before, Completes
    <3>. QED BY <1>1, <2>2, <2>5, <2>6, <2>7, <3>2, <3>5
  <2>8. CASE p.kind = "counted"
    <3>1. rest >= big /\ n >= big /\ <<rest - big, n - big>> \in After
      BY <2>2, <2>3, <2>4, <2>8 DEF Before, Completes
    <3>2. /\ rest - big = (rest - w) - small /\ rest - w >= small /\ rest - w \in Nat /\ rest - w <= rest
          /\ n - big = (n - w) - small /\ n - w >= small /\ n - w \in Nat /\ n - w <= n
      BY <1>1, <2>5, <3>1
    <3>3. <<rest - w, n - w>> \in Address \X Address
      BY <1>1, <3>2 DEF Address
    <3>4. <<(rest - w) - small, (n - w) - small>> \in After
      BY <3>1, <3>2
    <3>5. <<rest - w, n - w>> \in Before(Smaller(p), After)
      BY <2>5, <2>6, <2>8, <3>2, <3>3, <3>4 DEF Before, Completes
    <3>. QED BY <1>1, <2>2, <2>5, <2>6, <2>8, <3>2, <3>5
  <2>. QED BY <1>2, <2>7, <2>8
<1>3. CASE p.kind \in {"atleast", "notnegative", "negated"}
  <2>1. p.width \in 1 .. 16 /\ p.times = Loop /\ Smaller(p) = p
    BY <1>3 DEF PhaseType, Smaller
  <2>2. PICK w \in 1 .. 16 : w = p.width /\ w <= n
    BY <1>3, <2>1, LoopHasChunk
  <2>3. /\ rest = n
        /\ \A end \in 0 .. rest, k \in 0 .. rest :
             rest = end + k * p.width /\ Empty(p, end) => <<end, end>> \in After
    BY <1>3 DEF Before, Completes
  <2>4. <<rest - w, n - w>> \in Address \X Address
    BY <1>1, <2>2, <2>3 DEF Address
  <2>5. ASSUME NEW end \in 0 .. rest - w, NEW k \in 0 .. rest - w,
               rest - w = end + k * p.width, Empty(p, end)
        PROVE  <<end, end>> \in After
    <3>1. end \in 0 .. rest /\ k + 1 \in 0 .. rest
      BY <1>1, <2>2
    <3>2. PICK kw \in Nat : kw = k * w /\ (k + 1) * w = kw + w
      BY <1>1, <3>1
    <3>3. rest = end + (k + 1) * p.width
      BY <1>1, <2>2, <2>5, <3>1, <3>2
    <3>. QED BY <2>3, <2>5, <3>1, <3>3
  <2>6. <<rest - w, n - w>> \in Before(p, After)
    BY <1>3, <2>2, <2>3, <2>4, <2>5 DEF Before, Completes
  <2>. QED BY <1>1, <1>3, <2>1, <2>2, <2>3, <2>6
<1>. QED BY <1>2, <1>3 DEF PhaseType

(***************************************************************************)
(* A phase that is over hands what is left to the phases after it.         *)
(***************************************************************************)
LEMMA EmptyHandsOver ==
  ASSUME NEW p \in PhaseType, p.kind # "reduce", NEW After, NEW rest \in Address, NEW n \in Address,
         <<rest, n>> \in Before(p, After), Empty(p, n)
  PROVE  <<rest, n>> \in After
<1>1. rest \in Nat /\ n \in Nat
  BY DEF Address
<1>2. CASE p.kind \in {"unrolled", "counted"}
  <2>1. p.width * p.times = 0
    BY <1>2 DEF PhaseType, Empty
  <2>2. rest - 0 = rest /\ n - 0 = n
    BY <1>1
  <2>. QED BY <1>2, <2>1, <2>2 DEF Before, Completes
<1>3. CASE p.kind \in {"atleast", "notnegative", "negated"}
  <2>1. p.width \in 1 .. 16
    BY <1>3 DEF PhaseType
  <2>2. /\ rest = n
        /\ \A end \in 0 .. rest, k \in 0 .. rest :
             rest = end + k * p.width /\ Empty(p, end) => <<end, end>> \in After
    BY <1>3 DEF Before, Completes
  <2>3. rest \in 0 .. rest /\ 0 \in 0 .. rest /\ rest = rest + 0 * p.width
    BY <1>1, <2>1
  <2>. QED BY <2>2, <2>3
<1>. QED BY <1>2, <1>3 DEF PhaseType

LEMMA ReduceHandsOver ==
  ASSUME NEW p \in PhaseType, p.kind = "reduce", NEW After, NEW rest \in Address, NEW n \in Address,
         <<rest, n>> \in Before(p, After)
  PROVE  (n - p.times) % Word = n - p.times /\ <<rest, (n - p.times) % Word>> \in After
<1>1. n >= p.times /\ <<rest, n - p.times>> \in After /\ p.times \in Nat
  BY DEF Before, Completes, PhaseType
<1>2. n - p.times \in Int /\ 0 <= n - p.times /\ n - p.times < Word
  BY <1>1, BulkAssumption DEF Address
<1>3. (n - p.times) % Word = n - p.times
  BY <1>2, SmallMod
<1>. QED BY <1>1, <1>3

(***************************************************************************)
(* The phases of an instruction are the first one and what comes after it. *)
(***************************************************************************)
LEMMA ExactlyLengths ==
  ASSUME NEW s
  PROVE  /\ Len(s) = 0 => Exactly(s) = Over
         /\ Len(s) = 1 => Exactly(s) = Before(s[1], Over)
         /\ Len(s) = 2 => Exactly(s) = Before(s[1], Before(s[2], Over))
         /\ Len(s) = 3 => Exactly(s) = Before(s[1], Before(s[2], Before(s[3], Over)))
         /\ Len(s) = 4 =>
              Exactly(s) = Before(s[1], Before(s[2], Before(s[3], Before(s[4], Over))))
         /\ Len(s) \notin {0, 1, 2, 3, 4} => Exactly(s) = {}
<1>1. CASE Len(s) \in {0, 1, 2}
  BY <1>1 DEF Exactly
<1>2. CASE Len(s) = 3
  <2>1. Len(s) # 0 /\ Len(s) # 1 /\ Len(s) # 2
    BY <1>2
  <2>2. Exactly(s) = Before(s[1], Before(s[2], Before(s[3], Over)))
    BY <1>2, <2>1, Zenon DEF Exactly
  <2>. QED BY <1>2, <2>2
<1>3. CASE Len(s) = 4
  <2>1. Len(s) # 0 /\ Len(s) # 1 /\ Len(s) # 2 /\ Len(s) # 3
    BY <1>3
  <2>2. Exactly(s) = Before(s[1], Before(s[2], Before(s[3], Before(s[4], Over))))
    BY <1>3, <2>1, Zenon DEF Exactly
  <2>. QED BY <1>3, <2>2
<1>4. CASE Len(s) \notin {0, 1, 2, 3, 4}
  <2>1. Len(s) # 0 /\ Len(s) # 1 /\ Len(s) # 2 /\ Len(s) # 3 /\ Len(s) # 4
    BY <1>4
  <2>2. Exactly(s) = {}
    BY <2>1, Zenon DEF Exactly
  <2>. QED BY <2>1, <2>2
<1>. QED BY <1>1, <1>2, <1>3, <1>4

LEMMA ExactlyChain ==
  ASSUME NEW t \in Seq(PhaseType), Len(t) <= 3, NEW u, Len(u) = Len(t) + 1,
         \A i \in 1 .. Len(t) : u[i + 1] = t[i]
  PROVE  Exactly(u) = Before(u[1], Exactly(t))
<1>1. Len(t) \in {0, 1, 2, 3}
  <2>1. PICK n : n = Len(t)
    OBVIOUS
  <2>2. n \in Nat
    BY <2>1, LenProperties, Zenon
  <2>3. n \in {0, 1, 2, 3}
    BY <2>1, <2>2
  <2>. QED BY <2>1, <2>3
<1>2. CASE Len(t) \in {0, 1}
  <2>1. CASE Len(t) = 0
    <3>1. Len(u) = 1
      BY <2>1
    <3>. QED BY <2>1, <3>1, ExactlyLengths, Zenon
  <2>2. CASE Len(t) = 1
    <3>1. Len(u) = 2 /\ u[2] = t[1]
      BY <2>2
    <3>. QED BY <2>2, <3>1, ExactlyLengths, Zenon
  <2>. QED BY <1>2, <2>1, <2>2
<1>3. CASE Len(t) = 2
  <2>1. Len(u) = 3 /\ u[2] = t[1] /\ u[3] = t[2]
    BY <1>3
  <2>. QED BY <1>3, <2>1, ExactlyLengths, Zenon
<1>4. CASE Len(t) = 3
  <2>1. Len(u) = 4 /\ u[2] = t[1] /\ u[3] = t[2] /\ u[4] = t[3]
    BY <1>4
  <2>. QED BY <1>4, <2>1, ExactlyLengths, Zenon
<1>. QED BY <1>1, <1>2, <1>3, <1>4

LEMMA ExactlyPut ==
  ASSUME NEW q \in PhaseType, NEW t \in Seq(PhaseType), Len(t) <= 3
  PROVE  Exactly(<<q>> \o t) = Before(q, Exactly(t))
<1>1. PICK u : u = <<q>> \o t
  OBVIOUS
<1>2. Len(u) = Len(t) + 1 /\ u[1] = q /\ \A i \in 1 .. Len(t) : u[i + 1] = t[i]
  BY <1>1
<1>3. Exactly(u) = Before(q, Exactly(t))
  BY <1>2, ExactlyChain
<1>. QED BY <1>1, <1>3

LEMMA ExactlyHead ==
  ASSUME NEW s \in Seq(PhaseType), s # <<>>, NEW x, x \in Exactly(s)
  PROVE  /\ Head(s) \in PhaseType /\ Tail(s) \in Seq(PhaseType) /\ Len(Tail(s)) <= 3
         /\ x \in Before(Head(s), Exactly(Tail(s)))
<1>1. Len(s) \in {0, 1, 2, 3, 4}
  BY ExactlyLengths
<1>2. /\ Head(s) \in PhaseType /\ Tail(s) \in Seq(PhaseType) /\ Len(Tail(s)) <= 3
      /\ Len(s) = Len(Tail(s)) + 1 /\ Head(s) = s[1]
      /\ \A i \in 1 .. Len(Tail(s)) : s[i + 1] = Tail(s)[i]
  <2>1. Len(s) \in Nat /\ Len(Tail(s)) = Len(s) - 1 /\ Head(s) \in PhaseType
        /\ Tail(s) \in Seq(PhaseType)
    BY HeadTailProperties, LenProperties
  <2>2. Head(s) = s[1] /\ \A i \in 1 .. Len(s) - 1 : s[i + 1] = Tail(s)[i]
    BY <2>1, HeadTailProperties
  <2>. QED BY <1>1, <2>1, <2>2
<1>3. Exactly(s) = Before(s[1], Exactly(Tail(s)))
  BY <1>2, ExactlyChain
<1>. QED BY <1>2, <1>3

LEMMA ExactlyEnd ==
  ASSUME NEW x, x \in Exactly(<<>>)
  PROVE  x[1] = 0
<1>1. Len(<<>>) = 0
  OBVIOUS
<1>. QED BY <1>1, ExactlyLengths DEF Over

(***************************************************************************)
(* What the emitted phases are: from all of the bytes, with the size in    *)
(* the size register, they do exactly these.                               *)
(***************************************************************************)
LEMMA PhaseKinds ==
  /\ \A w \in 1 .. 16, n \in Nat : /\ Phase("unrolled", w, n) \in PhaseType
                                   /\ Phase("counted", w, n) \in PhaseType
  /\ \A w \in 1 .. 16 : /\ Phase("atleast", w, Loop) \in PhaseType
                        /\ Phase("notnegative", w, Loop) \in PhaseType
                        /\ Phase("negated", w, Loop) \in PhaseType
  /\ \A n \in Nat : Phase("reduce", 0, n) \in PhaseType
  BY DEF Phase, PhaseType

\* the loop over single bytes ends the instruction with what its register holds
Bytewise == Before(Phase("atleast", 1, Loop), Over)

LEMMA BytewiseDoes == \A n \in Address : <<n, n>> \in Bytewise
<1>. SUFFICES ASSUME NEW n \in Address PROVE <<n, n>> \in Bytewise
  OBVIOUS
<1>1. n \in Nat /\ 0 \in Address
  BY BulkAssumption DEF Address
<1>2. ASSUME NEW end \in 0 .. n, Empty(Phase("atleast", 1, Loop), end)
      PROVE  <<end, end>> \in Over
  <2>1. end < 1
    BY <1>2 DEF Empty, Phase
  <2>2. end = 0
    BY <1>1, <2>1
  <2>. QED BY <1>1, <2>2 DEF Over
<1>. QED BY <1>2 DEF Bytewise, Before, Completes, Phase

\* so does a number of single bytes known to the compiler
SomeBytes(n) == Before(Phase("unrolled", 1, n), Over)

LEMMA SomeBytesDo == \A n \in Address, m \in Address : <<n, m>> \in SomeBytes(n)
<1>. SUFFICES ASSUME NEW n \in Address, NEW m \in Address PROVE <<n, m>> \in SomeBytes(n)
  OBVIOUS
<1>1. n \in Nat /\ 0 \in Address /\ 1 * n = n /\ n - n = 0 /\ n >= n
  BY BulkAssumption DEF Address
<1>2. <<n - n, m>> \in Over
  BY <1>1 DEF Over
<1>. QED BY <1>1, <1>2 DEF SomeBytes, Before, Completes, Phase

\* a loop hands on whatever it leaves
LEMMA LoopDoes ==
  ASSUME NEW kind \in {"atleast", "notnegative", "negated"}, NEW w \in 1 .. 16, NEW After,
         NEW n \in Address,
         \A end \in 0 .. n, k \in 0 .. n :
           n = end + k * w /\ Empty(Phase(kind, w, Loop), end) => <<end, end>> \in After
  PROVE  <<n, n>> \in Before(Phase(kind, w, Loop), After)
  BY DEF Before, Completes, Phase

LEMMA UnrolledDoes ==
  ASSUME NEW w \in 1 .. 16, NEW t \in Nat, NEW After, NEW rest \in Address, NEW n \in Address,
         rest >= w * t, <<rest - w * t, n>> \in After
  PROVE  <<rest, n>> \in Before(Phase("unrolled", w, t), After)
  BY DEF Before, Completes, Phase

LEMMA WordsUnrolledDo ==
  ASSUME NEW t \in Nat, NEW After, NEW rest \in Address, NEW n \in Address,
         rest >= 8 * t, <<rest - 8 * t, n>> \in After
  PROVE  <<rest, n>> \in Before(Phase("unrolled", 8, t), After)
<1>1. PICK w \in 1 .. 16 : w = 8
  OBVIOUS
<1>2. rest >= w * t /\ <<rest - w * t, n>> \in After
  BY <1>1, Zenon
<1>3. <<rest, n>> \in Before(Phase("unrolled", w, t), After)
  BY <1>2, UnrolledDoes
<1>. QED BY <1>1, <1>3, Zenon

LEMMA WordLoopDoes ==
  ASSUME NEW kind \in {"atleast", "notnegative", "negated"}, NEW After, NEW n \in Address,
         \A end \in 0 .. n, k \in 0 .. n :
           n = end + k * 8 /\ Empty(Phase(kind, 8, Loop), end) => <<end, end>> \in After
  PROVE  <<n, n>> \in Before(Phase(kind, 8, Loop), After)
<1>1. PICK w \in 1 .. 16 : w = 8
  OBVIOUS
<1>2. \A end \in 0 .. n, k \in 0 .. n :
        n = end + k * w /\ Empty(Phase(kind, w, Loop), end) => <<end, end>> \in After
  BY <1>1, Zenon
<1>3. <<n, n>> \in Before(Phase(kind, w, Loop), After)
  BY <1>2, LoopDoes
<1>. QED BY <1>1, <1>3, Zenon

LEMMA CountedDoes ==
  ASSUME NEW t \in {0, 1}, NEW After, NEW n \in Address,
         n >= t, <<n - t, n - t>> \in After
  PROVE  <<n, n>> \in Before(Phase("counted", 1, t), After)
<1>1. 1 * t = t
  OBVIOUS
<1>. QED BY <1>1 DEF Before, Completes, Phase

LEMMA ReduceDoes ==
  ASSUME NEW q \in Nat, NEW After, NEW rest \in Address, NEW n \in Address,
         n >= q, <<rest, n - q>> \in After
  PROVE  <<rest, n>> \in Before(Phase("reduce", 0, q), After)
  BY DEF Before, Completes, Phase

LEMMA ExactlyLiteral ==
  /\ \A a \in PhaseType : <<a>> \in Seq(PhaseType) /\ Exactly(<<a>>) = Before(a, Over)
  /\ \A a, b \in PhaseType :
       <<a, b>> \in Seq(PhaseType) /\ Exactly(<<a, b>>) = Before(a, Before(b, Over))
  /\ \A a, b, c \in PhaseType :
       /\ <<a, b, c>> \in Seq(PhaseType)
       /\ Exactly(<<a, b, c>>) = Before(a, Before(b, Before(c, Over)))
<1>1. ASSUME NEW a \in PhaseType
      PROVE  <<a>> \in Seq(PhaseType) /\ Exactly(<<a>>) = Before(a, Over)
  <2>1. PICK s : s = <<a>>
    OBVIOUS
  <2>2. Len(s) = 1 /\ s[1] = a
    BY <2>1
  <2>3. Exactly(s) = Before(a, Over)
    BY <2>2, ExactlyLengths, Zenon
  <2>. QED BY <2>1, <2>3
<1>2. ASSUME NEW a \in PhaseType, NEW b \in PhaseType
      PROVE  <<a, b>> \in Seq(PhaseType) /\ Exactly(<<a, b>>) = Before(a, Before(b, Over))
  <2>1. PICK s : s = <<a, b>>
    OBVIOUS
  <2>2. Len(s) = 2 /\ s[1] = a /\ s[2] = b
    BY <2>1
  <2>3. Exactly(s) = Before(a, Before(b, Over))
    BY <2>2, ExactlyLengths, Zenon
  <2>. QED BY <2>1, <2>3
<1>3. ASSUME NEW a \in PhaseType, NEW b \in PhaseType, NEW c \in PhaseType
      PROVE  /\ <<a, b, c>> \in Seq(PhaseType)
             /\ Exactly(<<a, b, c>>) = Before(a, Before(b, Before(c, Over)))
  <2>1. PICK s : s = <<a, b, c>>
    OBVIOUS
  <2>2. Len(s) = 3 /\ s[1] = a /\ s[2] = b /\ s[3] = c
    BY <2>1
  <2>3. Exactly(s) = Before(a, Before(b, Before(c, Over)))
    BY <2>2, ExactlyLengths, Zenon
  <2>. QED BY <2>1, <2>3
<1>. QED BY <1>1, <1>2, <1>3, Zenon

LEMMA ExactlyFour ==
  ASSUME NEW a \in PhaseType, NEW b \in PhaseType, NEW c \in PhaseType, NEW d \in PhaseType
  PROVE  /\ <<a, b, c, d>> \in Seq(PhaseType)
         /\ Exactly(<<a, b, c, d>>) = Before(a, Before(b, Before(c, Before(d, Over))))
<1>1. PICK s : s = <<a, b, c, d>>
  OBVIOUS
<1>2. Len(s) = 4 /\ s[1] = a /\ s[2] = b /\ s[3] = c /\ s[4] = d
  BY <1>1
<1>3. Exactly(s) = Before(a, Before(b, Before(c, Before(d, Over))))
  BY <1>2, ExactlyLengths, Zenon
<1>. QED BY <1>1, <1>3

\* the phases do what the size says
Does(s, n) == s \in Seq(PhaseType) /\ <<n, n>> \in Exactly(s)

\* a loop over chunks and one over what it leaves, whatever that is
LEMMA TwoLoopsDo ==
  ASSUME NEW n \in Address, NEW kind \in {"atleast", "notnegative", "negated"}, NEW w \in 1 .. 16
  PROVE  Does(<<Phase(kind, w, Loop), Phase("atleast", 1, Loop)>>, n)
<1>1. \A end \in 0 .. n : end \in Address
  BY BulkAssumption DEF Address
<1>2. <<n, n>> \in Before(Phase(kind, w, Loop), Bytewise)
  BY <1>1, BytewiseDoes, LoopDoes
<1>3. Phase(kind, w, Loop) \in PhaseType /\ Phase("atleast", 1, Loop) \in PhaseType
  BY PhaseKinds
<1>. QED BY <1>2, <1>3, ExactlyLiteral DEF Does, Bytewise

LEMMA BytewiseAlone ==
  ASSUME NEW n \in Address
  PROVE  Does(<<Phase("atleast", 1, Loop)>>, n)
<1>1. Phase("atleast", 1, Loop) \in PhaseType
  BY PhaseKinds
<1>. QED BY <1>1, BytewiseDoes, ExactlyLiteral DEF Does, Bytewise

\* TriCore: the byte that aligns an end, if there is one
LEMMA AlignedLoopsDo ==
  ASSUME NEW n \in Address, NEW t \in {0, 1}, t <= n, NEW w \in 1 .. 16
  PROVE  Does(<<Phase("counted", 1, t), Phase("atleast", w, Loop), Phase("atleast", 1, Loop)>>, n)
<1>1. n - t \in Address /\ n >= t
  BY BulkAssumption DEF Address
<1>2. /\ Phase("counted", 1, t) \in PhaseType /\ Phase("atleast", w, Loop) \in PhaseType
      /\ Phase("atleast", 1, Loop) \in PhaseType
  BY PhaseKinds
<1>3. <<n - t, n - t>> \in Before(Phase("atleast", w, Loop), Before(Phase("atleast", 1, Loop), Over))
  BY <1>1, <1>2, TwoLoopsDo, ExactlyLiteral DEF Does
<1>4. <<n, n>> \in Before(Phase("counted", 1, t),
                          Before(Phase("atleast", w, Loop), Before(Phase("atleast", 1, Loop), Over)))
  BY <1>1, <1>3, CountedDoes
<1>. QED BY <1>2, <1>4, ExactlyLiteral DEF Does

(***************************************************************************)
(* The instructions of a constant size.                                    *)
(***************************************************************************)
LEMMA InAddress ==
  ASSUME NEW n \in Address
  PROVE  /\ n \in Nat /\ n < Word /\ Word \in Nat
         /\ \A m \in Int : 0 <= m /\ m <= n => m \in Address
  BY BulkAssumption DEF Address

LEMMA UnrolledReduceDo ==
  ASSUME NEW n \in Address, NEW words \in 0 .. 3, NEW bytes \in 0 .. 7, n = 8 * words + bytes
  PROVE  /\ Does(<<Phase("unrolled", 8, words), Phase("reduce", 0, IF bytes = 0 THEN 0 ELSE 8 * words),
                   Phase("unrolled", 1, bytes)>>, n)
         /\ bytes > 0 =>
              Does(<<Phase("unrolled", 8, words), Phase("reduce", 0, 8 * words),
                     Phase("atleast", 1, Loop)>>, n)
<1>1. PICK q \in Nat : q = IF bytes = 0 THEN 0 ELSE 8 * words
  OBVIOUS
<1>2. bytes \in Address /\ q <= n /\ n - q \in Address /\ n - 8 * words = bytes /\ 8 * words <= n /\ 8 * words \in Nat
  BY <1>1, InAddress
<1>3. /\ Phase("unrolled", 8, words) \in PhaseType /\ Phase("reduce", 0, q) \in PhaseType
      /\ Phase("unrolled", 1, bytes) \in PhaseType /\ Phase("atleast", 1, Loop) \in PhaseType
  BY PhaseKinds
<1>4. <<bytes, n>> \in Before(Phase("reduce", 0, q), SomeBytes(bytes))
  <2>1. <<bytes, n - q>> \in SomeBytes(bytes)
    BY <1>2, SomeBytesDo
  <2>. QED BY <1>2, <2>1, ReduceDoes
<1>5. <<n, n>> \in Before(Phase("unrolled", 8, words), Before(Phase("reduce", 0, q), SomeBytes(bytes)))
  BY <1>2, <1>4, WordsUnrolledDo
<1>6. Does(<<Phase("unrolled", 8, words), Phase("reduce", 0, q), Phase("unrolled", 1, bytes)>>, n)
  BY <1>3, <1>5, ExactlyLiteral DEF Does, SomeBytes
<1>7. ASSUME bytes > 0
      PROVE  Does(<<Phase("unrolled", 8, words), Phase("reduce", 0, 8 * words),
                    Phase("atleast", 1, Loop)>>, n)
  <2>1. q = 8 * words /\ n - q = bytes
    BY <1>1, <1>2, <1>7
  <2>2. <<bytes, n>> \in Before(Phase("reduce", 0, q), Bytewise)
    <3>1. <<bytes, n - q>> \in Bytewise
      BY <1>2, <2>1, BytewiseDoes
    <3>. QED BY <1>2, <3>1, ReduceDoes
  <2>3. <<n, n>> \in Before(Phase("unrolled", 8, words), Before(Phase("reduce", 0, q), Bytewise))
    BY <1>2, <2>2, WordsUnrolledDo
  <2>4. Does(<<Phase("unrolled", 8, words), Phase("reduce", 0, q), Phase("atleast", 1, Loop)>>, n)
    BY <1>3, <2>3, ExactlyLiteral DEF Does, Bytewise
  <2>. QED BY <2>1, <2>4
<1>. QED BY <1>1, <1>6, <1>7

\* x86-64: the wide loop ends with fewer than 8 bytes
LEMMA LoopThenBytesDo ==
  ASSUME NEW n \in Address, NEW bytes \in 0 .. 3, NEW words \in Nat, n = 8 * words + bytes,
         NEW kind \in {"atleast", "negated"}, kind = "negated" => n <= Word \div 2
  PROVE  Does(<<Phase(kind, 8, Loop), Phase("unrolled", 1, bytes)>>, n)
<1>1. PICK half \in Nat : half = Word \div 2
  BY WordFacts
<1>2. ASSUME NEW end \in 0 .. n, NEW k \in 0 .. n, n = end + k * 8, Empty(Phase(kind, 8, Loop), end)
      PROVE  <<end, end>> \in SomeBytes(bytes)
  <2>1. end < 8
    BY <1>1, <1>2, InAddress DEF Empty, Phase
  <2>2. end = bytes
    BY <1>2, <2>1, InAddress
  <2>. QED BY <2>2, InAddress, SomeBytesDo
<1>3. Phase(kind, 8, Loop) \in PhaseType /\ Phase("unrolled", 1, bytes) \in PhaseType
  BY PhaseKinds
<1>4. <<n, n>> \in Before(Phase(kind, 8, Loop), SomeBytes(bytes))
  BY <1>2, WordLoopDoes
<1>. QED BY <1>3, <1>4, ExactlyLiteral DEF Does, SomeBytes

\* AArch64: at most one word, and at most two bytes after it
WordsBytes(words, bytes) == Before(Phase("unrolled", 8, words), SomeBytes(bytes))

LEMMA WordsBytesDo ==
  ASSUME NEW words \in 0 .. 1, NEW bytes \in 0 .. 7, NEW rest \in Address, NEW n \in Address,
         rest = 8 * words + bytes
  PROVE  <<rest, n>> \in WordsBytes(words, bytes)
<1>1. bytes \in Address /\ rest >= 8 * words /\ rest - 8 * words = bytes
  BY InAddress
<1>2. <<bytes, n>> \in SomeBytes(bytes)
  BY <1>1, SomeBytesDo
<1>. QED BY <1>1, <1>2, WordsUnrolledDo DEF WordsBytes

ReducedWords(q, words) == Before(Phase("reduce", 0, q), Before(Phase("unrolled", 8, words), Bytewise))

LEMMA ReducedWordsDo ==
  ASSUME NEW words \in 0 .. 1, NEW q \in Nat, NEW rest \in Address, NEW n \in Address,
         q <= n, n - q = rest - 8 * words, 8 * words <= rest
  PROVE  <<rest, n>> \in ReducedWords(q, words)
<1>1. PICK m \in Address : m = n - q /\ m = rest - 8 * words
  BY InAddress
<1>2. <<m, m>> \in Bytewise
  BY BytewiseDoes
<1>3. <<rest, m>> \in Before(Phase("unrolled", 8, words), Bytewise)
  BY <1>1, <1>2, WordsUnrolledDo
<1>. QED BY <1>1, <1>3, ReduceDoes DEF ReducedWords

LEMMA PairLoopDoes ==
  ASSUME NEW n \in Address, NEW After,
         \A end \in 0 .. n, k \in 0 .. n :
           n = end + k * 16 /\ Empty(Phase("notnegative", 16, Loop), end) => <<end, end>> \in After
  PROVE  <<n, n>> \in Before(Phase("notnegative", 16, Loop), After)
<1>1. PICK w \in 1 .. 16 : w = 16
  OBVIOUS
<1>2. PICK kind \in {"atleast", "notnegative", "negated"} : kind = "notnegative"
  OBVIOUS
<1>3. \A end \in 0 .. n, k \in 0 .. n :
        n = end + k * w /\ Empty(Phase(kind, w, Loop), end) => <<end, end>> \in After
  BY <1>1, <1>2, Zenon
<1>4. <<n, n>> \in Before(Phase(kind, w, Loop), After)
  BY <1>3, LoopDoes
<1>. QED BY <1>1, <1>2, <1>4, Zenon

LEMMA Arm64ConstantDoes ==
  ASSUME NEW n \in Address, NEW pairs \in Nat, NEW words \in 0 .. 1, NEW bytes \in 0 .. 7,
         n = 16 * pairs + 8 * words + bytes, bytes <= 2 => n < Word \div 2 + 16
  PROVE  /\ bytes <= 2 =>
              /\ Does(<<Phase("notnegative", 16, Loop), Phase("unrolled", 8, words),
                        Phase("unrolled", 1, bytes)>>, n)
              /\ Does(<<Phase("unrolled", 16, pairs), Phase("unrolled", 8, words),
                        Phase("unrolled", 1, bytes)>>, n)
         /\ bytes > 2 =>
              /\ Does(<<Phase("notnegative", 16, Loop), Phase("reduce", 0, 8 * words),
                        Phase("unrolled", 8, words), Phase("atleast", 1, Loop)>>, n)
              /\ Does(<<Phase("unrolled", 16, pairs), Phase("reduce", 0, n - bytes),
                        Phase("unrolled", 8, words), Phase("atleast", 1, Loop)>>, n)
<1>1. PICK half \in Nat : /\ Word = 2 * half /\ half >= 64 /\ half = Word \div 2
                          /\ \A m \in Int : Negative(m) <=> m % Word >= half
  BY WordFacts
<1>2. /\ \A w \in 1 .. 16, t \in Nat : Phase("unrolled", w, t) \in PhaseType
      /\ Phase("notnegative", 16, Loop) \in PhaseType /\ Phase("atleast", 1, Loop) \in PhaseType
      /\ \A q \in Nat : Phase("reduce", 0, q) \in PhaseType
  BY PhaseKinds
<1>3. PICK rest \in Address : rest = 8 * words + bytes /\ rest = n - 16 * pairs /\ n >= 16 * pairs
  BY InAddress
<1>4. ASSUME bytes <= 2
      PROVE  /\ Does(<<Phase("notnegative", 16, Loop), Phase("unrolled", 8, words),
                       Phase("unrolled", 1, bytes)>>, n)
             /\ Does(<<Phase("unrolled", 16, pairs), Phase("unrolled", 8, words),
                       Phase("unrolled", 1, bytes)>>, n)
  <2>1. ASSUME NEW end \in 0 .. n, NEW k \in 0 .. n, n = end + k * 16,
               Empty(Phase("notnegative", 16, Loop), end)
        PROVE  <<end, end>> \in WordsBytes(words, bytes)
    <3>1. n \in Nat /\ n < Word /\ n < half + 16 /\ end \in Address
      BY <1>1, <1>4, InAddress
    <3>2. Negative(end - 16)
      BY <2>1 DEF Empty, Phase
    <3>3. PICK d \in Int : d = end - 16
      OBVIOUS
    <3>4. ~(0 <= d)
      <4>. SUFFICES ASSUME 0 <= d PROVE FALSE
        OBVIOUS
      <4>1. d < half /\ d < Word
        BY <1>1, <3>1, <3>3
      <4>2. d % Word = d
        BY <4>1, SmallMod
      <4>. QED BY <1>1, <3>2, <3>3, <4>1, <4>2
    <3>5. end < 16
      BY <3>3, <3>4
    <3>6. end = 8 * words + bytes
      BY <1>4, <2>1, <3>1, <3>5
    <3>. QED BY <3>1, <3>6, WordsBytesDo
  <2>2. <<n, n>> \in Before(Phase("notnegative", 16, Loop), WordsBytes(words, bytes))
    <3>1. PICK After : After = WordsBytes(words, bytes)
      OBVIOUS
    <3>2. \A end \in 0 .. n, k \in 0 .. n :
            n = end + k * 16 /\ Empty(Phase("notnegative", 16, Loop), end) => <<end, end>> \in After
      BY <2>1, <3>1
    <3>3. <<n, n>> \in Before(Phase("notnegative", 16, Loop), After)
      BY <3>2, PairLoopDoes
    <3>. QED BY <3>1, <3>3, Zenon
  <2>3. <<n, n>> \in Before(Phase("unrolled", 16, pairs), WordsBytes(words, bytes))
    <3>1. <<rest, n>> \in WordsBytes(words, bytes)
      BY <1>3, WordsBytesDo
    <3>. QED BY <1>3, <3>1, UnrolledDoes
  <2>4. PICK a \in PhaseType, b \in PhaseType, c \in PhaseType, d \in PhaseType :
          /\ a = Phase("notnegative", 16, Loop) /\ b = Phase("unrolled", 16, pairs)
          /\ c = Phase("unrolled", 8, words) /\ d = Phase("unrolled", 1, bytes)
    BY <1>2
  <2>5. <<a, c, d>> \in Seq(PhaseType) /\ <<n, n>> \in Exactly(<<a, c, d>>)
    <3>1. <<n, n>> \in Before(a, Before(c, Before(d, Over)))
      BY <2>2, <2>4, Zenon DEF WordsBytes, SomeBytes
    <3>. QED BY <3>1, ExactlyLiteral
  <2>6. <<b, c, d>> \in Seq(PhaseType) /\ <<n, n>> \in Exactly(<<b, c, d>>)
    <3>1. <<n, n>> \in Before(b, Before(c, Before(d, Over)))
      BY <2>3, <2>4, Zenon DEF WordsBytes, SomeBytes
    <3>. QED BY <3>1, ExactlyLiteral
  <2>. QED BY <2>4, <2>5, <2>6, Zenon DEF Does
<1>5. ASSUME bytes > 2
      PROVE  /\ Does(<<Phase("notnegative", 16, Loop), Phase("reduce", 0, 8 * words),
                       Phase("unrolled", 8, words), Phase("atleast", 1, Loop)>>, n)
             /\ Does(<<Phase("unrolled", 16, pairs), Phase("reduce", 0, n - bytes),
                       Phase("unrolled", 8, words), Phase("atleast", 1, Loop)>>, n)
  <2>1. ASSUME NEW end \in 0 .. n, NEW k \in 0 .. n, n = end + k * 16
        PROVE  <<end, end>> \in ReducedWords(8 * words, words)
    <3>1. end \in Address /\ 8 * words \in Nat
      BY InAddress
    <3>2. 8 * words <= end
      BY <2>1, InAddress
    <3>. QED BY <3>1, <3>2, ReducedWordsDo
  <2>2. <<n, n>> \in Before(Phase("notnegative", 16, Loop), ReducedWords(8 * words, words))
    <3>1. PICK After : After = ReducedWords(8 * words, words)
      OBVIOUS
    <3>2. \A end \in 0 .. n, k \in 0 .. n :
            n = end + k * 16 /\ Empty(Phase("notnegative", 16, Loop), end) => <<end, end>> \in After
      BY <2>1, <3>1
    <3>3. <<n, n>> \in Before(Phase("notnegative", 16, Loop), After)
      BY <3>2, PairLoopDoes
    <3>. QED BY <3>1, <3>3, Zenon
  <2>3. <<n, n>> \in Before(Phase("unrolled", 16, pairs), ReducedWords(n - bytes, words))
    <3>1. n - bytes \in Nat /\ n - bytes <= n /\ n - (n - bytes) = rest - 8 * words /\ 8 * words <= rest
      BY <1>3, InAddress
    <3>2. <<rest, n>> \in ReducedWords(n - bytes, words)
      BY <3>1, ReducedWordsDo
    <3>. QED BY <1>3, <3>2, UnrolledDoes
  <2>4. 8 * words \in Nat /\ n - bytes \in Nat
    BY InAddress
  <2>5. PICK a \in PhaseType, b \in PhaseType, c \in PhaseType, d \in PhaseType,
             e \in PhaseType, f \in PhaseType :
          /\ a = Phase("notnegative", 16, Loop) /\ b = Phase("unrolled", 16, pairs)
          /\ c = Phase("unrolled", 8, words) /\ d = Phase("atleast", 1, Loop)
          /\ e = Phase("reduce", 0, 8 * words) /\ f = Phase("reduce", 0, n - bytes)
    BY <1>2, <2>4
  <2>6. <<a, e, c, d>> \in Seq(PhaseType) /\ <<n, n>> \in Exactly(<<a, e, c, d>>)
    <3>1. <<n, n>> \in Before(a, Before(e, Before(c, Before(d, Over))))
      BY <2>2, <2>5, Zenon DEF ReducedWords, Bytewise
    <3>2. /\ <<a, e, c, d>> \in Seq(PhaseType)
          /\ Exactly(<<a, e, c, d>>) = Before(a, Before(e, Before(c, Before(d, Over))))
      BY ExactlyFour
    <3>. QED BY <3>1, <3>2, Zenon
  <2>7. <<b, f, c, d>> \in Seq(PhaseType) /\ <<n, n>> \in Exactly(<<b, f, c, d>>)
    <3>1. <<n, n>> \in Before(b, Before(f, Before(c, Before(d, Over))))
      BY <2>3, <2>5, Zenon DEF ReducedWords, Bytewise
    <3>2. /\ <<b, f, c, d>> \in Seq(PhaseType)
          /\ Exactly(<<b, f, c, d>>) = Before(b, Before(f, Before(c, Before(d, Over))))
      BY ExactlyFour
    <3>. QED BY <3>1, <3>2, Zenon
  <2>. QED BY <2>5, <2>6, <2>7, Zenon DEF Does
<1>. QED BY <1>4, <1>5

(***************************************************************************)
(* The emitted code is one of the sequences above.                         *)
(***************************************************************************)
LEMMA Concatenations ==
  ASSUME NEW a \in PhaseType, NEW b \in PhaseType, NEW c \in PhaseType, NEW d \in PhaseType
  PROVE  /\ <<>> \o <<a>> = <<a>> /\ <<a>> \o <<>> = <<a>>
         /\ <<a>> \o <<b>> = <<a, b>> /\ <<a, b>> \o <<c>> = <<a, b, c>>
         /\ <<a, b, c>> \o <<d>> = <<a, b, c, d>>
<1>1. <<>> \o <<a>> = <<a>>
  OBVIOUS
<1>2. <<a>> \o <<>> = <<a>>
  OBVIOUS
<1>3. <<a>> \o <<b>> = <<a, b>>
  <2>1. PICK u, v, w : u = <<a>> /\ v = <<b>> /\ w = <<a, b>>
    OBVIOUS
  <2>2. u \in Seq(PhaseType) /\ Len(u) = 1 /\ u[1] = a
    BY <2>1
  <2>3. v \in Seq(PhaseType) /\ Len(v) = 1 /\ v[1] = b
    BY <2>1
  <2>4. w \in Seq(PhaseType) /\ Len(w) = 2 /\ w[1] = a /\ w[2] = b
    BY <2>1
  <2>5. PICK x : x = u \o v
    OBVIOUS
  <2>6. /\ x \in Seq(PhaseType) /\ Len(x) = 2
        /\ x[1] = a /\ x[2] = b
    <3>1. /\ u \o v \in Seq(PhaseType) /\ Len(u \o v) = Len(u) + Len(v)
          /\ \A i \in 1 .. Len(u) + Len(v) :
               (u \o v)[i] = IF i <= Len(u) THEN u[i] ELSE v[i - Len(u)]
      BY <2>2, <2>3, ConcatProperties, Zenon
    <3>2. /\ x \in Seq(PhaseType) /\ Len(x) = 1 + 1
          /\ \A i \in 1 .. 1 + 1 : x[i] = IF i <= 1 THEN u[i] ELSE v[i - 1]
      BY <2>2, <2>3, <2>5, <3>1, Zenon
    <3>3. 2 = 1 + 1 /\ 2 - 1 = 1 /\ ~(2 <= 1)
      OBVIOUS
    <3>4. x[2] = v[1]
      BY <3>2, <3>3
    <3>5. x[1] = u[1]
      BY <3>2
    <3>. QED BY <2>2, <2>3, <3>2, <3>3, <3>4, <3>5, Zenon
  <2>7. \A i \in 1 .. 2 : x[i] = w[i]
    <3>1. \A i \in 1 .. 2 : i = 1 \/ i = 2
      OBVIOUS
    <3>. QED BY <2>4, <2>6, <3>1, Zenon
  <2>8. x = w
    BY <2>4, <2>6, <2>7, SeqEqual
  <2>. QED BY <2>1, <2>5, <2>8, Zenon
<1>4. <<a, b>> \o <<c>> = <<a, b, c>>
  <2>1. PICK u, v, w : u = <<a, b>> /\ v = <<c>> /\ w = <<a, b, c>>
    OBVIOUS
  <2>2. u \in Seq(PhaseType) /\ Len(u) = 2 /\ u[1] = a /\ u[2] = b
    BY <2>1
  <2>3. v \in Seq(PhaseType) /\ Len(v) = 1 /\ v[1] = c
    BY <2>1
  <2>4. w \in Seq(PhaseType) /\ Len(w) = 3 /\ w[1] = a /\ w[2] = b /\ w[3] = c
    BY <2>1
  <2>5. PICK x : x = u \o v
    OBVIOUS
  <2>6. /\ x \in Seq(PhaseType) /\ Len(x) = 3
        /\ x[1] = a /\ x[2] = b /\ x[3] = c
    <3>1. /\ u \o v \in Seq(PhaseType) /\ Len(u \o v) = Len(u) + Len(v)
          /\ \A i \in 1 .. Len(u) + Len(v) :
               (u \o v)[i] = IF i <= Len(u) THEN u[i] ELSE v[i - Len(u)]
      BY <2>2, <2>3, ConcatProperties, Zenon
    <3>2. /\ x \in Seq(PhaseType) /\ Len(x) = 2 + 1
          /\ \A i \in 1 .. 2 + 1 : x[i] = IF i <= 2 THEN u[i] ELSE v[i - 2]
      BY <2>2, <2>3, <2>5, <3>1, Zenon
    <3>3. 3 = 2 + 1 /\ 3 - 2 = 1 /\ ~(3 <= 2)
      OBVIOUS
    <3>4. x[3] = v[1]
      BY <3>2, <3>3
    <3>5. x[1] = u[1] /\ x[2] = u[2]
      BY <3>2
    <3>. QED BY <2>2, <2>3, <3>2, <3>3, <3>4, <3>5, Zenon
  <2>7. \A i \in 1 .. 3 : x[i] = w[i]
    <3>1. \A i \in 1 .. 3 : i = 1 \/ i = 2 \/ i = 3
      OBVIOUS
    <3>. QED BY <2>4, <2>6, <3>1, Zenon
  <2>8. x = w
    BY <2>4, <2>6, <2>7, SeqEqual
  <2>. QED BY <2>1, <2>5, <2>8, Zenon
<1>5. <<a, b, c>> \o <<d>> = <<a, b, c, d>>
  <2>1. PICK u, v, w : u = <<a, b, c>> /\ v = <<d>> /\ w = <<a, b, c, d>>
    OBVIOUS
  <2>2. u \in Seq(PhaseType) /\ Len(u) = 3 /\ u[1] = a /\ u[2] = b /\ u[3] = c
    BY <2>1
  <2>3. v \in Seq(PhaseType) /\ Len(v) = 1 /\ v[1] = d
    BY <2>1
  <2>4. w \in Seq(PhaseType) /\ Len(w) = 4 /\ w[1] = a /\ w[2] = b /\ w[3] = c /\ w[4] = d
    BY <2>1
  <2>5. PICK x : x = u \o v
    OBVIOUS
  <2>6. /\ x \in Seq(PhaseType) /\ Len(x) = 4
        /\ x[1] = a /\ x[2] = b /\ x[3] = c /\ x[4] = d
    <3>1. /\ u \o v \in Seq(PhaseType) /\ Len(u \o v) = Len(u) + Len(v)
          /\ \A i \in 1 .. Len(u) + Len(v) :
               (u \o v)[i] = IF i <= Len(u) THEN u[i] ELSE v[i - Len(u)]
      BY <2>2, <2>3, ConcatProperties, Zenon
    <3>2. /\ x \in Seq(PhaseType) /\ Len(x) = 3 + 1
          /\ \A i \in 1 .. 3 + 1 : x[i] = IF i <= 3 THEN u[i] ELSE v[i - 3]
      BY <2>2, <2>3, <2>5, <3>1, Zenon
    <3>3. 4 = 3 + 1 /\ 4 - 3 = 1 /\ ~(4 <= 3)
      OBVIOUS
    <3>4. x[4] = v[1]
      BY <3>2, <3>3
    <3>5. x[1] = u[1] /\ x[2] = u[2] /\ x[3] = u[3]
      BY <3>2
    <3>. QED BY <2>2, <2>3, <3>2, <3>3, <3>4, <3>5, Zenon
  <2>7. \A i \in 1 .. 4 : x[i] = w[i]
    <3>1. \A i \in 1 .. 4 : i = 1 \/ i = 2 \/ i = 3 \/ i = 4
      OBVIOUS
    <3>. QED BY <2>4, <2>6, <3>1, Zenon
  <2>8. x = w
    BY <2>4, <2>6, <2>7, SeqEqual
  <2>. QED BY <2>1, <2>5, <2>8, Zenon
<1>. QED BY <1>1, <1>2, <1>3, <1>4, <1>5, Zenon

LEMMA Triples ==
  ASSUME NEW a \in PhaseType, NEW b \in PhaseType, NEW c \in PhaseType
  PROVE  <<a>> \o <<b>> = <<a, b>> /\ <<a, b>> \o <<c>> = <<a, b, c>>
  BY Concatenations

LEMMA RequestFacts ==
  ASSUME NEW r \in Requests
  PROVE  /\ r.target \in Targets /\ r.kind \in {"copy", "fill"} /\ r.constant \in BOOLEAN
         /\ r.dst \in Address /\ r.src \in Address /\ r.size \in Address
  BY BulkAssumption

\* a size in words and the bytes after these
LEMMA Divided ==
  ASSUME NEW n \in Address
  PROVE  /\ n \div 8 \in Nat /\ n % 8 \in 0 .. 7 /\ n = 8 * (n \div 8) + (n % 8)
         /\ n \div 16 \in Nat /\ (n % 16) \div 8 \in 0 .. 1
         /\ n = 16 * (n \div 16) + 8 * ((n % 16) \div 8) + (n % 8)
<1>1. n \in Nat
  BY InAddress
<1>. QED BY <1>1

LEMMA X86ConstantDoes ==
  ASSUME NEW r \in Requests, ~Unsound(r), r.target = "x86_64", r.kind = "copy", r.constant
  PROVE  Does(X86Constant(r), r.size)
<1>1. PICK n \in Address : n = r.size
  BY RequestFacts
<1>2. PICK words \in Nat, bytes \in 0 .. 7 :
        words = n \div 8 /\ bytes = n % 8 /\ n = 8 * words + bytes
  BY Divided
<1>3. /\ Phase("unrolled", 8, words) \in PhaseType /\ Phase("unrolled", 1, bytes) \in PhaseType
      /\ Phase("atleast", 8, Loop) \in PhaseType /\ Phase("negated", 8, Loop) \in PhaseType
      /\ Phase("atleast", 1, Loop) \in PhaseType
      /\ \A q \in Nat : Phase("reduce", 0, q) \in PhaseType
  BY PhaseKinds
<1>4. X86Loop(r, 1) = <<Phase("atleast", 1, Loop)>>
  BY DEF X86Loop, WhileAtLeast
<1>5. PICK kind \in {"atleast", "negated"} :
        /\ X86Loop(r, 8) = <<Phase(kind, 8, Loop)>>
        /\ kind = "negated" => ~Backwards(r)
  BY DEF X86Loop, WhileAtLeast, WhileNegated
<1>6. CASE words <= 3
  <2>. PICK q \in Nat : q = IF bytes = 0 THEN 0 ELSE 8 * words
    OBVIOUS
  <2>1. PICK a \in PhaseType, b \in PhaseType, c \in PhaseType, d \in PhaseType :
          /\ a = Phase("unrolled", 8, words) /\ b = Phase("reduce", 0, q)
          /\ c = Phase("unrolled", 1, bytes) /\ d = Phase("atleast", 1, Loop)
    BY <1>3
  <2>2. X86Constant(r) = (<<a>> \o <<b>>) \o (IF bytes <= 3 THEN <<c>> ELSE <<d>>)
    BY <1>1, <1>2, <1>4, <1>6, <2>1, Zenon DEF X86Constant, Unrolled, Reduce
  <2>3. words \in 0 .. 3
    BY <1>6
  <2>4. CASE bytes <= 3
    <3>1. Does(<<a, b, c>>, n)
      BY <1>2, <2>1, <2>3, UnrolledReduceDo, Zenon
    <3>2. <<a>> \o <<b>> = <<a, b>> /\ <<a, b>> \o <<c>> = <<a, b, c>>
      BY Concatenations, ZenonT(60)
    <3>3. X86Constant(r) = <<a, b, c>>
      BY <2>2, <2>4, <3>2, Zenon
    <3>. QED BY <1>1, <3>1, <3>3, Zenon
  <2>5. CASE ~(bytes <= 3)
    <3>1. bytes > 0 /\ q = 8 * words
      BY <2>5
    <3>2. Does(<<a, b, d>>, n)
      BY <1>2, <2>1, <2>3, <3>1, UnrolledReduceDo, Zenon
    <3>3. <<a>> \o <<b>> = <<a, b>> /\ <<a, b>> \o <<d>> = <<a, b, d>>
      BY Concatenations, ZenonT(60)
    <3>4. X86Constant(r) = <<a, b, d>>
      BY <2>2, <2>5, <3>3, Zenon
    <3>. QED BY <1>1, <3>2, <3>4, Zenon
  <2>. QED BY <2>4, <2>5
<1>7. CASE ~(words <= 3)
  <2>1. PICK a \in PhaseType, c \in PhaseType, d \in PhaseType :
          /\ a = Phase(kind, 8, Loop)
          /\ c = Phase("unrolled", 1, bytes) /\ d = Phase("atleast", 1, Loop)
    BY <1>3
  <2>2. X86Constant(r) = <<a>> \o (IF bytes <= 3 THEN <<c>> ELSE <<d>>)
    BY <1>1, <1>2, <1>4, <1>5, <1>7, <2>1, Zenon DEF X86Constant, Unrolled
  <2>3. CASE bytes <= 3
    <3>1. kind = "negated" => n <= Word \div 2
      <4>1. PICK half \in Nat : half = Word \div 2
        BY WordFacts
      <4>2. kind = "negated" => ~(n > Word \div 2)
        BY <1>1, <1>2, <1>5, <2>3 DEF Unsound, HugeConstantCopy
      <4>. QED BY <4>1, <4>2, InAddress
    <3>2. bytes \in 0 .. 3
      BY <2>3
    <3>3. Does(<<a, c>>, n)
      BY <1>2, <2>1, <3>1, <3>2, LoopThenBytesDo
    <3>4. X86Constant(r) = <<a, c>>
      BY <2>2, <2>3, Concatenations
    <3>. QED BY <1>1, <3>3, <3>4, Zenon
  <2>4. CASE ~(bytes <= 3)
    <3>1. Does(<<a, d>>, n)
      <4>1. kind \in {"atleast", "notnegative", "negated"} /\ 8 \in 1 .. 16
        OBVIOUS
      <4>. QED BY <2>1, <4>1, TwoLoopsDo, Zenon
    <3>2. X86Constant(r) = <<a, d>>
      BY <2>2, <2>4, Concatenations
    <3>. QED BY <1>1, <3>1, <3>2, Zenon
  <2>. QED BY <2>3, <2>4
<1>. QED BY <1>6, <1>7

LEMMA Arm64ConstantEmitted ==
  ASSUME NEW r \in Requests, ~Unsound(r), r.target = "aarch64", r.kind = "copy", r.constant
  PROVE  Does(Arm64Constant(r), r.size)
<1>1. PICK n \in Address : n = r.size
  BY RequestFacts
<1>2. PICK pairs \in Nat, words \in 0 .. 1, bytes \in 0 .. 7 :
        /\ pairs = n \div 16 /\ words = (n % 16) \div 8 /\ bytes = n % 8
        /\ n = 16 * pairs + 8 * words + bytes
  BY Divided
<1>3. bytes <= 2 => n < Word \div 2 + 16
  <2>1. PICK half \in Nat : half = Word \div 2
    BY WordFacts
  <2>2. bytes <= 2 => ~(n >= Word \div 2 + 16)
    BY <1>1, <1>2 DEF Unsound, HugeConstantCopy
  <2>. QED BY <2>1, <2>2, InAddress
<1>4. words \in Nat /\ n - bytes \in Nat /\ 8 * words \in Nat
  BY <1>2, InAddress
<1>5. PICK a \in PhaseType, b \in PhaseType, c \in PhaseType, d \in PhaseType,
           e \in PhaseType, f \in PhaseType, g \in PhaseType :
        /\ a = Phase("notnegative", 16, Loop) /\ b = Phase("unrolled", 16, pairs)
        /\ c = Phase("unrolled", 8, words) /\ d = Phase("atleast", 1, Loop)
        /\ e = Phase("reduce", 0, 8 * words) /\ f = Phase("reduce", 0, n - bytes)
        /\ g = Phase("unrolled", 1, bytes)
  BY <1>4, PhaseKinds
<1>6. CASE bytes <= 2
  <2>1. Does(<<a, c, g>>, n) /\ Does(<<b, c, g>>, n)
    BY <1>2, <1>3, <1>5, <1>6, Arm64ConstantDoes, Zenon
  <2>2. /\ <<a>> \o <<>> = <<a>> /\ <<a>> \o <<c>> = <<a, c>> /\ <<a, c>> \o <<g>> = <<a, c, g>>
        /\ <<b>> \o <<>> = <<b>> /\ <<b>> \o <<c>> = <<b, c>> /\ <<b, c>> \o <<g>> = <<b, c, g>>
    <3>1. <<a>> \o <<>> = <<a>> /\ <<a>> \o <<c>> = <<a, c>> /\ <<a, c>> \o <<g>> = <<a, c, g>>
      <4>1. <<a>> \o <<>> = <<a>>
        BY Concatenations
      <4>2. <<a>> \o <<c>> = <<a, c>> /\ <<a, c>> \o <<g>> = <<a, c, g>>
        BY Triples
      <4>. QED BY <4>1, <4>2
    <3>2. <<b>> \o <<>> = <<b>> /\ <<b>> \o <<c>> = <<b, c>> /\ <<b, c>> \o <<g>> = <<b, c, g>>
      <4>1. <<b>> \o <<>> = <<b>>
        BY Concatenations
      <4>2. <<b>> \o <<c>> = <<b, c>> /\ <<b, c>> \o <<g>> = <<b, c, g>>
        BY Triples
      <4>. QED BY <4>1, <4>2
    <3>. QED BY <3>1, <3>2
  <2>3. Arm64Constant(r) = (IF pairs <= 2 THEN <<b>> ELSE <<a>>) \o <<>> \o <<c>> \o <<g>>
    BY <1>1, <1>2, <1>5, <1>6, Zenon DEF Arm64Constant, Unrolled, WhileNotNegative
  <2>4. CASE pairs <= 2
    BY <1>1, <2>1, <2>2, <2>3, <2>4, Zenon
  <2>5. CASE ~(pairs <= 2)
    BY <1>1, <2>1, <2>2, <2>3, <2>5, Zenon
  <2>. QED BY <2>4, <2>5
<1>7. CASE ~(bytes <= 2)
  <2>1. bytes > 2
    BY <1>7
  <2>2. Does(<<a, e, c, d>>, n) /\ Does(<<b, f, c, d>>, n)
    BY <1>2, <1>3, <1>5, <2>1, Arm64ConstantDoes, Zenon
  <2>3. CASE pairs <= 2
    <3>1. /\ <<b>> \o <<f>> = <<b, f>> /\ <<b, f>> \o <<c>> = <<b, f, c>>
          /\ <<b, f, c>> \o <<d>> = <<b, f, c, d>>
      BY Concatenations
    <3>2. Arm64Constant(r) = <<b>> \o <<f>> \o <<c>> \o <<d>>
      BY <1>1, <1>2, <1>5, <1>7, <2>3, Zenon DEF Arm64Constant, Unrolled, WhileAtLeast, Reduce
    <3>. QED BY <1>1, <2>2, <3>1, <3>2, Zenon
  <2>4. CASE ~(pairs <= 2)
    <3>1. /\ <<a>> \o <<e>> = <<a, e>> /\ <<a, e>> \o <<c>> = <<a, e, c>>
          /\ <<a, e, c>> \o <<d>> = <<a, e, c, d>>
      BY Concatenations
    <3>2. Arm64Constant(r) = <<a>> \o <<e>> \o <<c>> \o <<d>>
      BY <1>1, <1>2, <1>5, <1>7, <2>4, Zenon
         DEF Arm64Constant, Unrolled, WhileAtLeast, WhileNotNegative, Reduce
    <3>. QED BY <1>1, <2>2, <3>1, <3>2, Zenon
  <2>. QED BY <2>3, <2>4
<1>. QED BY <1>6, <1>7

\* a wide loop and one over bytes
LEMMA TwoLoopsEmitted ==
  ASSUME NEW n \in Address, NEW kind \in {"atleast", "notnegative", "negated"}, NEW w \in 1 .. 16
  PROVE  Does(<<Phase(kind, w, Loop)>> \o <<Phase("atleast", 1, Loop)>>, n)
<1>1. PICK a \in PhaseType, b \in PhaseType :
        a = Phase(kind, w, Loop) /\ b = Phase("atleast", 1, Loop)
  BY PhaseKinds
<1>2. <<a>> \o <<b>> = <<a, b>>
  BY Concatenations
<1>3. Does(<<a, b>>, n)
  BY <1>1, TwoLoopsDo, Zenon
<1>. QED BY <1>1, <1>2, <1>3, Zenon

LEMMA AlignedLoopsEmitted ==
  ASSUME NEW n \in Address, NEW t \in {0, 1}, t <= n, NEW w \in 1 .. 16
  PROVE  Does(Counted(1, t) \o WhileAtLeast(w) \o WhileAtLeast(1), n)
<1>1. PICK a \in PhaseType, b \in PhaseType, c \in PhaseType :
        a = Phase("counted", 1, t) /\ b = Phase("atleast", w, Loop) /\ c = Phase("atleast", 1, Loop)
  BY PhaseKinds
<1>2. <<a>> \o <<b>> = <<a, b>> /\ <<a, b>> \o <<c>> = <<a, b, c>>
  BY Concatenations
<1>3. Does(<<a, b, c>>, n)
  BY <1>1, AlignedLoopsDo, Zenon
<1>. QED BY <1>1, <1>2, <1>3, Zenon DEF Counted, WhileAtLeast

\* every instruction's code
LEMMA EmittedDoes ==
  ASSUME NEW r \in Requests, ~Unsound(r)
  PROVE  Does(Emitted(r), r.size)
<1>1. PICK n \in Address : n = r.size
  BY RequestFacts
<1>2. /\ "atleast" \in {"atleast", "notnegative", "negated"}
      /\ "notnegative" \in {"atleast", "notnegative", "negated"}
      /\ "negated" \in {"atleast", "notnegative", "negated"}
      /\ 1 \in 1 .. 16 /\ 4 \in 1 .. 16 /\ 8 \in 1 .. 16 /\ 16 \in 1 .. 16
  OBVIOUS
<1>3. CASE r.target = "x86_64"
  <2>1. CASE r.kind = "copy" /\ r.constant
    <3>1. Emitted(r) = X86Constant(r)
      BY <1>3, <2>1, Zenon DEF Emitted, X86Copy
    <3>. QED BY <1>3, <2>1, <3>1, X86ConstantDoes, Zenon
  <2>2. CASE ~(r.kind = "copy" /\ r.constant)
    <3>1. Emitted(r) = X86Loop(r, 8) \o X86Loop(r, 1)
      BY <1>3, <2>2, Zenon DEF Emitted, X86Copy, X86Fill
    <3>2. X86Loop(r, 1) = <<Phase("atleast", 1, Loop)>>
      BY DEF X86Loop, WhileAtLeast
    <3>3. PICK kind \in {"atleast", "notnegative", "negated"} : X86Loop(r, 8) = <<Phase(kind, 8, Loop)>>
      BY DEF X86Loop, WhileAtLeast, WhileNegated
    <3>4. Does(<<Phase(kind, 8, Loop)>> \o <<Phase("atleast", 1, Loop)>>, n)
      BY <1>2, TwoLoopsEmitted, Zenon
    <3>. QED BY <1>1, <3>1, <3>2, <3>3, <3>4, Zenon
  <2>. QED BY <2>1, <2>2
<1>4. CASE r.target = "aarch64"
  <2>1. r.target # "x86_64"
    BY <1>4
  <2>2. CASE r.kind = "copy" /\ r.constant
    <3>1. Emitted(r) = Arm64Constant(r)
      BY <1>4, <2>1, <2>2, Zenon DEF Emitted, Arm64Copy
    <3>. QED BY <1>4, <2>2, <3>1, Arm64ConstantEmitted, Zenon
  <2>3. CASE ~(r.kind = "copy" /\ r.constant)
    <3>1. Emitted(r) = <<Phase("notnegative", 16, Loop)>> \o <<Phase("atleast", 1, Loop)>>
      BY <1>4, <2>1, <2>3, Zenon DEF Emitted, Arm64Copy, Arm64Fill, WhileNotNegative, WhileAtLeast
    <3>. QED BY <1>1, <1>2, <3>1, TwoLoopsEmitted, Zenon
  <2>. QED BY <2>2, <2>3
<1>5. CASE r.target = "tricore"
  <2>1. r.target # "x86_64" /\ r.target # "aarch64"
    BY <1>5
  <2>2. CASE r.kind = "copy"
    <3>1. Emitted(r) = TriCoreCopy(r)
      BY <2>1, <2>2, Zenon DEF Emitted
    <3>2. CASE r.size >= 8 /\ r.src % 2 = r.dst % 2
      <4>1. PICK t \in {0, 1} : t = End(r) % 2
        <5>1. PICK m \in Nat : m = End(r)
          BY RequestFacts, InAddress DEF End
        <5>2. m % 2 \in {0, 1}
          OBVIOUS
        <5>. QED BY <5>1, <5>2
      <4>2. t <= n
        BY <1>1, <3>2, InAddress
      <4>3. Emitted(r) = Counted(1, t) \o WhileAtLeast(8) \o WhileAtLeast(1)
        BY <3>1, <3>2, <4>1, Zenon DEF TriCoreCopy
      <4>. QED BY <1>1, <1>2, <4>2, <4>3, AlignedLoopsEmitted, Zenon
    <3>3. CASE ~(r.size >= 8 /\ r.src % 2 = r.dst % 2)
      <4>1. Emitted(r) = <<>> \o WhileAtLeast(1)
        BY <3>1, <3>3, Zenon DEF TriCoreCopy
      <4>2. PICK a \in PhaseType : a = Phase("atleast", 1, Loop)
        BY PhaseKinds
      <4>3. <<>> \o <<a>> = <<a>>
        BY Concatenations
      <4>4. Emitted(r) = <<a>> /\ Does(<<a>>, n)
        BY <4>1, <4>2, <4>3, BytewiseAlone, Zenon DEF WhileAtLeast
      <4>. QED BY <1>1, <4>4, Zenon
    <3>. QED BY <3>2, <3>3
  <2>3. CASE r.kind # "copy"
    <3>1. PICK t \in {0, 1} : t = r.dst % 2
      <4>1. PICK m \in Nat : m = r.dst
        BY RequestFacts, InAddress
      <4>2. m % 2 \in {0, 1}
        OBVIOUS
      <4>. QED BY <4>1, <4>2
    <3>2. t <= n
      <4>1. ~(n = 0 /\ t = 1)
        BY <1>1, <1>5, <2>3, <3>1, RequestFacts DEF Unsound, EmptyFillAtOddAddress
      <4>. QED BY <4>1, InAddress
    <3>3. Emitted(r) = Counted(1, t) \o WhileAtLeast(4) \o WhileAtLeast(1)
      BY <2>1, <2>3, <3>1, Zenon DEF Emitted, TriCoreFill
    <3>. QED BY <1>1, <1>2, <3>2, <3>3, AlignedLoopsEmitted, Zenon
  <2>. QED BY <2>2, <2>3
<1>. QED BY <1>3, <1>4, <1>5, RequestFacts DEF Targets

(***************************************************************************)
(* The bounds check.                                                       *)
(***************************************************************************)
LEMMA FartherFacts ==
  ASSUME NEW r \in Requests
  PROVE  /\ Farther(r) \in Address /\ r.dst <= Farther(r)
         /\ r.kind = "copy" => r.src <= Farther(r)
<1>1. /\ r.kind \in {"copy", "fill"} /\ r.dst \in Address /\ r.src \in Address
      /\ r.dst \in Nat /\ r.src \in Nat
  BY RequestFacts, InAddress
<1>. QED BY <1>1 DEF Farther

LEMMA MemoryFits ==
  ASSUME NEW r \in Requests
  PROVE  /\ MemorySizes[r.target] \in Nat /\ MemorySizes[r.target] <= Word
         /\ r.target = "tricore" => MemorySizes[r.target] < Word
<1>1. Word \in Nat /\ Word >= 128 /\ MemorySizes[r.target] \in 0 .. Word
  BY BulkAssumption, RequestFacts
<1>2. r.target = "tricore" => MemorySizes[r.target] <= Word \div 2
  BY BulkAssumption
<1>3. Word \div 2 < Word
  BY <1>1
<1>. QED BY <1>1, <1>2, <1>3

\* the carry stands for an end beyond every memory
LEMMA CheckIsRight ==
  ASSUME NEW r \in Requests
  PROVE  CheckedEnd(r) > MemorySizes[r.target] <=> OutOfBounds(r)
<1>1. PICK f \in Address : f = Farther(r)
  BY FartherFacts
<1>2. PICK s \in Address : s = r.size
  BY RequestFacts
<1>3. PICK m \in Nat : m = MemorySizes[r.target] /\ m <= Word /\ (r.target = "tricore" => m < Word)
  BY MemoryFits
<1>4. f \in Nat /\ s \in Nat /\ f < Word /\ s < Word /\ Word \in Nat
  BY InAddress
<1>5. CASE r.target # "tricore"
  BY <1>1, <1>2, <1>3, <1>4, <1>5 DEF CheckedEnd, OutOfBounds
<1>6. CASE r.target = "tricore" /\ f + s < Word
  <2>1. (f + s) % Word = f + s /\ ~(f + s < s)
    BY <1>4, <1>6, SmallMod
  <2>2. CheckedEnd(r) = f + s
    BY <1>1, <1>2, <1>6, <2>1, Zenon DEF CheckedEnd
  <2>. QED BY <1>1, <1>2, <1>3, <2>2 DEF OutOfBounds
<1>7. CASE r.target = "tricore" /\ ~(f + s < Word)
  <2>1. PICK w \in Nat \ {0} : w = Word
    BY BulkAssumption
  <2>2. (f + s) % w = f + s - w
    BY <1>4, <1>7, <2>1, SMTT(30)
  <2>3. (f + s) % Word < s
    BY <1>4, <2>1, <2>2
  <2>4. CheckedEnd(r) = Word
    BY <1>1, <1>2, <1>7, <2>3, Zenon DEF CheckedEnd
  <2>. QED BY <1>1, <1>2, <1>3, <1>4, <1>7, <2>4 DEF OutOfBounds
<1>. QED BY <1>5, <1>6, <1>7

LEMMA InBounds ==
  ASSUME NEW r \in Requests, ~OutOfBounds(r)
  PROVE  r.dst + r.size <= Word /\ (r.kind = "copy" => r.src + r.size <= Word)
<1>1. PICK f \in Nat, s \in Nat, m \in Nat :
        f = Farther(r) /\ s = r.size /\ m = MemorySizes[r.target] /\ m <= Word
  BY FartherFacts, RequestFacts, MemoryFits, InAddress
<1>2. r.dst \in Nat /\ r.src \in Nat /\ Word \in Nat
  BY RequestFacts, InAddress
<1>3. f + s <= m
  BY <1>1 DEF OutOfBounds
<1>. QED BY <1>1, <1>2, <1>3, FartherFacts

(***************************************************************************)
(* One chunk moves what it covers, and finds at its source what was there  *)
(* at the start: the bytes dealt with lie on the other side.               *)
(***************************************************************************)
LEMMA ChunkPlace ==
  ASSUME NEW r \in Requests, ~OutOfBounds(r), NEW d \in Nat, NEW w \in 1 .. 16, d + w <= r.size
  PROVE  /\ r.dst \in Nat /\ r.size \in Nat /\ Word \in Nat
         /\ r.dst + r.size <= Word /\ d + w < Word
         /\ (r.dst + r.size - d - w) % Word = r.dst + r.size - d - w
         /\ (r.dst + d) % Word = r.dst + d
         /\ r.kind = "copy" =>
              /\ r.src \in Nat /\ r.src + r.size <= Word
              /\ (r.src + r.size - d - w) % Word = r.src + r.size - d - w
              /\ (r.src + d) % Word = r.src + d
<1>1. /\ r.dst \in Nat /\ r.src \in Nat /\ r.size \in Nat /\ Word \in Nat /\ r.size < Word
      /\ r.dst + r.size <= Word /\ (r.kind = "copy" => r.src + r.size <= Word)
  BY InBounds, RequestFacts, InAddress
<1>2. ASSUME NEW x \in Nat, x + r.size <= Word
      PROVE  /\ (x + r.size - d - w) % Word = x + r.size - d - w
             /\ (x + d) % Word = x + d
  <2>1. PICK a \in Int, b \in Int : a = x + r.size - d - w /\ b = x + d
    BY <1>1
  <2>2. 0 <= a /\ a < Word /\ 0 <= b /\ b < Word
    BY <1>1, <1>2, <2>1
  <2>. QED BY <2>1, <2>2, SmallMod
<1>3. /\ (r.dst + r.size - d - w) % Word = r.dst + r.size - d - w
      /\ (r.dst + d) % Word = r.dst + d
  <2>1. r.dst \in Nat /\ r.dst + r.size <= Word
    BY <1>1
  <2>. QED BY <1>2, <2>1, Zenon
<1>4. ASSUME r.kind = "copy"
      PROVE  /\ (r.src + r.size - d - w) % Word = r.src + r.size - d - w
             /\ (r.src + d) % Word = r.src + d
  <2>1. r.src \in Nat /\ r.src + r.size <= Word
    BY <1>1, <1>4
  <2>. QED BY <1>2, <2>1, Zenon
<1>5. d + w < Word
  BY <1>1
<1>. QED BY <1>1, <1>3, <1>4, <1>5, Zenon

LEMMA Covered ==
  ASSUME NEW to \in Nat, NEW w \in 1 .. 16, to + w <= Word
  PROVE  {(to + i) % Word : i \in 0 .. w - 1} = to .. to + w - 1
<1>1. Word \in Nat
  BY BulkAssumption
<1>2. \A i \in 0 .. w - 1 : (to + i) % Word = to + i
  <2>. SUFFICES ASSUME NEW i \in 0 .. w - 1 PROVE (to + i) % Word = to + i
    OBVIOUS
  <2>1. PICK n \in Nat : n = to + i /\ n < Word
    BY <1>1
  <2>. QED BY <2>1, SmallMod
<1>3. ASSUME NEW a \in to .. to + w - 1
      PROVE  \E i \in 0 .. w - 1 : a = (to + i) % Word
  <2>1. a - to \in 0 .. w - 1 /\ a = to + (a - to)
    OBVIOUS
  <2>. QED BY <1>2, <2>1
<1>4. ASSUME NEW i \in 0 .. w - 1
      PROVE  (to + i) % Word \in to .. to + w - 1
  BY <1>2
<1>. QED BY <1>3, <1>4

\* where a chunk lands and what it reads
LEMMA ChunkMoves ==
  ASSUME TypeOK, ~OutOfBounds(req), Moved, NEW w \in 1 .. 16, done + w <= req.size,
         Store(w), done' = (done + w) % Word, req' = req
  PROVE  /\ done' = done + w /\ mem' \in [Address -> Address \union {Filler}]
         /\ Moved'
<1>1. PICK r \in Requests : r = req
  BY DEF TypeOK
<1>2. PICK d \in Nat : d = done
  BY InAddress DEF TypeOK
<1>3. PICK dst \in Nat, src \in Nat, size \in Nat, word \in Nat :
        dst = r.dst /\ src = r.src /\ size = r.size /\ word = Word
  BY RequestFacts, InAddress
<1>4. d + w <= size
  BY <1>1, <1>2, <1>3
<1>5. /\ dst + size <= word /\ d + w < word
      /\ (dst + size - d - w) % word = dst + size - d - w
      /\ (dst + d) % word = dst + d
      /\ r.kind = "copy" =>
            /\ src + size <= word
            /\ (src + size - d - w) % word = src + size - d - w
            /\ (src + d) % word = src + d
  <2>1. ~OutOfBounds(r) /\ d + w <= r.size
    BY <1>1, <1>3, <1>4, Zenon
  <2>. QED BY <1>3, <2>1, ChunkPlace, Zenon
<1>6. dst + size <= word /\ d + w < word /\ (r.kind = "copy" => src + size <= word)
  BY <1>5, Zenon
<1>7. done' = d + w
  <2>1. PICK n \in Nat : n = d + w /\ n < Word
    BY <1>3, <1>6
  <2>2. n % Word = n
    BY <2>1, SmallMod
  <2>. QED BY <1>2, <2>1, <2>2, Zenon
\* the bytes dealt with and those of the chunk
<1>8. PICK low \in Nat : low = IF Backwards(r) THEN dst + size - d ELSE dst
  <2>1. dst + size - d \in Nat /\ dst \in Nat
    BY <1>4
  <2>. QED BY <2>1, Zenon
<1>9. Dealt = low .. low + d - 1
  <2>1. CASE Backwards(r)
    <3>1. Dealt = dst + size - d .. dst + size - 1
      BY <1>1, <1>2, <1>3, <2>1, Zenon DEF Dealt
    <3>2. low = dst + size - d /\ low + d - 1 = dst + size - 1
      BY <1>8, <2>1
    <3>. QED BY <3>1, <3>2, Zenon
  <2>2. CASE ~Backwards(r)
    <3>1. Dealt = dst .. dst + d - 1
      BY <1>1, <1>2, <1>3, <2>2, Zenon DEF Dealt
    <3>. QED BY <1>8, <2>2, <3>1, Zenon
  <2>. QED BY <2>1, <2>2
<1>10. PICK to \in Nat : to = IF Backwards(r) THEN dst + size - d - w ELSE dst + d
  <2>1. dst + size - d - w \in Nat /\ dst + d \in Nat
    BY <1>4
  <2>. QED BY <2>1, Zenon
<1>11. to + w <= word /\ dst <= to /\ to + w <= dst + size
  BY <1>4, <1>6, <1>10
<1>12. to = At(req.dst, w)
  BY <1>1, <1>2, <1>3, <1>5, <1>10, Zenon DEF At
<1>13. PICK from \in Nat : from = IF Backwards(r) THEN src + size - d - w ELSE src + d
  <2>1. src + size - d - w \in Nat /\ src + d \in Nat
    BY <1>4
  <2>. QED BY <2>1, Zenon
<1>14. r.kind = "copy" => from = At(req.src, w)
  BY <1>1, <1>2, <1>3, <1>5, <1>13, Zenon DEF At
<1>15. PICK covered : covered = to .. to + w - 1
  OBVIOUS
<1>16. mem' = [a \in Address |->
                IF a \notin covered THEN mem[a]
                ELSE IF req.kind = "fill" THEN Filler
                ELSE mem[(At(req.src, w) + a - At(req.dst, w)) % Word]]
  <2>1. covered = {(to + i) % Word : i \in 0 .. w - 1}
    BY <1>3, <1>11, <1>15, Covered
  <2>. QED BY <1>12, <2>1, Zenon DEF Store
<1>17. ASSUME NEW a \in Address
       PROVE  a \in Dealt' <=> a \in Dealt \/ a \in covered
  <2>1. a \in Nat
    BY InAddress
  <2>2. CASE Backwards(r)
    <3>1. low = dst + size - d /\ to = dst + size - d - w
      BY <1>8, <1>10, <2>2
    <3>2. Dealt' = dst + size - (d + w) .. dst + size - 1
      BY <1>1, <1>3, <1>7, <2>2 DEF Dealt, Backwards
    <3>. QED BY <1>4, <1>9, <1>15, <2>1, <3>1, <3>2
  <2>3. CASE ~Backwards(r)
    <3>1. low = dst /\ to = dst + d
      BY <1>8, <1>10, <2>3
    <3>2. Dealt' = dst .. dst + (d + w) - 1
      BY <1>1, <1>3, <1>7, <2>3 DEF Dealt, Backwards
    <3>. QED BY <1>4, <1>9, <1>15, <2>1, <3>1, <3>2
  <2>. QED BY <2>2, <2>3
<1>18. ASSUME NEW a \in covered
       PROVE  a \in Nat /\ a \in Destination(r) /\ a \in Address /\ a \notin Dealt
  <2>1. a \in Nat /\ to <= a /\ a < to + w
    BY <1>15
  <2>2. a \in Destination(r) /\ a \in Address
    BY <1>3, <1>11, <2>1 DEF Destination, Address
  <2>3. a \notin Dealt
    BY <1>4, <1>8, <1>9, <1>10, <2>1
  <2>. QED BY <2>1, <2>2, <2>3
<1>19. ASSUME NEW a \in covered, r.kind = "copy"
       PROVE  /\ (At(req.src, w) + a - At(req.dst, w)) % Word = src + a - dst
              /\ src + a - dst \in Address /\ src + a - dst \notin Dealt
  <2>1. a \in Nat /\ to <= a /\ a < to + w
    BY <1>15
  <2>2. PICK b \in Int : b = from + a - to
    BY <2>1
  <2>3. b = src + a - dst
    BY <1>4, <1>10, <1>13, <2>1, <2>2
  <2>4. 0 <= b /\ b < word
    BY <1>6, <1>10, <1>11, <1>19, <2>1, <2>3
  <2>5. b % Word = b /\ b \in Address
    BY <1>3, <2>4, SmallMod DEF Address
  <2>6. b \notin Dealt
    <3>1. CASE Backwards(r)
      <4>1. src <= dst
        BY <1>3, <1>19, <3>1 DEF Backwards
      <4>. QED BY <1>8, <1>9, <1>10, <2>1, <2>3, <3>1, <4>1
    <3>2. CASE ~Backwards(r)
      <4>1. src >= dst
        BY <1>3, <1>19, <3>2 DEF Backwards
      <4>. QED BY <1>8, <1>9, <1>10, <2>1, <2>3, <3>2, <4>1
    <3>. QED BY <3>1, <3>2
  <2>. QED BY <1>12, <1>14, <1>19, <2>2, <2>3, <2>5, <2>6, Zenon
<1>20. \A a \in Address : /\ mem[a] \in Address \union {Filler}
                          /\ mem[a] = IF a \in Dealt THEN Effect(r)[a] ELSE a
  BY <1>1 DEF Moved, TypeOK
<1>21. r.kind \in {"copy", "fill"}
  BY RequestFacts
<1>22. ASSUME NEW a \in Address
       PROVE  /\ mem'[a] \in Address \union {Filler}
              /\ mem'[a] = IF a \in Dealt' THEN Effect(r)[a] ELSE a
  <2>1. CASE a \notin covered
    <3>1. mem'[a] = mem[a]
      BY <1>16, <2>1
    <3>. QED BY <1>17, <1>20, <2>1, <3>1, Zenon
  <2>2. CASE a \in covered /\ r.kind = "fill"
    <3>1. mem'[a] = Filler
      BY <1>1, <1>16, <2>2
    <3>2. Effect(r)[a] = Filler
      BY <1>18, <2>2 DEF Effect
    <3>. QED BY <1>17, <2>2, <3>1, <3>2, Zenon
  <2>3. CASE a \in covered /\ r.kind = "copy"
    <3>1. PICK b \in Address :
            /\ b = src + a - dst /\ b \notin Dealt
            /\ b = (At(req.src, w) + a - At(req.dst, w)) % Word
      BY <1>19, <2>3
    <3>2. mem'[a] = mem[b]
      <4>1. mem'[a] = mem[(At(req.src, w) + a - At(req.dst, w)) % Word]
        BY <1>1, <1>16, <2>3
      <4>. QED BY <3>1, <4>1, Zenon
    <3>3. mem[b] = b
      BY <1>20, <3>1
    <3>4. Effect(r)[a] = b
      BY <1>3, <1>18, <2>3, <3>1 DEF Effect
    <3>. QED BY <1>17, <2>3, <3>1, <3>2, <3>3, <3>4, Zenon
  <2>. QED BY <1>21, <2>1, <2>2, <2>3
<1>23. mem' = [a \in Address |-> mem'[a]]
  BY <1>16
<1>24. mem' = [a \in Address |-> IF a \in Dealt' THEN Effect(r)[a] ELSE a]
  BY <1>22, <1>23, Zenon
<1>25. Moved'
  BY <1>1, <1>24 DEF Moved
<1>. QED BY <1>2, <1>7, <1>22, <1>23, <1>25

(***************************************************************************)
(* The actions preserve the inductive invariant.                           *)
(***************************************************************************)
LEMMA InitHolds == Init => IInv
<1>. SUFFICES ASSUME Init PROVE IInv
  OBVIOUS
<1>1. req \in Requests /\ 0 \in Address /\ req.size \in Address
  BY RequestFacts, BulkAssumption DEF Init, Address
<1>2. Dealt = {}
  <2>1. PICK dst \in Nat, size \in Nat : dst = req.dst /\ size = req.size
    BY <1>1, RequestFacts, InAddress
  <2>2. done = 0
    BY DEF Init
  <2>3. dst + size - 0 .. dst + size - 1 = {} /\ dst .. dst + 0 - 1 = {}
    OBVIOUS
  <2>. QED BY <2>1, <2>2, <2>3, Zenon DEF Dealt
<1>3. TypeOK
  <2>1. <<>> \in Seq(PhaseType)
    OBVIOUS
  <2>. QED BY <1>1, <2>1 DEF Init, TypeOK
<1>4. Moved
  BY <1>2 DEF Init, Moved
<1>5. 0 <= req.size
  BY <1>1, InAddress
<1>. QED BY <1>3, <1>4, <1>5 DEF Init, IInv

LEMMA CheckKeeps ==
  ASSUME IInv, Check, AllSound
  PROVE  IInv'
<1>1. req \in Requests /\ ~Unsound(req) /\ done = 0 /\ left = req.size
  BY DEF IInv, TypeOK, Check, AllSound
<1>2. req' = req /\ mem' = mem /\ done' = done /\ left' = left
  BY DEF Check
<1>3. Moved' /\ (done <= req.size)'
  BY <1>2 DEF IInv, Moved, Dealt, Backwards
<1>4. CASE OutOfBounds(req)
  <2>1. pc' = "trapped" /\ phases' = phases
    BY <1>1, <1>4, CheckIsRight DEF Check
  <2>. QED BY <1>1, <1>2, <1>3, <1>4, <2>1 DEF IInv, TypeOK, OutOfBounds
<1>5. CASE ~OutOfBounds(req)
  <2>1. pc' = "run" /\ phases' = Emitted(req)
    BY <1>1, <1>5, CheckIsRight DEF Check
  <2>2. phases' \in Seq(PhaseType) /\ <<req.size, req.size>> \in Exactly(phases')
    BY <1>1, <2>1, EmittedDoes, Zenon DEF Does
  <2>3. req.size - 0 = req.size
    BY <1>1, RequestFacts, InAddress
  <2>4. (pc = "run" => <<req.size - done, left>> \in Exactly(phases))'
    BY <1>1, <1>2, <2>2, <2>3
  <2>. QED BY <1>1, <1>2, <1>3, <1>5, <2>1, <2>2, <2>4 DEF IInv, TypeOK, OutOfBounds
<1>. QED BY <1>4, <1>5

LEMMA FinishKeeps ==
  ASSUME IInv, Finish
  PROVE  IInv'
<1>1. pc = "run" /\ phases = <<>> /\ pc' = "finished" /\ UNCHANGED <<req, mem, done, left, phases>>
  BY DEF Finish
<1>2. <<req.size - done, left>> \in Exactly(<<>>)
  BY <1>1 DEF IInv
<1>3. req.size - done = 0
  BY <1>2, ExactlyEnd
<1>4. done = req.size
  <2>1. req.size \in Nat /\ done \in Nat
    BY RequestFacts, InAddress DEF IInv, TypeOK
  <2>. QED BY <1>3, <2>1
<1>5. Moved'
  BY <1>1 DEF IInv, Moved, Dealt, Backwards
<1>. QED BY <1>1, <1>4, <1>5 DEF IInv, TypeOK, OutOfBounds

LEMMA NextPhaseKeeps ==
  ASSUME IInv, NextPhase
  PROVE  IInv'
<1>1. /\ pc = "run" /\ phases # <<>> /\ pc' = "run" /\ phases' = Tail(phases)
      /\ req' = req /\ mem' = mem /\ done' = done
  BY DEF NextPhase
<1>2. PICK p : p = Head(phases)
  OBVIOUS
<1>3. PICK rest \in Address : rest = req.size - done
  <2>1. req.size \in Nat /\ done \in Nat /\ done <= req.size /\ req.size \in Address
    BY RequestFacts, InAddress DEF IInv, TypeOK
  <2>. QED BY <2>1, InAddress
<1>4. PICK n \in Address : n = left
  BY DEF IInv, TypeOK
<1>5. PICK after \in Seq(PhaseType) : after = Tail(phases)
  BY <1>1, HeadTailProperties DEF IInv, TypeOK
<1>6. p \in PhaseType /\ <<rest, n>> \in Before(p, Exactly(after))
  <2>1. <<rest, n>> \in Exactly(phases) /\ phases \in Seq(PhaseType)
    BY <1>1, <1>3, <1>4, Zenon DEF IInv, TypeOK
  <2>. QED BY <1>1, <1>2, <1>5, <2>1, ExactlyHead
<1>7. left' \in Address /\ <<rest, left'>> \in Exactly(after)
  <2>1. CASE p.kind = "reduce"
    <3>1. left' = (n - p.times) % Word
      BY <1>2, <1>4, <2>1 DEF NextPhase
    <3>2. <<rest, left'>> \in Exactly(after)
      BY <1>6, <2>1, <3>1, ReduceHandsOver
    <3>3. n - p.times \in Int
      BY <1>6, <2>1, InAddress DEF PhaseType
    <3>. QED BY <3>1, <3>2, <3>3, SmallMod
  <2>2. CASE p.kind # "reduce"
    <3>1. Empty(p, n) /\ left' = n
      BY <1>2, <1>4, <2>2 DEF NextPhase
    <3>. QED BY <1>6, <2>2, <3>1, EmptyHandsOver
  <2>. QED BY <2>1, <2>2
<1>8. (pc = "run" => <<req.size - done, left>> \in Exactly(phases))'
  BY <1>1, <1>3, <1>5, <1>7
<1>9. Moved'
  BY <1>1 DEF IInv, Moved, Dealt, Backwards
<1>. QED BY <1>1, <1>5, <1>7, <1>8, <1>9 DEF IInv, TypeOK, OutOfBounds

\* what the phases and the size register are after a chunk of the first one
GoOn(p, s) == IF p.times = Loop THEN s ELSE <<[p EXCEPT !.times = p.times - 1]>> \o Tail(s)
Counter(p, n) == IF p.kind = "unrolled" THEN n ELSE n - p.width

LEMMA PhasesGoOn ==
  ASSUME NEW s \in Seq(PhaseType), s # <<>>, NEW rest \in Address, NEW n \in Address,
         NEW p \in PhaseType, p = Head(s), p.kind # "reduce", ~Empty(p, n),
         <<rest, n>> \in Exactly(s),
         NEW m, m = Counter(p, n), NEW t, t = GoOn(p, s)
  PROVE  /\ p.width \in 1 .. 16 /\ p.width <= rest
         /\ (p.kind # "unrolled" => p.width <= n)
         /\ t \in Seq(PhaseType)
         /\ <<rest - p.width, m>> \in Exactly(t)
<1>1. PICK after \in Seq(PhaseType) : after = Tail(s) /\ Len(after) <= 3
  BY ExactlyHead
<1>2. <<rest, n>> \in Before(p, Exactly(after))
  BY <1>1, ExactlyHead
<1>3. PICK next \in PhaseType : next = Smaller(p)
  BY <1>2, ChunkLeaves
<1>4. PICK x : x = <<rest - p.width, m>>
  OBVIOUS
<1>5. /\ p.width \in 1 .. 16 /\ p.width <= rest /\ (p.kind # "unrolled" => p.width <= n)
      /\ x \in Before(next, Exactly(after))
  BY <1>2, <1>3, <1>4, ChunkLeaves, Zenon DEF Counter
<1>6. CASE p.times = Loop
  <2>1. t = s /\ next = p
    BY <1>3, <1>6, Zenon DEF Smaller, GoOn
  <2>2. Exactly(s) = Before(p, Exactly(after))
    <3>1. /\ Len(s) = Len(after) + 1 /\ s[1] = p
          /\ \A i \in 1 .. Len(after) : s[i + 1] = after[i]
      BY <1>1, HeadTailProperties, LenProperties
    <3>2. Exactly(s) = Before(s[1], Exactly(after))
      BY <1>1, <3>1, ExactlyChain
    <3>. QED BY <3>1, <3>2, Zenon
  <2>. QED BY <1>4, <1>5, <2>1, <2>2, Zenon
<1>7. CASE p.times # Loop
  <2>1. t = <<next>> \o after
    BY <1>1, <1>3, <1>7, Zenon DEF Smaller, GoOn
  <2>2. t \in Seq(PhaseType)
    <3>1. <<next>> \in Seq(PhaseType)
      OBVIOUS
    <3>. QED BY <2>1, <3>1, ConcatProperties
  <2>3. Exactly(t) = Before(next, Exactly(after))
    BY <1>1, <2>1, ExactlyPut, Zenon
  <2>. QED BY <1>4, <1>5, <2>2, <2>3, Zenon
<1>. QED BY <1>6, <1>7

LEMMA ChunkKeeps ==
  ASSUME IInv, Chunk
  PROVE  /\ IInv'
         /\ done' = done + Head(phases).width /\ done' <= req.size
<1>1. TypeOK /\ pc = "run" /\ phases # <<>> /\ pc' = "run" /\ req' = req /\ phases \in Seq(PhaseType)
  BY DEF Chunk, IInv, TypeOK
<1>2. PICK p \in PhaseType : p = Head(phases)
  BY <1>1, HeadTailProperties
<1>3. PICK rest \in Address : rest = req.size - done
  <2>1. req.size \in Nat /\ done \in Nat /\ done <= req.size /\ req.size \in Address
    BY RequestFacts, InAddress DEF IInv, TypeOK
  <2>. QED BY <2>1, InAddress
<1>4. PICK n \in Address : n = left
  BY DEF IInv, TypeOK
<1>5. PICK t : t = GoOn(p, phases)
  OBVIOUS
<1>6. /\ p.kind # "reduce" /\ ~Empty(p, n) /\ Store(p.width)
      /\ done' = (done + p.width) % Word
      /\ left' = (IF p.kind = "unrolled" THEN n ELSE (n - p.width) % Word)
      /\ phases' = t
  BY <1>2, <1>4, <1>5, Zenon DEF Chunk, GoOn
<1>7. <<rest, n>> \in Exactly(phases)
  BY <1>1, <1>3, <1>4, Zenon DEF IInv
<1>8. PICK w \in 1 .. 16 : w = p.width /\ w <= rest
  <2>1. PICK m : m = Counter(p, n)
    OBVIOUS
  <2>2. p.width \in 1 .. 16 /\ p.width <= rest
    BY <1>1, <1>2, <1>5, <1>6, <1>7, <2>1, PhasesGoOn
  <2>. QED BY <2>2, Zenon
<1>9. /\ t \in Seq(PhaseType) /\ (p.kind # "unrolled" => w <= n)
      /\ <<rest - w, IF p.kind = "unrolled" THEN n ELSE n - w>> \in Exactly(t)
  <2>1. PICK m : m = Counter(p, n)
    OBVIOUS
  <2>2. /\ t \in Seq(PhaseType) /\ (p.kind # "unrolled" => p.width <= n)
        /\ <<rest - p.width, m>> \in Exactly(t)
    BY <1>1, <1>2, <1>5, <1>6, <1>7, <2>1, PhasesGoOn
  <2>. QED BY <1>8, <2>1, <2>2, Zenon DEF Counter
<1>10. left' \in Address /\ left' = IF p.kind = "unrolled" THEN n ELSE n - w
  <2>1. CASE p.kind = "unrolled"
    BY <1>6, <2>1
  <2>2. CASE p.kind # "unrolled"
    <3>1. PICK k \in Nat : k = n - w /\ k < Word
      BY <1>9, <2>2, InAddress
    <3>2. k % Word = k /\ k \in Address
      BY <3>1, SmallMod
    <3>. QED BY <1>6, <1>8, <2>2, <3>1, <3>2, Zenon
  <2>. QED BY <2>1, <2>2
<1>11. done \in Nat /\ req.size \in Nat /\ done + w <= req.size /\ req.size \in Address
  <2>1. req.size \in Nat /\ done \in Nat /\ req.size \in Address
    BY <1>1, RequestFacts, InAddress DEF TypeOK
  <2>. QED BY <1>3, <1>8, <2>1, InAddress
<1>12. /\ done' = done + w /\ mem' \in [Address -> Address \union {Filler}]
       /\ Moved'
  <2>1. ~OutOfBounds(req) /\ Moved
    BY <1>1, Zenon DEF IInv
  <2>2. Store(w) /\ done' = (done + w) % Word
    BY <1>6, <1>8, Zenon
  <2>. QED BY <1>1, <1>11, <2>1, <2>2, ChunkMoves, Zenon
<1>13. done' \in Address /\ done' <= req.size /\ req.size - done' = rest - w
  BY <1>3, <1>11, <1>12, InAddress
<1>14. <<req.size - done', left'>> \in Exactly(phases')
  BY <1>6, <1>9, <1>10, <1>13, Zenon
<1>15. TypeOK'
  BY <1>1, <1>6, <1>9, <1>10, <1>12, <1>13, Zenon DEF TypeOK
<1>16. ~OutOfBounds(req)'
  BY <1>1 DEF IInv, OutOfBounds
<1>17. IInv'
  BY <1>1, <1>12, <1>13, <1>14, <1>15, <1>16 DEF IInv
<1>. QED BY <1>2, <1>8, <1>12, <1>13, <1>17, Zenon

LEMMA Inductive ==
  ASSUME AllSound
  PROVE  Spec => []IInv
<1>1. Init => IInv
  BY InitHolds
<1>2. ASSUME IInv, [Next]_vars
      PROVE  IInv'
  <2>1. CASE Check
    BY <1>2, <2>1, CheckKeeps
  <2>2. CASE Chunk
    BY <1>2, <2>2, ChunkKeeps
  <2>3. CASE NextPhase
    BY <1>2, <2>3, NextPhaseKeeps
  <2>4. CASE Finish
    BY <1>2, <2>4, FinishKeeps
  <2>5. CASE UNCHANGED vars
    BY <1>2, <2>5 DEF vars, IInv, TypeOK, Moved, Dealt, Backwards, OutOfBounds
  <2>. QED BY <1>2, <2>1, <2>2, <2>3, <2>4, <2>5 DEF Next
<1>. QED BY <1>1, <1>2, PTL DEF Spec

(***************************************************************************)
(* The theorems.                                                           *)
(***************************************************************************)
\* The bytes are the destination's once all of them are dealt with.
LEMMA DealtAtTheEnd ==
  ASSUME IInv
  PROVE  /\ Dealt \subseteq Destination(req)
         /\ done = req.size => Dealt = Destination(req)
<1>1. PICK dst \in Nat, size \in Nat, d \in Nat : dst = req.dst /\ size = req.size /\ d = done /\ d <= size
  BY RequestFacts, InAddress DEF IInv, TypeOK
<1>2. Destination(req) = dst .. dst + size - 1
  BY <1>1, Zenon DEF Destination
<1>3. CASE Backwards(req)
  <2>1. Dealt = dst + size - d .. dst + size - 1
    BY <1>1, <1>3, Zenon DEF Dealt
  <2>2. dst + size - size = dst
    OBVIOUS
  <2>3. done = req.size => Dealt = Destination(req)
    BY <1>1, <1>2, <2>1, <2>2, Zenon
  <2>. QED BY <1>1, <1>2, <2>1, <2>3
<1>4. CASE ~Backwards(req)
  <2>1. Dealt = dst .. dst + d - 1
    BY <1>1, <1>4, Zenon DEF Dealt
  <2>2. done = req.size => Dealt = Destination(req)
    BY <1>1, <1>2, <2>1, Zenon
  <2>. QED BY <1>1, <1>2, <2>1, <2>2
<1>. QED BY <1>3, <1>4

\* Whatever the unrolling, the order of the chunks and the overlap of source
\* and destination, the code the three backends emit for memory.copy and
\* memory.fill leaves memory as one indivisible move or fill would, traps
\* exactly when the operands reach out of bounds, and then before it has
\* written a byte: for every instruction but those named by Unsound.
THEOREM MovesAtOnce == AllSound => (Spec => []DoneAsIfAtOnce)
<1>. SUFFICES ASSUME AllSound PROVE Spec => []DoneAsIfAtOnce
  OBVIOUS
<1>1. Spec => []IInv
  BY Inductive
<1>2. IInv => DoneAsIfAtOnce
  <2>. SUFFICES ASSUME IInv PROVE DoneAsIfAtOnce
    OBVIOUS
  <2>1. ASSUME pc = "finished"
        PROVE  ~OutOfBounds(req) /\ mem = Effect(req)
    <3>1. done = req.size /\ Moved /\ ~OutOfBounds(req)
      BY <2>1 DEF IInv
    <3>2. Dealt = Destination(req)
      BY <3>1, DealtAtTheEnd
    <3>3. \A a \in Address : (IF a \in Dealt THEN Effect(req)[a] ELSE a) = Effect(req)[a]
      BY <3>2 DEF Effect
    <3>4. Effect(req) = [a \in Address |-> Effect(req)[a]]
      BY DEF Effect
    <3>. QED BY <3>1, <3>3, <3>4, Zenon DEF Moved
  <2>2. ASSUME pc = "trapped"
        PROVE  OutOfBounds(req) /\ mem = [a \in Address |-> a]
    <3>1. done = 0 /\ Moved /\ OutOfBounds(req)
      BY <2>2 DEF IInv
    <3>2. Dealt = {}
      <4>1. PICK dst \in Nat, size \in Nat : dst = req.dst /\ size = req.size
        BY RequestFacts, InAddress DEF IInv, TypeOK
      <4>2. dst + size - 0 .. dst + size - 1 = {} /\ dst .. dst + 0 - 1 = {}
        OBVIOUS
      <4>. QED BY <3>1, <4>1, <4>2, Zenon DEF Dealt
    <3>. QED BY <3>1, <3>2 DEF Moved
  <2>. QED BY <2>1, <2>2 DEF DoneAsIfAtOnce
<1>. QED BY <1>1, <1>2, PTL

\* No chunk ever reaches beyond the bytes the instruction is meant to write,
\* at no moment and not even for a byte: what lies there is the job's, the
\* runtime's or another program's.
THEOREM WritesDestinationOnly == AllSound => (Spec => []OnlyDestinationWritten)
<1>. SUFFICES ASSUME AllSound PROVE Spec => []OnlyDestinationWritten
  OBVIOUS
<1>1. Spec => []IInv
  BY Inductive
<1>2. IInv => OnlyDestinationWritten
  BY DealtAtTheEnd DEF IInv, Moved, OnlyDestinationWritten
<1>. QED BY <1>1, <1>2, PTL

(***************************************************************************)
(* TriCore: words at even addresses.                                       *)
(***************************************************************************)
LEMMA ParityKept ==
  ASSUME NEW a \in Int, NEW w \in Int, w % 2 = 0
  PROVE  (a + w) % 2 = a % 2 /\ (a - w) % 2 = a % 2
  OBVIOUS

\* the emitted phases as an array
LEMMA AlignedLiterals ==
  ASSUME NEW t \in Nat, NEW w \in {4, 8}
  PROVE  LET s == Counted(1, t) \o WhileAtLeast(w) \o WhileAtLeast(1)
         IN  /\ Len(s) = 3 /\ s[1] = Phase("counted", 1, t) /\ s[2] = Phase("atleast", w, Loop)
             /\ s[3] = Phase("atleast", 1, Loop)
<1>. DEFINE s == Counted(1, t) \o WhileAtLeast(w) \o WhileAtLeast(1)
<1>1. PICK a \in PhaseType, b \in PhaseType, c \in PhaseType :
        a = Phase("counted", 1, t) /\ b = Phase("atleast", w, Loop) /\ c = Phase("atleast", 1, Loop)
  BY PhaseKinds
<1>2. s = <<a>> \o <<b>> \o <<c>>
  BY <1>1, Zenon DEF Counted, WhileAtLeast
<1>3. PICK u : u = <<a, b, c>>
  OBVIOUS
<1>4. Len(u) = 3 /\ u[1] = a /\ u[2] = b /\ u[3] = c
  BY <1>3
<1>5. s = u
  <2>1. <<a>> \o <<b>> = <<a, b>> /\ <<a, b>> \o <<c>> = <<a, b, c>>
    BY Triples
  <2>. QED BY <1>2, <1>3, <2>1, Zenon
<1>. QED BY <1>1, <1>4, <1>5, Zenon

LEMMA EmittedAligned ==
  ASSUME NEW r \in Requests, r.target = "tricore"
  PROVE  \/ \A i \in 1 .. Len(Emitted(r)) : ~(Emitted(r)[i].width > 1)
         \/ \E t \in {0, 1}, w \in {4, 8} :
              /\ t = End(r) % 2 /\ (r.kind = "copy" => r.src % 2 = r.dst % 2)
              /\ Emitted(r) = Counted(1, t) \o WhileAtLeast(w) \o WhileAtLeast(1)
<1>1. r.target # "x86_64" /\ r.target # "aarch64"
  OBVIOUS
<1>2. PICK t \in {0, 1} : t = End(r) % 2
  <2>1. PICK m \in Nat : m = End(r)
    BY RequestFacts, InAddress DEF End
  <2>2. m % 2 \in {0, 1}
    OBVIOUS
  <2>. QED BY <2>1, <2>2
<1>3. CASE r.kind # "copy"
  <2>1. End(r) = r.dst /\ r.kind = "fill"
    BY <1>3, RequestFacts DEF End, Backwards
  <2>2. Emitted(r) = Counted(1, t) \o WhileAtLeast(4) \o WhileAtLeast(1)
    BY <1>1, <1>2, <1>3, <2>1, Zenon DEF Emitted, TriCoreFill
  <2>. QED BY <1>2, <1>3, <2>2
<1>4. CASE r.kind = "copy" /\ r.size >= 8 /\ r.src % 2 = r.dst % 2
  <2>1. Emitted(r) = Counted(1, t) \o WhileAtLeast(8) \o WhileAtLeast(1)
    BY <1>1, <1>2, <1>4, Zenon DEF Emitted, TriCoreCopy
  <2>. QED BY <1>2, <1>4, <2>1
<1>5. CASE r.kind = "copy" /\ ~(r.size >= 8 /\ r.src % 2 = r.dst % 2)
  <2>1. Emitted(r) = <<>> \o WhileAtLeast(1)
    BY <1>1, <1>5, Zenon DEF Emitted, TriCoreCopy
  <2>2. PICK a \in PhaseType : a = Phase("atleast", 1, Loop)
    BY PhaseKinds
  <2>3. <<>> \o <<a>> = <<a>>
    BY Concatenations
  <2>4. PICK u : u = <<a>>
    OBVIOUS
  <2>5. Emitted(r) = u
    BY <2>1, <2>2, <2>3, <2>4, Zenon DEF WhileAtLeast
  <2>6. Len(u) = 1 /\ u[1] = a /\ a.width = 1
    BY <2>2, <2>4 DEF Phase
  <2>7. \A i \in 1 .. Len(u) : ~(u[i].width > 1)
    BY <2>6
  <2>. QED BY <2>5, <2>7, Zenon
<1>. QED BY <1>3, <1>4, <1>5

LEMMA HeadAndRest ==
  ASSUME NEW s \in Seq(PhaseType), s # <<>>
  PROVE  /\ Head(s) \in PhaseType /\ Tail(s) \in Seq(PhaseType)
         /\ Head(s) = s[1] /\ Len(Tail(s)) \in Nat /\ Len(s) = Len(Tail(s)) + 1
         /\ \A k \in 1 .. Len(Tail(s)) : Tail(s)[k] = s[k + 1]
  BY HeadTailProperties, LenProperties

LEMMA SmallerFacts ==
  ASSUME NEW p \in PhaseType, p.kind \in {"unrolled", "counted"}, p.times \in Nat \ {0}
  PROVE  /\ Smaller(p) \in PhaseType /\ Smaller(p).kind = p.kind
         /\ Smaller(p).width = p.width /\ Smaller(p).times = p.times - 1
<1>1. PICK t \in Nat \ {0} : t = p.times
  OBVIOUS
<1>2. PICK w \in 1 .. 16 : w = p.width
  BY DEF PhaseType
<1>. QED BY <1>1, <1>2 DEF Smaller, PhaseType, Loop

LEMMA Prepended ==
  ASSUME NEW q \in PhaseType, NEW t \in Seq(PhaseType), NEW s, s = <<q>> \o t
  PROVE  Len(s) = Len(t) + 1 /\ s[1] = q /\ \A k \in 1 .. Len(t) : s[k + 1] = t[k]
  OBVIOUS

\* the parity of the address where the words begin stays what it is
LEMMA AlignedKept ==
  ASSUME IInv, Aligned, AllSound, [Next]_vars
  PROVE  Aligned'
<1>. SUFFICES ASSUME req'.target = "tricore", NEW i \in 1 .. Len(phases'), phases'[i].width > 1
              PROVE  /\ i \in {1, 2} /\ phases'[i].kind = "atleast" /\ phases'[i].width \in {4, 8}
                     /\ i = 1 => EvenAfter(0)'
                     /\ i = 2 => /\ phases'[1].kind = "counted" /\ phases'[1].width = 1
                                 /\ (End(req') + done' + phases'[1].times) % 2 = 0
                                 /\ req'.kind = "copy" => req'.src % 2 = req'.dst % 2
  BY DEF Aligned, EvenAfter
<1>1. req' = req /\ TypeOK
  BY DEF IInv, Next, Check, Chunk, NextPhase, Finish, vars
<1>2. PICK end \in Nat, d \in Nat : end = End(req) /\ d = done
  BY <1>1, RequestFacts, InAddress DEF End, TypeOK
<1>3. End(req') = end
  BY <1>1, <1>2
<1>4. \A k \in 1 .. Len(phases) : phases[k].width > 1 =>
        /\ k \in {1, 2} /\ phases[k].kind = "atleast" /\ phases[k].width \in {4, 8}
        /\ k = 1 => (end + d + 0) % 2 = 0 /\ (req.kind = "copy" => req.src % 2 = req.dst % 2)
        /\ k = 2 => /\ phases[1].kind = "counted" /\ phases[1].width = 1
                    /\ (end + d + phases[1].times) % 2 = 0
                    /\ req.kind = "copy" => req.src % 2 = req.dst % 2
  BY <1>1, <1>2 DEF Aligned, EvenAfter
<1>5. CASE done' = done /\ phases' = phases
  BY <1>1, <1>2, <1>3, <1>4, <1>5 DEF EvenAfter
<1>6. CASE Check /\ phases' # phases
  <2>1. phases' = Emitted(req) /\ done' = done /\ done = 0 /\ req \in Requests
    BY <1>1, <1>6 DEF Check, IInv, TypeOK
  <2>2. PICK t \in {0, 1}, w \in {4, 8} :
          /\ t = end % 2 /\ (req.kind = "copy" => req.src % 2 = req.dst % 2)
          /\ phases' = Counted(1, t) \o WhileAtLeast(w) \o WhileAtLeast(1)
    BY <1>1, <1>2, <2>1, EmittedAligned
  <2>3. /\ Len(phases') = 3 /\ phases'[1] = Phase("counted", 1, t)
        /\ phases'[2] = Phase("atleast", w, Loop) /\ phases'[3] = Phase("atleast", 1, Loop)
    <3>1. t \in Nat
      BY <2>2
    <3>. QED BY <2>2, <3>1, AlignedLiterals, Zenon
  <2>4. i = 2
    BY <2>3 DEF Phase
  <2>5. phases'[1].times = t /\ (end + 0 + t) % 2 = 0
    BY <2>2, <2>3 DEF Phase
  <2>6. /\ phases'[2].kind = "atleast" /\ phases'[2].width \in {4, 8}
        /\ phases'[1].kind = "counted" /\ phases'[1].width = 1
    BY <2>2, <2>3 DEF Phase
  <2>. QED BY <1>1, <1>2, <1>3, <2>1, <2>2, <2>4, <2>5, <2>6
<1>7. CASE Chunk
  <2>1. PICK p \in PhaseType, after \in Seq(PhaseType) :
          /\ p = Head(phases) /\ after = Tail(phases) /\ phases \in Seq(PhaseType) /\ phases # <<>>
          /\ p = phases[1] /\ Len(phases) = Len(after) + 1
          /\ \A k \in 1 .. Len(after) : after[k] = phases[k + 1]
    <3>1. phases \in Seq(PhaseType) /\ phases # <<>>
      BY <1>1, <1>7, Zenon DEF Chunk, TypeOK
    <3>. QED BY <3>1, HeadAndRest
  <2>2. done' = done + p.width /\ phases' = GoOn(p, phases) /\ p.kind # "reduce"
    BY <1>7, <2>1, ChunkKeeps DEF Chunk, GoOn
  <2>3. CASE p.times = Loop
    <3>1. phases' = phases
      BY <2>2, <2>3 DEF GoOn
    <3>2. p.kind # "counted"
      BY <2>3 DEF PhaseType, Loop
    <3>3. i = 1 /\ p.width \in {4, 8} /\ phases[1].kind = "atleast" /\ (end + d + 0) % 2 = 0
          /\ (req.kind = "copy" => req.src % 2 = req.dst % 2)
      BY <1>4, <2>1, <3>1, <3>2
    <3>4. (end + (d + p.width) + 0) % 2 = 0
      BY <3>3
    <3>. QED BY <1>1, <1>2, <1>3, <2>1, <2>2, <3>1, <3>3, <3>4 DEF EvenAfter
  <2>4. CASE p.times # Loop
    <3>1. p.kind \in {"unrolled", "counted"} /\ p.times \in Nat \ {0} /\ p.width \in 1 .. 16
      <4>1. ~Empty(p, left)
        BY <1>7, <2>1 DEF Chunk
      <4>2. p.kind \in {"unrolled", "counted"} /\ p.times \in Nat /\ p.width \in 1 .. 16
        BY <2>2, <2>4 DEF PhaseType
      <4>. QED BY <4>1, <4>2 DEF Empty
    <3>2. PICK q \in PhaseType : /\ q = Smaller(p) /\ q.kind = p.kind /\ q.width = p.width
                                /\ q.times = p.times - 1
      BY <3>1, SmallerFacts
    <3>3. phases' = <<q>> \o after
      BY <2>1, <2>2, <2>4, <3>2, Zenon DEF GoOn, Smaller
    <3>4. /\ Len(phases') = Len(after) + 1 /\ phases'[1] = q
          /\ \A k \in 1 .. Len(after) : phases'[k + 1] = after[k]
      BY <3>3, Prepended
    <3>5. \A k \in 1 .. Len(phases') : k # 1 => phases'[k] = phases[k]
      <4>. SUFFICES ASSUME NEW k \in 1 .. Len(phases'), k # 1 PROVE phases'[k] = phases[k]
        OBVIOUS
      <4>1. Len(after) \in Nat
        BY LenProperties
      <4>2. PICK j \in 1 .. Len(after) : k = j + 1
        BY <3>4, <4>1
      <4>. QED BY <2>1, <3>4, <4>2
    <3>6. p.width > 1 => p.kind = "atleast"
      <4>1. 1 \in 1 .. Len(phases)
        <5>1. Len(after) \in Nat
          BY LenProperties
        <5>. QED BY <2>1, <5>1
      <4>. QED BY <1>4, <2>1, <4>1
    <3>7. i = 2 /\ phases'[2] = phases[2] /\ 2 \in 1 .. Len(phases)
      <4>1. i # 1
        BY <3>1, <3>2, <3>4, <3>6
      <4>2. i \in 1 .. Len(phases) /\ phases'[i] = phases[i]
        BY <2>1, <3>4, <3>5, <4>1
      <4>3. i \in {1, 2}
        BY <1>4, <4>2
      <4>. QED BY <4>1, <4>2, <4>3
    <3>8. /\ phases[2].kind = "atleast" /\ phases[2].width \in {4, 8}
          /\ p.kind = "counted" /\ p.width = 1 /\ (end + d + p.times) % 2 = 0
          /\ req.kind = "copy" => req.src % 2 = req.dst % 2
      BY <1>4, <2>1, <3>7
    <3>9. done' = d + 1 /\ end + (d + 1) + (p.times - 1) = end + d + p.times
      BY <1>2, <2>2, <3>1, <3>8
    <3>. QED BY <1>1, <1>3, <3>2, <3>4, <3>7, <3>8, <3>9
  <2>. QED BY <2>3, <2>4
<1>8. CASE NextPhase
  <2>1. PICK p \in PhaseType, after \in Seq(PhaseType) :
          /\ p = Head(phases) /\ after = Tail(phases) /\ phases \in Seq(PhaseType) /\ phases # <<>>
          /\ p = phases[1] /\ Len(phases) = Len(after) + 1
          /\ \A k \in 1 .. Len(after) : after[k] = phases[k + 1]
    <3>1. phases \in Seq(PhaseType) /\ phases # <<>>
      BY <1>1, <1>8, Zenon DEF NextPhase, TypeOK
    <3>. QED BY <3>1, HeadAndRest
  <2>2. phases' = after /\ done' = done /\ (p.kind = "counted" => Empty(p, left))
    BY <1>8, <2>1 DEF NextPhase
  <2>3. i + 1 \in 1 .. Len(phases) /\ phases'[i] = phases[i + 1] /\ Len(after) \in Nat
    BY <2>1, <2>2, LenProperties
  <2>4. i + 1 = 2
    BY <1>4, <2>3
  <2>5. /\ phases'[i].kind = "atleast" /\ phases'[i].width \in {4, 8} /\ p.kind = "counted"
        /\ (end + d + p.times) % 2 = 0 /\ (req.kind = "copy" => req.src % 2 = req.dst % 2)
    BY <1>4, <2>1, <2>3, <2>4
  <2>6. p.times = 0
    BY <2>2, <2>5 DEF Empty
  <2>. QED BY <1>1, <1>2, <1>3, <2>2, <2>4, <2>5, <2>6 DEF EvenAfter
<1>. QED BY <1>5, <1>6, <1>7, <1>8 DEF Next, Finish, Check, vars

\* A load or store of a word or a double word at an odd address is a trap of
\* the processor; the code for TriCore makes none, at neither end of a copy,
\* from whichever end it starts.
THEOREM WordsAtEvenAddresses == AllSound => (Spec => []EvenAddresses)
<1>. SUFFICES ASSUME AllSound PROVE Spec => []EvenAddresses
  OBVIOUS
<1>1. Spec => []IInv
  BY Inductive
<1>2. Init => Aligned
  BY DEF Init, Aligned
<1>3. IInv /\ Aligned /\ [Next]_vars => Aligned'
  BY AlignedKept
<1>4. IInv /\ Aligned => EvenAddresses
  <2>. SUFFICES ASSUME IInv, Aligned, req.target = "tricore", pc = "run", phases # <<>>,
                       Head(phases).width > 1, ~Empty(Head(phases), left)
                PROVE  /\ At(req.dst, Head(phases).width) % 2 = 0
                       /\ req.kind = "copy" => At(req.src, Head(phases).width) % 2 = 0
    BY DEF EvenAddresses
  <2>1. /\ TypeOK /\ ~OutOfBounds(req) /\ done <= req.size
        /\ <<req.size - done, left>> \in Exactly(phases)
    BY DEF IInv
  <2>2. PICK p \in PhaseType : p = Head(phases) /\ p = phases[1] /\ 1 \in 1 .. Len(phases)
    BY <2>1, HeadAndRest DEF TypeOK
  <2>3. p.kind = "atleast" /\ p.width \in {4, 8} /\ EvenAfter(0)
    BY <2>2 DEF Aligned
  <2>4. PICK r \in Requests, d \in Nat, n \in Address :
          r = req /\ d = done /\ n = left /\ r.size \in Address /\ r.size \in Nat
    BY <2>1, RequestFacts, InAddress DEF TypeOK
  <2>5. PICK w \in 1 .. 16 : w = p.width /\ d + w <= r.size /\ w % 2 = 0
    <3>1. PICK rest \in Address : rest = req.size - done
      BY <2>1, <2>4, InAddress
    <3>2. <<rest, n>> \in Before(p, Exactly(Tail(phases)))
      BY <2>1, <2>2, <2>4, <3>1, ExactlyHead DEF TypeOK
    <3>3. p.width <= rest /\ p.width \in 1 .. 16
      BY <2>2, <2>3, <2>4, <3>2, ChunkLeaves
    <3>4. rest = r.size - d
      BY <2>4, <3>1, Zenon
    <3>5. p.width % 2 = 0
      BY <2>3
    <3>6. PICK w \in 1 .. 16 : w = p.width
      BY <3>3
    <3>7. w <= rest /\ rest \in Nat /\ r.size \in Nat
      BY <2>4, <3>3, <3>6, InAddress
    <3>8. d + w <= r.size
      BY <3>4, <3>7
    <3>. QED BY <3>5, <3>6, <3>8, Zenon
  <2>6. PICK dst \in Nat, src \in Nat, size \in Nat : dst = r.dst /\ src = r.src /\ size = r.size
    BY RequestFacts, InAddress
  <2>7. /\ (dst + size - d - w) % Word = dst + size - d - w
        /\ (dst + d) % Word = dst + d
        /\ r.kind = "copy" =>
              /\ (src + size - d - w) % Word = src + size - d - w
              /\ (src + d) % Word = src + d
    <3>1. ~OutOfBounds(r) /\ d + w <= r.size
      BY <2>1, <2>4, <2>5, Zenon
    <3>. QED BY <2>6, <3>1, ChunkPlace, Zenon
  <2>8. r.kind = "copy" => src % 2 = dst % 2
    BY <2>3, <2>4, <2>6 DEF EvenAfter
  <2>9. CASE Backwards(req)
    <3>1. (dst + size + d + 0) % 2 = 0
      BY <2>3, <2>4, <2>6, <2>9, Zenon DEF EvenAfter, End
    <3>2. (dst + size - d - w) % 2 = 0
      <4>1. PICK a \in Int : a = dst + size + d + 0 /\ a % 2 = 0
        BY <3>1
      <4>2. PICK k \in Int : w = 2 * k
        BY <2>5
      <4>3. dst + size - d - w = a - 2 * (d + k) /\ 2 * (d + k) \in Int
        BY <4>1, <4>2
      <4>4. (2 * (d + k)) % 2 = 0
        OBVIOUS
      <4>. QED BY <4>1, <4>3, <4>4, ParityKept
    <3>3. r.kind = "copy" => (src + size - d - w) % 2 = 0
      <4>. SUFFICES ASSUME r.kind = "copy" PROVE (src + size - d - w) % 2 = 0
        OBVIOUS
      <4>1. PICK a \in Int : a = dst + size - d - w /\ a % 2 = 0
        BY <3>2
      <4>2. src + size - d - w = a - (dst - src) /\ dst - src \in Int
        BY <4>1
      <4>3. (dst - src) % 2 = 0
        <5>1. src % 2 = dst % 2
          BY <2>8
        <5>. QED BY <5>1
      <4>4. (a - (dst - src)) % 2 = a % 2
        BY <4>2, <4>3, ParityKept
      <4>. QED BY <4>1, <4>2, <4>4, Zenon
    <3>4. At(req.dst, w) = dst + size - d - w
      BY <2>4, <2>6, <2>7, <2>9, Zenon DEF At
    <3>5. r.kind = "copy" => At(req.src, w) = src + size - d - w
      BY <2>4, <2>6, <2>7, <2>9, Zenon DEF At
    <3>. QED BY <2>2, <2>4, <2>5, <3>2, <3>3, <3>4, <3>5, Zenon
  <2>10. CASE ~Backwards(req)
    <3>1. (dst + d + 0) % 2 = 0
      BY <2>3, <2>4, <2>6, <2>10, Zenon DEF EvenAfter, End
    <3>2. (dst + d) % 2 = 0
      BY <3>1
    <3>3. r.kind = "copy" => (src + d) % 2 = 0
      BY <2>8, <3>2
    <3>4. At(req.dst, w) = dst + d
      BY <2>4, <2>6, <2>7, <2>10, Zenon DEF At
    <3>5. r.kind = "copy" => At(req.src, w) = src + d
      BY <2>4, <2>6, <2>7, <2>10, Zenon DEF At
    <3>. QED BY <2>2, <2>4, <2>5, <3>2, <3>3, <3>4, <3>5, Zenon
  <2>. QED BY <2>9, <2>10
<1>. QED BY <1>1, <1>2, <1>3, <1>4, PTL DEF Spec
=============================================================================
