------------------------ MODULE FunctionBody_proofs ------------------------
(***************************************************************************)
(* Proofs about FunctionBody for all instructions, types and nesting.      *)
(***************************************************************************)
EXTENDS FunctionBody, SequenceTheorems, FiniteSetTheorems, WellFoundedInduction, TLAPS

\* A non-empty set of natural numbers has a least element.
LEMMA LeastOf ==
  ASSUME NEW S \in SUBSET Nat, S # {}
  PROVE  \E m \in S : \A n \in S : m <= n
<1>. DEFINE Upto(n) == 1 .. n
            Family == {Upto(n) : n \in S}
            R == StrictSubsetOrdering(Nat)
<1>1. IsWellFoundedOn(R, FiniteSubsetsOf(Nat))
  BY FS_StrictSubsetOrderingWellFounded
<1>2. \A n \in S : Upto(n) \in FiniteSubsetsOf(Nat)
  BY FS_Interval DEF FiniteSubsetsOf
<1>3. Family \subseteq FiniteSubsetsOf(Nat) /\ Family # {}
  BY <1>2
<1>4. \E X \in Family : \A Y \in Family : ~ (<<Y, X>> \in R)
  <2>. HIDE DEF R, Family
  <2>. QED BY <1>1, <1>3, WFMin
<1>5. PICK m \in S : \A n \in S : <<Upto(n), Upto(m)>> \notin R
  BY <1>4
<1>6. ASSUME NEW n \in S, ~(m <= n)
      PROVE  FALSE
  <2>1. Upto(n) \subseteq Upto(m) /\ Upto(n) # Upto(m)
    <3>1. m \in Upto(m) /\ m \notin Upto(n)
      BY <1>6
    <3>. QED BY <3>1, <1>6
  <2>2. Upto(n) \in SUBSET Nat /\ Upto(m) \in SUBSET Nat
    OBVIOUS
  <2>. HIDE DEF Upto
  <2>3. <<Upto(n), Upto(m)>> \in R
    BY <2>1, <2>2 DEF StrictSubsetOrdering
  <2>. QED BY <2>3, <1>5
<1>. QED BY <1>6

\* What holds of 0 and of n + 1 with n holds of all natural numbers.
LEMMA Induction ==
  ASSUME NEW S \in SUBSET Nat, 0 \in S, \A n \in S : n + 1 \in S
  PROVE  S = Nat
<1>. SUFFICES ASSUME S # Nat PROVE FALSE
  OBVIOUS
<1>1. PICK m \in Nat \ S : \A n \in Nat \ S : m <= n
  BY LeastOf
<1>2. m # 0 /\ m - 1 \in Nat /\ m = (m - 1) + 1
  BY <1>1
<1>3. m - 1 \in S
  BY <1>1, <1>2
<1>. QED BY <1>1, <1>2, <1>3

IsPlaces(p, list, last, opened) ==
  p = [k \in DOMAIN opened |->
         IF k = Len(opened) THEN last
         ELSE IF opened[k + 1].kind = "IFBLOCK" THEN p[k + 1]
         ELSE list[p[k + 1]].prev]

LEMMA PlacesUnfold ==
  ASSUME NEW list, NEW last, NEW opened, NEW p, IsPlaces(p, list, last, opened)
  PROVE  IsPlaces(PlacesOf(list, last, opened), list, last, opened)
  BY DEF PlacesOf, IsPlaces

\* ... and so the recursive definition has a solution.
LEMMA PlacesExist ==
  ASSUME NEW list, NEW last, NEW opened, NEW n \in Nat \ {0}, Len(opened) = n, DOMAIN opened = 1 .. n
  PROVE  \E p : IsPlaces(p, list, last, opened)
<1>. DEFINE Around(k, v) == IF opened[k + 1].kind = "IFBLOCK" THEN v ELSE list[v].prev
            From(m, p) == p = [k \in n - m .. n |-> IF k = n THEN last ELSE Around(k, p[k + 1])]
            S == {m \in Nat : m < n => \E p : From(m, p)}
<1>. HIDE DEF Around
<1>1. 0 \in S
  <2>. DEFINE q == [k \in n - 0 .. n |-> last]
  <2>1. n - 0 .. n = {n}
    OBVIOUS
  <2>2. q = [k \in n - 0 .. n |-> IF k = n THEN last ELSE Around(k, q[k + 1])]
    BY <2>1
  <2>. QED BY <2>2
<1>2. ASSUME NEW m \in S PROVE m + 1 \in S
  <2>. SUFFICES ASSUME m + 1 < n PROVE \E p : From(m + 1, p)
    OBVIOUS
  <2>1. PICK p : From(m, p)
    OBVIOUS
  <2>. DEFINE q == [k \in n - (m + 1) .. n |-> IF k = n - (m + 1) THEN Around(k, p[k + 1]) ELSE p[k]]
  <2>2. \A k \in n - m .. n : p[k] = IF k = n THEN last ELSE Around(k, p[k + 1])
    BY <2>1, Zenon
  <2>3. \A k \in n - m .. n : q[k] = p[k]
    OBVIOUS
  <2>4. \A k \in n - (m + 1) .. n : q[k] = IF k = n THEN last ELSE Around(k, q[k + 1])
    <3>. TAKE k \in n - (m + 1) .. n
    <3>1. CASE k = n - (m + 1)
      <4>1. k # n /\ k + 1 \in n - m .. n /\ q[k] = Around(k, p[k + 1])
        BY <3>1
      <4>. QED BY <4>1, <2>3
    <3>2. CASE k # n - (m + 1)
      <4>1. k \in n - m .. n /\ (k # n => k + 1 \in n - m .. n)
        BY <3>2
      <4>. QED BY <4>1, <2>2, <2>3
    <3>. QED BY <3>1, <3>2
  <2>5. q = [k \in n - (m + 1) .. n |-> IF k = n THEN last ELSE Around(k, q[k + 1])]
    BY <2>4
  <2>. QED BY <2>5
<1>3. S = Nat
  <2>. HIDE DEF S
  <2>1. S \in SUBSET Nat
    BY DEF S
  <2>. QED BY <1>1, <1>2, <2>1, Induction
<1>4. n - 1 \in S
  BY <1>3, SMTT(60)
<1>5. PICK p : From(n - 1, p)
  BY <1>4
<1>6. n - (n - 1) .. n = DOMAIN opened /\ n = Len(opened)
  OBVIOUS
<1>. QED BY <1>5, <1>6, ZenonT(60) DEF IsPlaces, Around

\* What the places are: the last one is given, each other follows from the next.
Around(list, opened, k, v) == IF opened[k + 1].kind = "IFBLOCK" THEN v ELSE list[v].prev

LEMMA PlacesFacts ==
  ASSUME NEW list, NEW last, NEW opened, NEW n \in Nat \ {0}, Len(opened) = n, DOMAIN opened = 1 .. n
  PROVE  /\ PlacesOf(list, last, opened)[n] = last
         /\ \A k \in 1 .. n - 1 : PlacesOf(list, last, opened)[k] =
                                    Around(list, opened, k, PlacesOf(list, last, opened)[k + 1])
<1>1. PICK p : p = PlacesOf(list, last, opened)
  OBVIOUS
<1>2. IsPlaces(p, list, last, opened)
  BY <1>1, PlacesExist, PlacesUnfold
<1>3. p = [k \in 1 .. n |-> IF k = n THEN last
                            ELSE IF opened[k + 1].kind = "IFBLOCK" THEN p[k + 1] ELSE list[p[k + 1]].prev]
  BY <1>2, Zenon DEF IsPlaces
<1>4. \A k \in 1 .. n : p[k] = IF k = n THEN last
                               ELSE IF opened[k + 1].kind = "IFBLOCK" THEN p[k + 1] ELSE list[p[k + 1]].prev
  BY <1>3, Zenon
<1>5. p[n] = last
  BY <1>4
<1>6. \A k \in 1 .. n - 1 : p[k] = Around(list, opened, k, p[k + 1])
  BY <1>4 DEF Around
<1>. QED BY <1>1, <1>5, <1>6

\* Nothing else is.
LEMMA PlacesUnique ==
  ASSUME NEW list, NEW last, NEW opened, NEW n \in Nat \ {0}, Len(opened) = n, DOMAIN opened = 1 .. n,
         NEW p, p[n] = last, \A k \in 1 .. n - 1 : p[k] = Around(list, opened, k, p[k + 1])
  PROVE  \A k \in 1 .. n : PlacesOf(list, last, opened)[k] = p[k]
<1>1. PICK q : q = PlacesOf(list, last, opened)
  OBVIOUS
<1>2. q[n] = last /\ \A k \in 1 .. n - 1 : q[k] = Around(list, opened, k, q[k + 1])
  BY <1>1, PlacesFacts
<1>. DEFINE S == {m \in Nat : m < n => q[n - m] = p[n - m]}
<1>3. 0 \in S
  BY <1>2
<1>4. ASSUME NEW m \in S PROVE m + 1 \in S
  <2>. SUFFICES ASSUME m + 1 < n PROVE q[n - (m + 1)] = p[n - (m + 1)]
    OBVIOUS
  <2>1. PICK k \in 1 .. n - 1 : k = n - (m + 1) /\ k + 1 = n - m
    OBVIOUS
  <2>2. q[n - m] = p[n - m]
    OBVIOUS
  <2>3. q[k + 1] = p[k + 1]
    BY <2>1, <2>2, Zenon
  <2>4. q[k] = p[k]
    BY <1>2, <2>3, Zenon
  <2>. QED BY <2>1, <2>4, Zenon
<1>5. S = Nat
  <2>. HIDE DEF S
  <2>1. S \in SUBSET Nat
    BY DEF S
  <2>. QED BY <1>3, <1>4, <2>1, Induction
<1>6. ASSUME NEW k \in 1 .. n PROVE q[k] = p[k]
  <2>1. PICK m \in Nat : m < n /\ n - m = k
    OBVIOUS
  <2>2. q[n - m] = p[n - m]
    BY <1>5, <2>1
  <2>. QED BY <2>1, <2>2, Zenon
<1>. QED BY <1>1, <1>6

(***************************************************************************)
(* Sequences, and the values of signatures.                                *)
(***************************************************************************)
Kinds == Structural \union {"ELSE_FENCE", "any"} \union Number

LEMMA KindFacts ==
  /\ "i32" \in Number
  /\ \A kind \in Number \union {"any"} : kind \notin Structural /\ kind # "ELSE_FENCE" /\ kind \in Kinds
  /\ \A kind \in Number : kind # "any"
  /\ \A kind \in Structural : kind # "ELSE_FENCE" /\ kind # "any" /\ kind \in Kinds
  /\ "any" \notin Structural \union {"ELSE_FENCE"} /\ "ELSE_FENCE" \in Kinds
  BY NumberAssumption DEF Structural, Kinds

LEMMA SignatureFacts ==
  ASSUME NEW y \in SignatureType
  PROVE  /\ y.params \in Seq(Number) /\ y.results \in Seq(Number)
         /\ Len(y.params) \in Nat /\ Len(y.results) \in Nat
  BY DEF SignatureType

LEMMA TypeFacts ==
  /\ NoType \in Type /\ FunctionType \in Type /\ \A i \in Instruction : i.type \in Type
  /\ \A y \in Type : y \in SignatureType
<1>1. NoType \in SignatureType
  BY DEF NoType, Signature, SignatureType
<1>. QED BY <1>1, InstructionAssumption DEF Type

LEMMA ElementFacts ==
  ASSUME NEW e \in ElementType
  PROVE  /\ e.kind \in Kinds /\ e.type \in Type /\ e.prev \in 0 .. MaxElements
         /\ e.formallyUnreachable \in BOOLEAN
  BY DEF ElementType, Kinds

LEMMA SeqFacts ==
  ASSUME NEW S, NEW s \in Seq(S)
  PROVE  /\ Len(s) \in Nat /\ DOMAIN s = 1 .. Len(s)
         /\ \A k \in 1 .. Len(s) : s[k] \in S
         /\ s = <<>> <=> Len(s) = 0
<1>1. Len(s) \in Nat /\ DOMAIN s = 1 .. Len(s) /\ \A k \in 1 .. Len(s) : s[k] \in S
  BY LenProperties, ElementOfSeq
<1>2. s = <<>> <=> Len(s) = 0
  BY EmptySeq
<1>. QED BY <1>1, <1>2

LEMMA KeepFacts ==
  ASSUME NEW S, NEW s \in Seq(S), NEW n \in 0 .. Len(s)
  PROVE  /\ Keep(s, n) \in Seq(S) /\ Len(Keep(s, n)) = n
         /\ \A k \in 1 .. n : Keep(s, n)[k] = s[k]
<1>1. \A k \in 1 .. n : s[k] \in S
  BY SeqFacts
<1>2. Len(s) \in Nat
  BY SeqFacts
<1>3. /\ SubSeq(s, 1, n) \in Seq(S) /\ Len(SubSeq(s, 1, n)) = IF 1 <= n THEN n - 1 + 1 ELSE 0
      /\ \A k \in 1 .. n - 1 + 1 : SubSeq(s, 1, n)[k] = s[1 + k - 1]
  BY <1>1, <1>2, SubSeqProperties
<1>. QED BY <1>2, <1>3 DEF Keep

LEMMA FrontFacts ==
  ASSUME NEW S, NEW s \in Seq(S), s # <<>>
  PROVE  /\ Front(s) \in Seq(S) /\ Len(Front(s)) = Len(s) - 1 /\ Len(s) - 1 \in Nat
         /\ \A k \in 1 .. Len(s) - 1 : Front(s)[k] = s[k]
<1>1. Len(s) \in Nat \ {0} /\ Len(s) - 1 \in 0 .. Len(s)
  BY SeqFacts
<1>2. Front(s) = Keep(s, Len(s) - 1)
  BY DEF Front, Keep
<1>. QED BY <1>1, <1>2, KeepFacts

LEMMA ConcatFacts ==
  ASSUME NEW S, NEW s \in Seq(S), NEW t \in Seq(S)
  PROVE  /\ s \o t \in Seq(S) /\ Len(s \o t) = Len(s) + Len(t)
         /\ \A k \in 1 .. Len(s) : (s \o t)[k] = s[k]
         /\ \A k \in Len(s) + 1 .. Len(s) + Len(t) : (s \o t)[k] = t[k - Len(s)]
<1>1. /\ s \o t \in Seq(S) /\ Len(s \o t) = Len(s) + Len(t)
      /\ \A k \in 1 .. Len(s) + Len(t) : (s \o t)[k] = IF k <= Len(s) THEN s[k] ELSE t[k - Len(s)]
  BY ConcatProperties
<1>2. Len(s) \in Nat /\ Len(t) \in Nat
  BY SeqFacts
<1>. QED BY <1>1, <1>2

LEMMA AppendFacts ==
  ASSUME NEW S, NEW s \in Seq(S), NEW e \in S
  PROVE  /\ Append(s, e) \in Seq(S) /\ Len(Append(s, e)) = Len(s) + 1
         /\ \A k \in 1 .. Len(s) : Append(s, e)[k] = s[k]
         /\ Append(s, e)[Len(s) + 1] = e
  BY AppendProperties

\* The elements made of types.
LEMMA ValuesFacts ==
  ASSUME NEW types \in Seq(Number \union {"any"})
  PROVE  /\ Values(types) \in Seq(ElementType) /\ Len(Values(types)) = Len(types) /\ Len(types) \in Nat
         /\ \A k \in 1 .. Len(types) : Values(types)[k].kind = types[k] /\ types[k] \in Number \union {"any"}
<1>1. Len(types) \in Nat /\ DOMAIN types = 1 .. Len(types) /\ \A k \in 1 .. Len(types) : types[k] \in Number \union {"any"}
  BY SeqFacts
<1>2. \A kind \in Number \union {"any"} : Element(kind, NoType, 0) \in ElementType /\ Element(kind, NoType, 0).kind = kind
  BY TypeFacts, BoundAssumption DEF Element, ElementType
<1>3. Values(types) = [k \in 1 .. Len(types) |-> Element(types[k], NoType, 0)]
  BY <1>1 DEF Values
<1>4. \A k \in 1 .. Len(types) : Values(types)[k] = Element(types[k], NoType, 0)
  BY <1>3
<1>5. Values(types) \in [1 .. Len(types) -> ElementType]
  BY <1>1, <1>2, <1>3
<1>6. Values(types) \in Seq(ElementType) /\ Len(Values(types)) = Len(types)
  BY <1>1, <1>5
<1>. QED BY <1>1, <1>2, <1>4, <1>6

(***************************************************************************)
(* The floor: the last element that is not an operand.                     *)
(***************************************************************************)
LEMMA FloorIs ==
  ASSUME NEW list, NEW n \in Nat, Len(list) = n, NEW f \in 1 .. n, ~IsNumber(list[f]),
         \A k \in f + 1 .. n : IsNumber(list[k])
  PROVE  Floor(list) = f
<1>. DEFINE I == {i \in 1 .. n : ~IsNumber(list[i])}
<1>1. f \in I /\ \A i \in I : f >= i
  <2>1. ASSUME NEW i \in I, ~(f >= i) PROVE FALSE
    <3>1. i \in f + 1 .. n
      BY <2>1
    <3>. QED BY <3>1, <2>1
  <2>. QED BY <2>1
<1>2. I \subseteq Nat
  OBVIOUS
<1>3. Floor(list) = IF I # {} THEN Max(I) ELSE 0
  BY Zenon DEF Floor, SelectLastInSeq
<1>. HIDE DEF I
<1>4. \A x \in I : (\A y \in I : x >= y) => x = f
  BY <1>1, <1>2
<1>5. Max(I) = f
  BY <1>1, <1>4 DEF Max
<1>. QED BY <1>1, <1>3, <1>5

LEMMA FloorExists ==
  ASSUME NEW list, NEW n \in Nat \ {0}, Len(list) = n, ~IsNumber(list[1])
  PROVE  /\ Floor(list) \in 1 .. n /\ ~IsNumber(list[Floor(list)])
         /\ \A k \in Floor(list) + 1 .. n : IsNumber(list[k])
<1>. DEFINE S == {m \in 0 .. n - 1 : ~IsNumber(list[n - m])}
<1>1. n - 1 \in S
  <2>1. n - 1 \in 0 .. n - 1 /\ n - (n - 1) = 1
    OBVIOUS
  <2>. QED BY <2>1
<1>2. PICK m \in S : \A k \in S : m <= k
  <2>1. S \in SUBSET Nat /\ S # {}
    BY <1>1, SMTT(60)
  <2>. HIDE DEF S
  <2>. QED BY <2>1, LeastOf
<1>3. PICK f \in 1 .. n : f = n - m
  OBVIOUS
<1>4. ~IsNumber(list[f])
  BY <1>3
<1>5. ASSUME NEW k \in f + 1 .. n PROVE IsNumber(list[k])
  <2>1. n - k \in 0 .. n - 1 /\ n - (n - k) = k /\ ~(m <= n - k)
    BY <1>3
  <2>. QED BY <2>1, <1>2
<1>6. Floor(list) = f
  BY <1>4, <1>5, FloorIs
<1>. QED BY <1>4, <1>5, <1>6

\* Lists with the same kinds have the same floor.
LEMMA FloorSame ==
  ASSUME NEW s, NEW t, NEW n \in Nat, Len(s) = n, Len(t) = n,
         \A k \in 1 .. n : s[k].kind = t[k].kind
  PROVE  Floor(s) = Floor(t)
<1>1. {i \in 1 .. n : ~IsNumber(s[i])} = {i \in 1 .. n : ~IsNumber(t[i])}
  BY DEF IsNumber
<1>. QED BY <1>1, Zenon DEF Floor, SelectLastInSeq

LEMMA HeldFacts ==
  ASSUME NEW list \in Seq(ElementType), NEW f \in 1 .. Len(list), f = Floor(list)
  PROVE  /\ Held(list) \in Seq(Kinds) /\ Len(Held(list)) = Len(list) - f
         /\ \A k \in 1 .. Len(list) - f : Held(list)[k] = list[f + k].kind
<1>1. Len(list) \in Nat /\ \A k \in 1 .. Len(list) : list[k] \in ElementType
  BY SeqFacts
<1>. DEFINE part == SubSeq(list, f + 1, Len(list))
            n == Len(list) - f
<1>2. /\ part \in Seq(ElementType) /\ Len(part) = n /\ n \in Nat
      /\ \A k \in 1 .. n : part[k] = list[f + k]
  <2>1. /\ part \in Seq(ElementType) /\ Len(part) = IF f + 1 <= Len(list) THEN Len(list) - (f + 1) + 1 ELSE 0
        /\ \A k \in 1 .. Len(list) - (f + 1) + 1 : part[k] = list[(f + 1) + k - 1]
    BY <1>1, SubSeqProperties
  <2>2. Len(part) = n /\ Len(list) - (f + 1) + 1 = n
    BY <1>1, <2>1
  <2>3. \A k \in 1 .. n : part[k] = list[f + k]
    <3>. TAKE k \in 1 .. n
    <3>1. (f + 1) + k - 1 = f + k
      BY <1>1
    <3>. QED BY <2>1, <2>2, <3>1
  <2>. QED BY <1>1, <2>1, <2>2, <2>3
<1>3. DOMAIN part = 1 .. n /\ \A k \in 1 .. n : part[k] \in ElementType
  BY <1>2, SeqFacts
<1>4. Held(list) = [k \in 1 .. n |-> part[k].kind]
  BY <1>3 DEF Held, NumberKinds
<1>5. Held(list) \in [1 .. n -> Kinds]
  BY <1>3, <1>4, ElementFacts
<1>6. Held(list) \in Seq(Kinds) /\ Len(Held(list)) = n
  BY <1>2, <1>5
<1>. QED BY <1>2, <1>4, <1>6

LEMMA BaseFacts ==
  ASSUME NEW list \in Seq(ElementType), NEW f \in 1 .. Len(list), f = Floor(list),
         NEW types, Len(types) \in Nat
  PROVE  /\ Base(list, types) \in f .. Len(list)
         /\ Len(types) <= Len(Held(list)) => Base(list, types) = Len(list) - Len(types)
<1>1. Len(list) \in Nat /\ Len(Held(list)) = Len(list) - f
  BY SeqFacts, HeldFacts
<1>2. Base(list, types) = IF Len(list) - Len(types) < f THEN f ELSE Len(list) - Len(types)
  BY DEF Base
<1>. QED BY <1>1, <1>2

(***************************************************************************)
(* What the invariant says of a list depends on the kinds, types and links *)
(* of its elements up to a position only.                                  *)
(***************************************************************************)
Alike(s, t, n) ==
  \A k \in 1 .. n : /\ t[k].kind = s[k].kind /\ t[k].type = s[k].type /\ t[k].prev = s[k].prev
                    /\ s[k].kind = "ELSE_FENCE" => t[k] = s[k]

LEMMA EnclosesAlike ==
  ASSUME NEW s, NEW t, NEW n \in Nat, Alike(s, t, n), NEW k \in 1 .. n + 1, NEW j
  PROVE  Encloses(s, j, k) <=> Encloses(t, j, k)
  BY DEF Alike, Encloses

LEMMA WellPlacedAlike ==
  ASSUME NEW s, NEW t, NEW n \in Nat, Alike(s, t, n), NEW k \in 1 .. n, WellPlaced(s, k)
  PROVE  WellPlaced(t, k)
<1>1. t[k].kind # "FUNC" /\ t[k].kind = s[k].kind /\ t[k].prev = s[k].prev
  BY DEF Alike, WellPlaced
<1>2. t[k].kind \in Structural => Encloses(t, t[k].prev, k)
  <2>1. k \in 1 .. n + 1
    OBVIOUS
  <2>. QED BY <1>1, <2>1, EnclosesAlike DEF WellPlaced
<1>3. ASSUME t[k].kind = "ELSE_FENCE"
      PROVE  /\ t[k] = ElseFence
             /\ \E j \in 1 .. k - 1 :
                  /\ t[j].kind = "IF" /\ k = j + Len(t[j].type.params) + 1
                  /\ \A l \in j + 1 .. k - 1 : t[l].kind \in Number
  <2>1. t[k] = s[k] /\ s[k] = ElseFence
    BY <1>1, <1>3 DEF Alike, WellPlaced
  <2>2. PICK j \in 1 .. k - 1 : /\ s[j].kind = "IF" /\ k = j + Len(s[j].type.params) + 1
                                /\ \A l \in j + 1 .. k - 1 : s[l].kind \in Number
    BY <1>1, <1>3 DEF WellPlaced
  <2>3. t[j].kind = s[j].kind /\ t[j].type = s[j].type /\ \A l \in j + 1 .. k - 1 : t[l].kind = s[l].kind
    BY DEF Alike
  <2>. QED BY <2>1, <2>2, <2>3
<1>. QED BY <1>1, <1>2, <1>3, Zenon DEF WellPlaced

LEMMA FloorAlike ==
  ASSUME NEW s \in Seq(ElementType), NEW t \in Seq(ElementType), NEW n \in Nat, n <= Len(s), n <= Len(t),
         \A k \in 1 .. n : t[k].kind = s[k].kind
  PROVE  Floor(Keep(t, n)) = Floor(Keep(s, n))
<1>1. n \in 0 .. Len(s) /\ n \in 0 .. Len(t)
  BY SeqFacts
<1>2. /\ Len(Keep(s, n)) = n /\ Len(Keep(t, n)) = n
      /\ \A k \in 1 .. n : Keep(s, n)[k] = s[k] /\ Keep(t, n)[k] = t[k]
  BY <1>1, KeepFacts
<1>. QED BY <1>2, FloorSame

\* What a block matches is the part of the list up to its end.
LEMMA MatchesAlike ==
  ASSUME NEW s \in Seq(ElementType), NEW t \in Seq(ElementType), NEW n \in Nat, n <= Len(s), n <= Len(t),
         Alike(s, t, n), NEW b, NEW j \in 1 .. n, NEW end \in 0 .. n, NEW waits \in BOOLEAN,
         waits \/ t[j].formallyUnreachable = s[j].formallyUnreachable,
         Matches(s, b, j, end, waits)
  PROVE  Matches(t, b, j, end, waits)
<1>1. t[j].kind = s[j].kind /\ t[j].type = s[j].type
  BY DEF Alike
<1>2. CASE waits
  BY <1>1, <1>2, Zenon DEF Matches
<1>3. CASE ~waits
  <2>1. Encloses(s, j, end + 1)
    BY <1>3, Zenon DEF Matches
  <2>2. Encloses(t, j, end + 1)
    <3>1. end + 1 \in 1 .. n + 1
      OBVIOUS
    <3>. QED BY <2>1, <3>1, EnclosesAlike
  <2>3. \A l \in j + 1 .. end : t[l].kind = s[l].kind
    BY DEF Alike
  <2>4. b.kind = "IFBLOCK" <=> \E q \in j + 1 .. end : t[q].kind = "ELSE_FENCE"
    <3>1. b.kind = "IFBLOCK" <=> \E q \in j + 1 .. end : s[q].kind = "ELSE_FENCE"
      BY <1>3, Zenon DEF Matches
    <3>. QED BY <3>1, <2>3, Zenon
  <2>5. Floor(Keep(t, end)) = Floor(Keep(s, end))
    <3>1. end \in Nat /\ end <= Len(s) /\ end <= Len(t) /\ \A l \in 1 .. end : t[l].kind = s[l].kind
      BY SeqFacts DEF Alike
    <3>. QED BY <3>1, FloorAlike
  <2>. QED BY <1>1, <1>3, <2>2, <2>4, <2>5, Zenon DEF Matches
<1>. QED BY <1>2, <1>3

\* Places that satisfy the equations are the places.
LEMMA AgreesByPlaces ==
  ASSUME NEW list, NEW last, NEW opened, NEW n \in Nat \ {0}, Len(opened) = n, DOMAIN opened = 1 .. n,
         NEW q, q[n] = last, \A k \in 1 .. n - 1 : q[k] = Around(list, opened, k, q[k + 1]),
         q[1] = 1, \A k \in 1 .. n : Agrees(list, opened, q, k)
  PROVE  /\ PlacesOf(list, last, opened)[1] = 1
         /\ \A k \in DOMAIN opened : Agrees(list, opened, PlacesOf(list, last, opened), k)
<1>1. PICK p : p = PlacesOf(list, last, opened)
  OBVIOUS
<1>2. \A k \in 1 .. n : p[k] = q[k]
  BY <1>1, PlacesUnique
<1>3. ASSUME NEW k \in 1 .. n PROVE Agrees(list, opened, p, k)
  <2>1. k # n => k + 1 \in 1 .. n
    OBVIOUS
  <2>2. EndOf(list, opened, p, k) = EndOf(list, opened, q, k)
    BY <1>2, <2>1 DEF EndOf
  <2>3. p[k] = q[k]
    BY <1>2
  <2>. QED BY <2>2, <2>3, Zenon DEF Agrees
<1>4. p[1] = 1
  BY <1>2
<1>. QED BY <1>1, <1>3, <1>4, Zenon

\* Places grow from block to block.
LEMMA PlacesGrow ==
  ASSUME NEW list, NEW opened, NEW n \in Nat \ {0}, Len(opened) = n,
         NEW p, p[n] \in Nat \ {0}, \A k \in 1 .. n : Agrees(list, opened, p, k),
         \A k \in 1 .. n - 1 : p[k] = Around(list, opened, k, p[k + 1])
  PROVE  /\ \A k \in 1 .. n : p[k] \in 1 .. p[n]
         /\ \A k \in 1 .. n - 1 : IF Waits(opened, k) THEN p[k] = p[k + 1] ELSE p[k] \in 1 .. p[k + 1] - 1
<1>1. ASSUME NEW k \in 1 .. n - 1, p[k + 1] \in 1 .. p[n]
      PROVE  /\ IF Waits(opened, k) THEN p[k] = p[k + 1] ELSE p[k] \in 1 .. p[k + 1] - 1
             /\ p[k] \in 1 .. p[n]
  <2>1. CASE Waits(opened, k)
    <3>1. opened[k + 1].kind = "IFBLOCK"
      BY <2>1 DEF Waits
    <3>2. p[k] = p[k + 1]
      BY <3>1 DEF Around
    <3>. QED BY <1>1, <2>1, <3>2
  <2>2. CASE ~Waits(opened, k)
    <3>1. Encloses(list, p[k], EndOf(list, opened, p, k) + 1)
      <4>1. k \in 1 .. n
        OBVIOUS
      <4>2. Agrees(list, opened, p, k)
        BY <4>1
      <4>. QED BY <2>2, <4>2, Zenon DEF Agrees, Matches
    <3>2. EndOf(list, opened, p, k) + 1 = p[k + 1]
      BY <1>1 DEF EndOf
    <3>3. p[k] \in 1 .. p[k + 1] - 1
      BY <3>1, <3>2 DEF Encloses
    <3>. QED BY <1>1, <2>2, <3>3
  <2>. QED BY <2>1, <2>2
<1>. DEFINE S == {m \in Nat : m < n => p[n - m] \in 1 .. p[n]}
<1>2. 0 \in S
  OBVIOUS
<1>3. ASSUME NEW m \in S PROVE m + 1 \in S
  <2>. SUFFICES ASSUME m + 1 < n PROVE p[n - (m + 1)] \in 1 .. p[n]
    OBVIOUS
  <2>1. PICK k \in 1 .. n - 1 : k = n - (m + 1) /\ k + 1 = n - m
    OBVIOUS
  <2>2. p[n - m] \in 1 .. p[n]
    OBVIOUS
  <2>3. p[k + 1] \in 1 .. p[n]
    BY <2>1, <2>2, Zenon
  <2>4. p[k] \in 1 .. p[n]
    BY <1>1, <2>3
  <2>. QED BY <2>1, <2>4, Zenon
<1>4. S = Nat
  <2>. HIDE DEF S
  <2>1. S \in SUBSET Nat
    BY DEF S
  <2>. QED BY <1>2, <1>3, <2>1, Induction
<1>5. ASSUME NEW k \in 1 .. n PROVE p[k] \in 1 .. p[n]
  <2>1. PICK m \in Nat : m < n /\ n - m = k
    OBVIOUS
  <2>2. p[n - m] \in 1 .. p[n]
    BY <1>4, <2>1
  <2>. QED BY <2>1, <2>2, Zenon
<1>6. \A k \in 1 .. n - 1 : k + 1 \in 1 .. n
  OBVIOUS
<1>. QED BY <1>1, <1>5, <1>6

(***************************************************************************)
(* The state while a body is looked at, as a property of the two stacks.   *)
(***************************************************************************)
ListGood(list, last) ==
  /\ list \in Seq(ElementType) /\ last \in 1 .. Len(list)
  /\ list[1].kind = "FUNC" /\ list[1].prev = 0
  /\ Encloses(list, last, Len(list) + 1)
  /\ \A k \in 2 .. Len(list) : WellPlaced(list, k)
  /\ \A j, k \in 1 .. Len(list) :
       list[k].kind = "any" /\ Encloses(list, j, k) => list[j].formallyUnreachable

Placed(list, last, opened, p) ==
  /\ p[Len(opened)] = last /\ p[1] = 1
  /\ \A k \in 1 .. Len(opened) - 1 : p[k] = Around(list, opened, k, p[k + 1])
  /\ \A k \in 1 .. Len(opened) : Agrees(list, opened, p, k)

BlocksGood(list, last, opened) ==
  /\ opened \in Seq(BlockType) /\ opened # <<>>
  /\ \E p : Placed(list, last, opened, p)

LEMMA OpenedFacts ==
  ASSUME NEW opened \in Seq(BlockType), opened # <<>>
  PROVE  Len(opened) \in Nat \ {0} /\ DOMAIN opened = 1 .. Len(opened) /\ \A k \in 1 .. Len(opened) : opened[k] \in BlockType
  BY SeqFacts

\* The invariant in these terms.
LEMMA InvariantGood ==
  ASSUME IInv, verdict # "done"
  PROVE  ListGood(elements, current) /\ BlocksGood(elements, current, blocks)
<1>1. /\ elements \in Seq(ElementType) /\ blocks \in Seq(BlockType) /\ blocks # <<>>
      /\ current \in DOMAIN elements
  BY DEF IInv, TypeOK
<1>2. /\ DOMAIN elements = 1 .. Len(elements) /\ Len(elements) \in Nat
  BY <1>1, SeqFacts
<1>3. /\ elements[1].kind = "FUNC" /\ elements[1].prev = 0 /\ Encloses(elements, current, Len(elements) + 1)
      /\ \A k \in DOMAIN elements \ {1} : WellPlaced(elements, k)
  BY DEF IInv, ListOK
<1>4. \A k \in 2 .. Len(elements) : WellPlaced(elements, k)
  BY <1>2, <1>3
<1>5. \A j, k \in 1 .. Len(elements) :
        elements[k].kind = "any" /\ Encloses(elements, j, k) => elements[j].formallyUnreachable
  BY <1>2, Zenon DEF IInv, AnyOnlyWhereUnreachable
<1>6. ListGood(elements, current)
  BY <1>1, <1>2, <1>3, <1>4, <1>5 DEF ListGood
<1>7. PICK p : p = PlacesOf(elements, current, blocks)
  OBVIOUS
<1>8. p[1] = 1 /\ \A k \in DOMAIN blocks : Agrees(elements, blocks, p, k)
  BY <1>7, Zenon DEF IInv, CompileStackAgrees
<1>9. Placed(elements, current, blocks, p)
  BY <1>1, <1>7, <1>8, OpenedFacts, PlacesFacts DEF Placed
<1>. QED BY <1>1, <1>6, <1>9, Zenon DEF BlocksGood

LEMMA GoodAgrees ==
  ASSUME NEW list, NEW last, NEW opened, BlocksGood(list, last, opened)
  PROVE  /\ PlacesOf(list, last, opened)[1] = 1
         /\ \A k \in DOMAIN opened : Agrees(list, opened, PlacesOf(list, last, opened), k)
<1>1. opened \in Seq(BlockType) /\ opened # <<>>
  BY Zenon DEF BlocksGood
<1>2. PICK p : Placed(list, last, opened, p)
  BY Zenon DEF BlocksGood
<1>. QED BY <1>1, <1>2, OpenedFacts, AgreesByPlaces DEF Placed

\* Above the current block there are operands only, but for the fence of an if.
LEMMA ShapeFacts ==
  ASSUME NEW list, NEW last, ListGood(list, last), NEW f, f = Floor(list)
  PROVE  /\ Len(list) \in Nat \ {0} /\ last \in 1 .. Len(list) /\ f \in last .. Len(list)
         /\ list[last].kind \in Structural
         /\ ~IsNumber(list[f])
         /\ \A k \in f + 1 .. Len(list) : IsNumber(list[k])
         /\ f # last => /\ list[f] = ElseFence /\ list[f].kind = "ELSE_FENCE" /\ list[last].kind = "IF"
                        /\ f = last + Len(list[last].type.params) + 1
                        /\ \A l \in last + 1 .. f - 1 : list[l].kind \in Number
<1>1. /\ list \in Seq(ElementType) /\ last \in 1 .. Len(list)
      /\ list[1].kind = "FUNC" /\ Encloses(list, last, Len(list) + 1)
      /\ \A k \in 2 .. Len(list) : WellPlaced(list, k)
  BY DEF ListGood
<1>2. Len(list) \in Nat \ {0} /\ \A k \in 1 .. Len(list) : list[k] \in ElementType
  BY <1>1, SeqFacts
<1>3. list[last].kind \in Structural /\ \A l \in last + 1 .. Len(list) : list[l].kind \notin Structural
  BY <1>1, <1>2 DEF Encloses
<1>4. \A kind \in Structural : kind \notin Number \union {"any"}
  BY KindFacts
<1>5. ~IsNumber(list[1]) /\ ~IsNumber(list[last])
  BY <1>1, <1>3, <1>4 DEF IsNumber, Structural
<1>6. f \in 1 .. Len(list) /\ ~IsNumber(list[f]) /\ \A k \in f + 1 .. Len(list) : IsNumber(list[k])
  BY <1>2, <1>5, FloorExists
<1>7. f \in last .. Len(list)
  BY <1>1, <1>2, <1>5, <1>6
<1>8. ASSUME f # last
      PROVE  /\ list[f] = ElseFence /\ list[f].kind = "ELSE_FENCE" /\ list[last].kind = "IF"
             /\ f = last + Len(list[last].type.params) + 1
             /\ \A l \in last + 1 .. f - 1 : list[l].kind \in Number
  <2>1. f \in last + 1 .. Len(list) /\ f \in 2 .. Len(list)
    BY <1>1, <1>2, <1>7, <1>8
  <2>2. list[f].kind \notin Structural /\ list[f].kind \in Kinds
    BY <1>2, <1>3, <1>6, <2>1, ElementFacts
  <2>3. list[f].kind = "ELSE_FENCE"
    BY <1>6, <2>2 DEF Kinds, IsNumber
  <2>4. WellPlaced(list, f)
    BY <1>1, <2>1
  <2>5. list[f] = ElseFence
    BY <2>3, <2>4 DEF WellPlaced
  <2>6. PICK j \in 1 .. f - 1 : /\ list[j].kind = "IF" /\ f = j + Len(list[j].type.params) + 1
                                /\ \A l \in j + 1 .. f - 1 : list[l].kind \in Number
    BY <2>3, <2>4 DEF WellPlaced
  <2>7. j = last
    <3>1. ~(j > last)
      <4>1. j > last => j \in last + 1 .. Len(list)
        BY <1>1, <1>2, <1>7
      <4>. QED BY <1>3, <2>6, <4>1 DEF Structural
    <3>2. ~(j < last)
      <4>1. j < last => last \in j + 1 .. f - 1
        BY <1>1, <1>2, <1>7, <1>8
      <4>. QED BY <1>3, <1>4, <2>6, <4>1
    <3>. QED BY <1>1, <1>2, <3>1, <3>2
  <2>. QED BY <2>3, <2>5, <2>6, <2>7
<1>. QED BY <1>1, <1>2, <1>3, <1>6, <1>7, <1>8

\* What the last block of the compile-time stack says of the current one.
LEMMA LastFacts ==
  ASSUME NEW list, NEW last, ListGood(list, last), NEW f, f = Floor(list),
         NEW opened, NEW p, NEW m \in Nat \ {0}, Len(opened) = m, p[m] = last, Agrees(list, opened, p, m)
  PROVE  /\ opened[m].type = list[last].type
         /\ opened[m].kind = IF list[last].kind # "IF" THEN list[last].kind
                             ELSE IF opened[m].kind = "IFBLOCK" THEN "IFBLOCK" ELSE "BLOCK"
         /\ opened[m].kind = "IFBLOCK" <=> f # last
         /\ list[last].formallyUnreachable => opened[m].unreachable
         /\ opened[m].unreachable \/ opened[m].count = Len(list) - f
<1>1. /\ Len(list) \in Nat \ {0} /\ last \in 1 .. Len(list) /\ f \in last .. Len(list)
      /\ \A k \in f + 1 .. Len(list) : IsNumber(list[k])
      /\ f # last => list[f].kind = "ELSE_FENCE"
      /\ ~IsNumber(list[f])
  BY ShapeFacts
<1>2. Waits(opened, m) = FALSE /\ EndOf(list, opened, p, m) = Len(list)
  BY DEF Waits, EndOf
<1>3. Matches(list, opened[m], last, Len(list), FALSE)
  <2>1. Matches(list, opened[m], p[m], EndOf(list, opened, p, m), Waits(opened, m))
    BY Zenon DEF Agrees
  <2>. QED BY <1>2, <2>1
<1>4. list \in Seq(ElementType)
  BY DEF ListGood
<1>5. Floor(Keep(list, Len(list))) = f
  <2>1. /\ Len(Keep(list, Len(list))) = Len(list)
        /\ \A k \in 1 .. Len(list) : Keep(list, Len(list))[k] = list[k]
    <3>1. Len(list) \in 0 .. Len(list)
      BY <1>1
    <3>. QED BY <1>4, <3>1, KeepFacts
  <2>. QED BY <1>1, <2>1, FloorSame
<1>6. /\ opened[m].type = list[last].type
      /\ opened[m].kind = IF list[last].kind # "IF" THEN list[last].kind
                          ELSE IF opened[m].kind = "IFBLOCK" THEN "IFBLOCK" ELSE "BLOCK"
      /\ opened[m].kind = "IFBLOCK" <=> \E q \in last + 1 .. Len(list) : list[q].kind = "ELSE_FENCE"
      /\ list[last].formallyUnreachable => opened[m].unreachable
      /\ opened[m].unreachable \/ opened[m].count = Len(list) - f
  BY <1>3, <1>5, Zenon DEF Matches
<1>7. (\E q \in last + 1 .. Len(list) : list[q].kind = "ELSE_FENCE") <=> f # last
  <2>1. ASSUME NEW q \in last + 1 .. Len(list), list[q].kind = "ELSE_FENCE" PROVE f # last
    <3>1. \A k \in f + 1 .. Len(list) : list[k].kind # "ELSE_FENCE"
      BY <1>1, KindFacts DEF IsNumber
    <3>. QED BY <1>1, <2>1, <3>1
  <2>2. f # last => f \in last + 1 .. Len(list)
    BY <1>1
  <2>. QED BY <1>1, <2>1, <2>2
<1>. QED BY <1>6, <1>7, Zenon

(***************************************************************************)
(* The operands of the current block change.                               *)
(***************************************************************************)
Replaces(list, last, f, after) ==
  /\ after \in Seq(ElementType) /\ f <= Len(after) /\ Alike(list, after, f)
  /\ \A k \in 1 .. f : k # last => after[k].formallyUnreachable = list[k].formallyUnreachable
  /\ list[last].formallyUnreachable => after[last].formallyUnreachable
  /\ \A k \in f + 1 .. Len(after) : /\ IsNumber(after[k])
                                    /\ after[k].kind = "any" => after[last].formallyUnreachable

\* An instruction that replaces what lies above the floor of the list by operands,
\* and leaves the structure as it is, leaves a good list with the same floor.
LEMMA SameBlockList ==
  ASSUME NEW list, NEW last, ListGood(list, last), NEW f, f = Floor(list),
         NEW after, Replaces(list, last, f, after)
  PROVE  ListGood(after, last) /\ Floor(after) = f
<1>1. /\ Len(list) \in Nat \ {0} /\ last \in 1 .. Len(list) /\ f \in last .. Len(list)
      /\ list[last].kind \in Structural /\ ~IsNumber(list[f])
  BY ShapeFacts
<1>2. /\ list[1].kind = "FUNC" /\ list[1].prev = 0
      /\ Encloses(list, last, Len(list) + 1)
      /\ \A k \in 2 .. Len(list) : WellPlaced(list, k)
      /\ \A j, k \in 1 .. Len(list) :
           list[k].kind = "any" /\ Encloses(list, j, k) => list[j].formallyUnreachable
  BY DEF ListGood
<1>3. /\ after \in Seq(ElementType) /\ f <= Len(after) /\ Alike(list, after, f)
      /\ \A k \in 1 .. f : k # last => after[k].formallyUnreachable = list[k].formallyUnreachable
      /\ list[last].formallyUnreachable => after[last].formallyUnreachable
      /\ \A k \in f + 1 .. Len(after) : /\ IsNumber(after[k])
                                        /\ after[k].kind = "any" => after[last].formallyUnreachable
  BY Zenon DEF Replaces
<1>4. Len(after) \in Nat /\ f \in Nat \ {0}
  BY <1>1, <1>3, SeqFacts
<1>5. \A k \in 1 .. f : after[k].kind = list[k].kind /\ after[k].prev = list[k].prev
  BY <1>3, <1>4 DEF Alike
<1>6. \A k \in f + 1 .. Len(after) : after[k].kind \notin Structural /\ after[k].kind # "ELSE_FENCE" /\ after[k].kind # "FUNC"
  BY <1>3, KindFacts DEF IsNumber, Structural
<1>7. \A k \in last + 1 .. Len(after) : after[k].kind \notin Structural
  <2>1. \A k \in last + 1 .. f : list[k].kind \notin Structural
    BY <1>1, <1>2 DEF Encloses
  <2>. QED BY <1>1, <1>4, <1>5, <1>6, <2>1
<1>8. after[last].kind \in Structural
  BY <1>1, <1>5
<1>9. Encloses(after, last, Len(after) + 1)
  BY <1>1, <1>3, <1>4, <1>7, <1>8 DEF Encloses
<1>10. ASSUME NEW k \in 2 .. Len(after) PROVE WellPlaced(after, k)
  <2>1. CASE k \in 1 .. f
    <3>1. WellPlaced(list, k)
      BY <1>1, <1>2, <2>1
    <3>. QED BY <1>3, <1>4, <2>1, <3>1, WellPlacedAlike
  <2>2. CASE k \notin 1 .. f
    <3>1. k \in f + 1 .. Len(after)
      BY <1>4, <2>2
    <3>. QED BY <1>6, <3>1 DEF WellPlaced
  <2>. QED BY <2>1, <2>2
<1>11. ASSUME NEW j \in 1 .. Len(after), NEW k \in 1 .. Len(after), after[k].kind = "any", Encloses(after, j, k)
       PROVE  after[j].formallyUnreachable
  <2>0. j \in 1 .. k - 1 /\ after[j].kind \in Structural /\ \A l \in j + 1 .. k - 1 : after[l].kind \notin Structural
    BY <1>11 DEF Encloses
  <2>1. CASE k \in 1 .. f
    <3>1. k \in 1 .. f + 1
      BY <2>1, <1>4
    <3>2. Encloses(list, j, k)
      BY <1>3, <1>4, <1>11, <3>1, EnclosesAlike
    <3>3. j \in 1 .. Len(list) /\ k \in 1 .. Len(list) /\ list[k].kind = "any" /\ j \in 1 .. f
      BY <1>1, <1>5, <1>11, <2>0, <2>1
    <3>4. list[j].formallyUnreachable
      BY <1>2, <3>2, <3>3
    <3>. QED BY <1>3, <3>3, <3>4
  <2>2. CASE k \notin 1 .. f
    <3>1. k \in f + 1 .. Len(after)
      BY <1>4, <2>2
    <3>2. j = last
      <4>1. ~(j > last)
        BY <1>1, <1>4, <1>7, <2>0
      <4>2. j < last => last \in j + 1 .. k - 1
        BY <1>1, <1>4, <3>1
      <4>. QED BY <1>1, <1>8, <2>0, <4>1, <4>2
    <3>3. after[last].formallyUnreachable
      BY <1>3, <1>11, <3>1
    <3>. QED BY <3>2, <3>3
  <2>. QED BY <2>1, <2>2
<1>12. after[1].kind = "FUNC" /\ after[1].prev = 0 /\ last \in 1 .. Len(after)
  BY <1>1, <1>2, <1>3, <1>4, <1>5
<1>13. ListGood(after, last)
  BY <1>3, <1>9, <1>10, <1>11, <1>12 DEF ListGood
<1>14. Floor(after) = f
  <2>1. f \in 1 .. Len(after) /\ ~IsNumber(after[f]) /\ \A k \in f + 1 .. Len(after) : IsNumber(after[k])
    BY <1>1, <1>3, <1>4, <1>5 DEF IsNumber
  <2>. QED BY <1>4, <2>1, FloorIs
<1>. QED BY <1>13, <1>14

\* Blocks around the current one agree with the list as they did.
LEMMA AroundAgree ==
  ASSUME NEW s \in Seq(ElementType), NEW t \in Seq(ElementType), NEW n \in Nat, n <= Len(s), n <= Len(t),
         Alike(s, t, n), NEW opened, NEW after, NEW k \in Nat \ {0}, Len(opened) \in Nat, Len(after) \in Nat,
         k < Len(opened), k < Len(after), after[k] = opened[k], Waits(after, k) = Waits(opened, k),
         NEW p, NEW q, q[k] = p[k], q[k + 1] = p[k + 1], p[k] \in 1 .. n, p[k + 1] - 1 \in 0 .. n,
         Waits(opened, k) \/ t[p[k]].formallyUnreachable = s[p[k]].formallyUnreachable,
         Agrees(s, opened, p, k)
  PROVE  Agrees(t, after, q, k)
<1>1. PICK end \in 0 .. n : end = p[k + 1] - 1
  OBVIOUS
<1>2. EndOf(s, opened, p, k) = end /\ EndOf(t, after, q, k) = end
  BY <1>1 DEF EndOf
<1>3. Matches(s, opened[k], p[k], end, Waits(opened, k))
  BY <1>2, Zenon DEF Agrees
<1>4. Waits(opened, k) \in BOOLEAN
  BY DEF Waits
<1>5. Matches(t, opened[k], p[k], end, Waits(opened, k))
  BY <1>3, <1>4, MatchesAlike
<1>. QED BY <1>2, <1>5, Zenon DEF Agrees

\* The compile-time stack for such a change.
SameBlock(opened, after) ==
  LET m == Len(opened)
  IN  /\ after \in Seq(BlockType) /\ Len(after) = m
      /\ \A k \in 1 .. m - 1 : after[k] = opened[k]
      /\ after[m].kind = opened[m].kind /\ after[m].type = opened[m].type

StateGood(list, last, opened) == ListGood(list, last) /\ BlocksGood(list, last, opened)

\* ... and a good state, if the last block of the compile-time stack counts what
\* lies above the floor, or is unreachable, and no other block changes.
LEMMA SameBlockGood ==
  ASSUME NEW list, NEW last, ListGood(list, last), NEW f, f = Floor(list),
         NEW after, Replaces(list, last, f, after),
         NEW opened, BlocksGood(list, last, opened), NEW opened2, SameBlock(opened, opened2),
         NEW m, m = Len(opened),
         after[last].formallyUnreachable => opened2[m].unreachable,
         opened2[m].unreachable \/ opened2[m].count = Len(after) - f
  PROVE  StateGood(after, last, opened2)
<1>1. ListGood(after, last) /\ Floor(after) = f
  BY SameBlockList
<1>2. opened \in Seq(BlockType) /\ opened # <<>>
  BY Zenon DEF BlocksGood
<1>3. PICK p : Placed(list, last, opened, p)
  BY Zenon DEF BlocksGood
<1>4. m \in Nat \ {0}
  BY <1>2, OpenedFacts
<1>5. /\ opened2 \in Seq(BlockType) /\ Len(opened2) = m /\ opened2 # <<>>
      /\ \A k \in 1 .. m - 1 : opened2[k] = opened[k]
      /\ opened2[m].kind = opened[m].kind /\ opened2[m].type = opened[m].type
  BY <1>4, SeqFacts DEF SameBlock
<1>6. /\ p[m] = last /\ p[1] = 1
      /\ \A k \in 1 .. m - 1 : p[k] = Around(list, opened, k, p[k + 1])
      /\ \A k \in 1 .. m : Agrees(list, opened, p, k)
  BY Zenon, <1>3 DEF Placed
<1>7. /\ Len(list) \in Nat \ {0} /\ last \in 1 .. Len(list) /\ f \in last .. Len(list)
  BY ShapeFacts
<1>8. /\ \A k \in 1 .. m : p[k] \in 1 .. last
      /\ \A k \in 1 .. m - 1 : IF Waits(opened, k) THEN p[k] = p[k + 1] ELSE p[k] \in 1 .. p[k + 1] - 1
  <2>1. last \in Nat \ {0}
    BY <1>7
  <2>. QED BY <1>4, <1>6, <2>1, PlacesGrow
<1>9. /\ after \in Seq(ElementType) /\ f <= Len(after) /\ Alike(list, after, f)
      /\ \A k \in 1 .. f : k # last => after[k].formallyUnreachable = list[k].formallyUnreachable
  BY Zenon DEF Replaces
<1>10. \A k \in 1 .. f : after[k].prev = list[k].prev /\ after[k].type = list[k].type /\ after[k].kind = list[k].kind
  BY <1>7, <1>9 DEF Alike
<1>11. \A k \in 1 .. m : opened2[k].kind = opened[k].kind
  BY <1>4, <1>5
<1>12. ASSUME NEW k \in 1 .. m - 1 PROVE p[k] = Around(after, opened2, k, p[k + 1])
  <2>1. k + 1 \in 1 .. m
    BY <1>4
  <2>2. p[k + 1] \in 1 .. f
    BY <1>7, <1>8, <2>1
  <2>. QED BY <1>6, <1>10, <1>11, <2>1, <2>2 DEF Around
<1>13. ASSUME NEW k \in 1 .. m - 1 PROVE Agrees(after, opened2, p, k)
  <2>1. k + 1 \in 1 .. m /\ k \in 1 .. m /\ k \in Nat \ {0} /\ k < m
    BY <1>4
  <2>2. p[k] \in 1 .. f /\ p[k + 1] \in 1 .. f /\ p[k + 1] - 1 \in 0 .. f
    BY <1>7, <1>8, <2>1
  <2>3. Waits(opened2, k) = Waits(opened, k)
    BY <1>5, <1>11, <2>1 DEF Waits
  <2>4. Waits(opened, k) \/ after[p[k]].formallyUnreachable = list[p[k]].formallyUnreachable
    <3>1. ~Waits(opened, k) => p[k] # last
      <4>1. p[k + 1] \in 1 .. last
        BY <1>8, <2>1
      <4>. QED BY <1>7, <1>8, <4>1
    <3>. QED BY <1>9, <2>2, <3>1
  <2>5. f \in Nat /\ f <= Len(list) /\ list \in Seq(ElementType)
    BY <1>7 DEF ListGood
  <2>6. Agrees(list, opened, p, k) /\ opened2[k] = opened[k]
    BY <1>5, <1>6, <2>1
  <2>7. /\ Len(opened) \in Nat /\ Len(opened2) \in Nat /\ k < Len(opened) /\ k < Len(opened2)
        /\ f <= Len(after) /\ after \in Seq(ElementType) /\ Alike(list, after, f) /\ k \in Nat \ {0}
    BY <1>4, <1>5, <1>9, <2>1
  <2>8. PICK q : q = p
    OBVIOUS
  <2>9. Agrees(after, opened2, q, k)
    <3>1. q[k] = p[k] /\ q[k + 1] = p[k + 1]
      BY <2>8
    <3>. QED BY <2>2, <2>3, <2>4, <2>5, <2>6, <2>7, <3>1, AroundAgree
  <2>. QED BY <2>8, <2>9
<1>14. Agrees(after, opened2, p, m)
  <2>1. /\ opened[m].type = list[last].type
        /\ opened[m].kind = IF list[last].kind # "IF" THEN list[last].kind
                            ELSE IF opened[m].kind = "IFBLOCK" THEN "IFBLOCK" ELSE "BLOCK"
        /\ opened[m].kind = "IFBLOCK" <=> f # last
    <3>1. m \in 1 .. m
      BY <1>4
    <3>. QED BY <1>4, <1>6, <3>1, LastFacts
  <2>2. last \in 1 .. f /\ after[last].type = list[last].type /\ after[last].kind = list[last].kind
    BY <1>7, <1>10
  <2>3. Len(after) \in Nat
    BY <1>9, SeqFacts
  <2>4. (\E q \in last + 1 .. Len(after) : after[q].kind = "ELSE_FENCE") <=> f # last
    <3>1. /\ f \in last .. Len(after)
          /\ \A k \in f + 1 .. Len(after) : IsNumber(after[k])
          /\ f # last => after[f].kind = "ELSE_FENCE"
      BY <1>1, ShapeFacts
    <3>2. \A k \in f + 1 .. Len(after) : after[k].kind # "ELSE_FENCE"
      BY <3>1, KindFacts DEF IsNumber
    <3>3. f # last => f \in last + 1 .. Len(after)
      BY <1>7, <3>1
    <3>. QED BY <1>7, <2>3, <3>1, <3>2, <3>3
  <2>5. Floor(Keep(after, Len(after))) = f
    <3>1. Len(after) \in 0 .. Len(after)
      BY <2>3
    <3>2. /\ Len(Keep(after, Len(after))) = Len(after)
          /\ \A k \in 1 .. Len(after) : Keep(after, Len(after))[k] = after[k]
      BY <1>9, <3>1, KeepFacts
    <3>. QED BY <1>1, <2>3, <3>2, FloorSame
  <2>6. Encloses(after, last, Len(after) + 1)
    BY <1>1 DEF ListGood
  <2>7. opened2[m].kind = "IFBLOCK" <=> \E q \in last + 1 .. Len(after) : after[q].kind = "ELSE_FENCE"
    BY <1>5, <2>1, <2>4, Zenon
  <2>8. /\ opened2[m].type = after[last].type
        /\ opened2[m].kind = IF after[last].kind # "IF" THEN after[last].kind
                             ELSE IF opened2[m].kind = "IFBLOCK" THEN "IFBLOCK" ELSE "BLOCK"
    BY <1>5, <2>1, <2>2, Zenon
  <2>9. Matches(after, opened2[m], last, Len(after), FALSE)
    BY <2>5, <2>6, <2>7, <2>8, Zenon DEF Matches
  <2>10. Waits(opened2, m) = FALSE /\ EndOf(after, opened2, p, m) = Len(after)
    BY <1>4, <1>5 DEF Waits, EndOf
  <2>. QED BY <1>6, <2>9, <2>10, Zenon DEF Agrees
<1>15. \A k \in 1 .. m : Agrees(after, opened2, p, k)
  BY <1>4, <1>13, <1>14
<1>16. Placed(after, last, opened2, p)
  BY <1>5, <1>6, <1>12, <1>15, Zenon DEF Placed
<1>. QED BY <1>1, <1>5, <1>16, Zenon DEF BlocksGood, StateGood

\* Operands that may lie in a block.
Operands(new, e) ==
  /\ new \in Seq(ElementType)
  /\ \A k \in 1 .. Len(new) : IsNumber(new[k]) /\ (new[k].kind = "any" => e.formallyUnreachable)

\* The list up to a position above the floor, and operands on top of it.
LowPart(list, f, low) ==
  /\ low \in Seq(ElementType) /\ Len(low) \in f .. Len(list)
  /\ \A k \in 1 .. Len(low) : low[k] = list[k]

LEMMA LowOperands ==
  ASSUME NEW list, NEW last, ListGood(list, last), NEW f, f = Floor(list), NEW low, LowPart(list, f, low)
  PROVE  /\ Replaces(list, last, f, low) /\ low[last] = list[last]
         /\ f \in last .. Len(low) /\ last \in 1 .. Len(low) /\ Len(low) \in Nat /\ Len(list) \in Nat
<1>1. /\ Len(list) \in Nat \ {0} /\ last \in 1 .. Len(list) /\ f \in last .. Len(list)
      /\ list[last].kind \in Structural
      /\ \A k \in f + 1 .. Len(list) : IsNumber(list[k])
  BY ShapeFacts
<1>2. /\ low \in Seq(ElementType) /\ Len(low) \in f .. Len(list)
      /\ \A k \in 1 .. Len(low) : low[k] = list[k]
  BY DEF LowPart
<1>3. Alike(list, low, f) /\ \A k \in 1 .. f : low[k] = list[k]
  BY <1>1, <1>2 DEF Alike
<1>4. ASSUME NEW k \in f + 1 .. Len(low)
      PROVE  IsNumber(low[k]) /\ (low[k].kind = "any" => low[last].formallyUnreachable)
  <2>1. k \in f + 1 .. Len(list) /\ low[k] = list[k] /\ low[last] = list[last] /\ k \in 1 .. Len(list)
    BY <1>1, <1>2
  <2>2. Encloses(list, last, Len(list) + 1)
    BY DEF ListGood
  <2>3. Encloses(list, last, k)
    BY <1>1, <2>1, <2>2 DEF Encloses
  <2>4. list[k].kind = "any" => list[last].formallyUnreachable
    BY <1>1, <2>1, <2>3 DEF ListGood
  <2>. QED BY <1>1, <2>1, <2>4
<1>5. f <= Len(low) /\ last \in 1 .. f
  BY <1>1, <1>2
<1>6. Replaces(list, last, f, low)
  BY <1>2, <1>3, <1>4, <1>5, Zenon DEF Replaces
<1>. QED BY <1>1, <1>2, <1>3, <1>5, <1>6

Stacked(list, last, f, low, new, after) ==
  /\ Replaces(list, last, f, after) /\ after[last] = list[last]
  /\ Len(after) = Len(low) + Len(new)

LEMMA NewOperands ==
  ASSUME NEW list, NEW last, ListGood(list, last), NEW f, f = Floor(list), NEW low, LowPart(list, f, low),
         NEW new, Operands(new, list[last]), NEW after, after = low \o new
  PROVE  Stacked(list, last, f, low, new, after)
<1>1. /\ Replaces(list, last, f, low)
      /\ f \in last .. Len(low) /\ last \in 1 .. Len(low) /\ Len(low) \in Nat
  BY LowOperands
<1>2. /\ low \in Seq(ElementType) /\ low[last] = list[last]
  BY <1>1 DEF LowPart
<1>3. /\ new \in Seq(ElementType)
      /\ \A k \in 1 .. Len(new) : IsNumber(new[k]) /\ (new[k].kind = "any" => list[last].formallyUnreachable)
  BY Zenon DEF Operands
<1>4. Len(new) \in Nat
  BY <1>3, SeqFacts
<1>6. /\ after \in Seq(ElementType) /\ Len(after) = Len(low) + Len(new)
      /\ \A k \in 1 .. Len(low) : after[k] = low[k]
      /\ \A k \in Len(low) + 1 .. Len(low) + Len(new) : after[k] = new[k - Len(low)]
  BY <1>2, <1>3, ConcatFacts
<1>7. /\ f <= Len(low) /\ Alike(list, low, f)
      /\ \A k \in 1 .. f : k # last => low[k].formallyUnreachable = list[k].formallyUnreachable
      /\ list[last].formallyUnreachable => low[last].formallyUnreachable
      /\ \A k \in f + 1 .. Len(low) : /\ IsNumber(low[k])
                                      /\ low[k].kind = "any" => low[last].formallyUnreachable
  BY <1>1, Zenon DEF Replaces
<1>8. \A k \in 1 .. f : after[k] = low[k]
  BY <1>1, <1>6
<1>9. Alike(list, after, f)
  BY <1>7, <1>8, Zenon DEF Alike
<1>10. after[last] = list[last]
  BY <1>1, <1>2, <1>6
<1>11. ASSUME NEW k \in f + 1 .. Len(after)
       PROVE  IsNumber(after[k]) /\ (after[k].kind = "any" => after[last].formallyUnreachable)
  <2>1. CASE k \in 1 .. Len(low)
    <3>1. k \in f + 1 .. Len(low) /\ after[k] = low[k]
      BY <1>1, <1>6, <2>1
    <3>. QED BY <1>2, <1>7, <1>10, <3>1
  <2>2. CASE k \notin 1 .. Len(low)
    <3>1. k \in Len(low) + 1 .. Len(low) + Len(new) /\ k - Len(low) \in 1 .. Len(new)
      BY <1>1, <1>4, <1>6, <2>2
    <3>2. PICK l \in 1 .. Len(new) : l = k - Len(low)
      BY <3>1
    <3>3. after[k] = new[l]
      BY <1>6, <3>1, <3>2
    <3>. QED BY <1>3, <1>10, <3>3
  <2>. QED BY <2>1, <2>2
<1>12. f <= Len(after) /\ \A k \in 1 .. f : k # last => after[k].formallyUnreachable = list[k].formallyUnreachable
  BY <1>1, <1>4, <1>6, <1>7, <1>8
<1>13. Replaces(list, last, f, after)
  BY <1>6, <1>9, <1>10, <1>11, <1>12, Zenon DEF Replaces
<1>. QED BY <1>6, <1>10, <1>13 DEF Stacked

\* Operands made from types.
LEMMA MadeOperands ==
  ASSUME NEW types \in Seq(Number), NEW e
  PROVE  Operands(Values(types), e) /\ Len(Values(types)) = Len(types) /\ Len(types) \in Nat
<1>1. types \in Seq(Number \union {"any"}) /\ \A k \in 1 .. Len(types) : types[k] \in Number
  BY SeqFacts
<1>2. /\ Values(types) \in Seq(ElementType) /\ Len(Values(types)) = Len(types) /\ Len(types) \in Nat
      /\ \A k \in 1 .. Len(types) : Values(types)[k].kind = types[k]
  BY <1>1, ValuesFacts
<1>3. \A k \in 1 .. Len(types) : IsNumber(Values(types)[k]) /\ Values(types)[k].kind # "any"
  BY <1>1, <1>2, KindFacts DEF IsNumber
<1>. QED BY <1>2, <1>3, Zenon DEF Operands

LEMMA OneOperand ==
  ASSUME NEW kind \in Number \union {"any"}, NEW new, new = Values(<<kind>>)
  PROVE  new \in Seq(ElementType) /\ Len(new) = 1 /\ new[1].kind = kind
<1>1. PICK types : types = <<kind>>
  OBVIOUS
<1>2. types \in Seq(Number \union {"any"}) /\ Len(types) = 1 /\ types[1] = kind
  BY <1>1
<1>3. /\ Values(types) \in Seq(ElementType) /\ Len(Values(types)) = 1
      /\ \A k \in 1 .. 1 : Values(types)[k].kind = types[k]
  BY <1>2, ValuesFacts
<1>4. new = Values(types) /\ 1 \in 1 .. 1
  BY <1>1
<1>. QED BY <1>2, <1>3, <1>4

LEMMA FrontOperands ==
  ASSUME NEW new, NEW e, Operands(new, e), new # <<>>
  PROVE  Operands(Front(new), e) /\ Len(Front(new)) = Len(new) - 1
<1>1. new \in Seq(ElementType)
  BY DEF Operands
<1>2. /\ Front(new) \in Seq(ElementType) /\ Len(Front(new)) = Len(new) - 1 /\ Len(new) - 1 \in Nat
      /\ \A k \in 1 .. Len(new) - 1 : Front(new)[k] = new[k]
  BY <1>1, FrontFacts
<1>3. \A k \in 1 .. Len(new) - 1 : k \in 1 .. Len(new)
  BY <1>1, SeqFacts
<1>. QED BY <1>2, <1>3, Zenon DEF Operands

\* What a type's operands on top of the list say of it.
LEMMA HoldsFacts ==
  ASSUME ListGood(elements, current), NEW f, f = Floor(elements),
         NEW types, Len(types) \in Nat, Holds(elements, types), NEW b, b = Base(elements, types)
  PROVE  /\ b \in f .. Len(elements) /\ f \in Nat \ {0} /\ Len(elements) \in Nat
         /\ FormallyUnreachable \/ (b = Len(elements) - Len(types))
         /\ LowPart(elements, f, Below(types)) /\ Len(Below(types)) = b
<1>1. /\ Len(elements) \in Nat \ {0} /\ current \in 1 .. Len(elements) /\ f \in current .. Len(elements)
  BY ShapeFacts
<1>2. elements \in Seq(ElementType) /\ f \in 1 .. Len(elements)
  BY <1>1 DEF ListGood
<1>3. /\ b \in f .. Len(elements)
      /\ Len(types) <= Len(Held(elements)) => b = Len(elements) - Len(types)
  BY <1>2, BaseFacts
<1>4. FormallyUnreachable \/ Len(types) <= Len(Held(elements))
  BY DEF Holds, FitsAtEnd
<1>5. b \in 0 .. Len(elements)
  BY <1>1, <1>3
<1>6. /\ Below(types) \in Seq(ElementType) /\ Len(Below(types)) = b
      /\ \A k \in 1 .. b : Below(types)[k] = elements[k]
  BY <1>2, <1>5, KeepFacts DEF Below
<1>7. LowPart(elements, f, Below(types))
  BY <1>3, <1>6, Zenon DEF LowPart
<1>. QED BY <1>1, <1>3, <1>4, <1>6, <1>7

\* The flag of the current block is set or reset.
Flagged(low, c, u) == [low EXCEPT ![c].formallyUnreachable = u]

LEMMA FlaggedFacts ==
  ASSUME NEW low \in Seq(ElementType), NEW c \in 1 .. Len(low), NEW u \in BOOLEAN
  PROVE  /\ Flagged(low, c, u) \in Seq(ElementType) /\ Len(Flagged(low, c, u)) = Len(low)
         /\ \A k \in 1 .. Len(low) : k # c => Flagged(low, c, u)[k] = low[k]
         /\ Flagged(low, c, u)[c].kind = low[c].kind /\ Flagged(low, c, u)[c].type = low[c].type
         /\ Flagged(low, c, u)[c].prev = low[c].prev /\ Flagged(low, c, u)[c].formallyUnreachable = u
<1>1. /\ Len(low) \in Nat /\ DOMAIN low = 1 .. Len(low) /\ \A k \in 1 .. Len(low) : low[k] \in ElementType
  BY SeqFacts
<1>2. PICK e : e = [low[c] EXCEPT !.formallyUnreachable = u]
  OBVIOUS
<1>3. e \in ElementType /\ e.kind = low[c].kind /\ e.type = low[c].type /\ e.prev = low[c].prev /\ e.formallyUnreachable = u
  BY <1>1, <1>2 DEF ElementType
<1>4. Flagged(low, c, u) = [low EXCEPT ![c] = e]
  BY <1>2 DEF Flagged
<1>5. [low EXCEPT ![c] = e] \in Seq(ElementType) /\ Len([low EXCEPT ![c] = e]) = Len(low)
  BY <1>1, <1>3
<1>6. [low EXCEPT ![c] = e][c] = e /\ \A k \in 1 .. Len(low) : k # c => [low EXCEPT ![c] = e][k] = low[k]
  BY <1>1
<1>. QED BY <1>3, <1>4, <1>5, <1>6

LEMMA MarkedFacts ==
  ASSUME ListGood(elements, current), NEW f, f = Floor(elements)
  PROVE  /\ Replaces(elements, current, f, MarkedUnreachable) /\ Len(MarkedUnreachable) = f
<1>1. /\ Len(elements) \in Nat \ {0} /\ current \in 1 .. Len(elements) /\ f \in current .. Len(elements)
      /\ elements[current].kind \in Structural
  BY ShapeFacts
<1>2. elements \in Seq(ElementType) /\ f \in 0 .. Len(elements) /\ current \in 1 .. f
  BY <1>1 DEF ListGood
<1>3. PICK low : low = Keep(elements, f)
  OBVIOUS
<1>4. low \in Seq(ElementType) /\ Len(low) = f /\ \A k \in 1 .. f : low[k] = elements[k]
  BY <1>2, <1>3, KeepFacts
<1>0. PICK u \in BOOLEAN : u = TRUE
  OBVIOUS
<1>5. PICK after : after = Flagged(low, current, u)
  OBVIOUS
<1>6. /\ after \in Seq(ElementType) /\ Len(after) = f
      /\ \A k \in 1 .. f : k # current => after[k] = low[k]
      /\ after[current].kind = low[current].kind /\ after[current].type = low[current].type
      /\ after[current].prev = low[current].prev /\ after[current].formallyUnreachable = u
  BY <1>2, <1>4, <1>5, FlaggedFacts
<1>7. Alike(elements, after, f)
  BY <1>1, <1>2, <1>4, <1>6, KindFacts DEF Alike
<1>8. /\ f <= Len(after)
      /\ \A k \in 1 .. f : k # current => after[k].formallyUnreachable = elements[k].formallyUnreachable
      /\ \A k \in f + 1 .. Len(after) : FALSE
  BY <1>1, <1>4, <1>6
<1>9. Replaces(elements, current, f, after)
  <2>1. after[current].formallyUnreachable
    BY <1>0, <1>6
  <2>. QED BY <1>6, <1>7, <1>8, <2>1, Zenon DEF Replaces
<1>10. after = MarkedUnreachable
  BY <1>0, <1>3, <1>5, Zenon DEF Flagged, MarkedUnreachable
<1>. QED BY <1>6, <1>9, <1>10

(***************************************************************************)
(* The compile-time stack.                                                 *)
(***************************************************************************)
LEMMA BlockFacts ==
  ASSUME NEW kind \in BlockKind, NEW type \in Type, NEW u \in BOOLEAN, NEW count, u \/ count \in 0 .. MaxElements
  PROVE  /\ Block(kind, type, u, count) \in BlockType
         /\ Block(kind, type, u, count).kind = kind /\ Block(kind, type, u, count).type = type
         /\ Block(kind, type, u, count).unreachable = u
         /\ u \/ Block(kind, type, u, count).count = count
<1>1. (IF u THEN 0 ELSE count) \in 0 .. MaxElements
  BY BoundAssumption
<1>. QED BY <1>1 DEF Block, BlockType

LEMMA BlockFields ==
  ASSUME NEW b \in BlockType
  PROVE  b.kind \in BlockKind /\ b.type \in Type /\ b.unreachable \in BOOLEAN /\ b.count \in 0 .. MaxElements
  BY DEF BlockType

\* The operands of one block are counted anew.
Counted(opened, k, c) == [opened EXCEPT ![k].count = c]

LEMMA CountedFacts ==
  ASSUME NEW opened \in Seq(BlockType), NEW k \in 1 .. Len(opened), NEW c \in 0 .. MaxElements
  PROVE  /\ Counted(opened, k, c) \in Seq(BlockType) /\ Len(Counted(opened, k, c)) = Len(opened)
         /\ \A l \in 1 .. Len(opened) : l # k => Counted(opened, k, c)[l] = opened[l]
         /\ Counted(opened, k, c)[k].kind = opened[k].kind /\ Counted(opened, k, c)[k].type = opened[k].type
         /\ Counted(opened, k, c)[k].unreachable = opened[k].unreachable /\ Counted(opened, k, c)[k].count = c
<1>1. /\ Len(opened) \in Nat /\ DOMAIN opened = 1 .. Len(opened) /\ \A l \in 1 .. Len(opened) : opened[l] \in BlockType
  BY SeqFacts
<1>2. PICK b : b = [opened[k] EXCEPT !.count = c]
  OBVIOUS
<1>3. b \in BlockType /\ b.kind = opened[k].kind /\ b.type = opened[k].type /\ b.unreachable = opened[k].unreachable /\ b.count = c
  BY <1>1, <1>2 DEF BlockType
<1>4. Counted(opened, k, c) = [opened EXCEPT ![k] = b]
  BY <1>2 DEF Counted
<1>5. [opened EXCEPT ![k] = b] \in Seq(BlockType) /\ Len([opened EXCEPT ![k] = b]) = Len(opened)
  BY <1>1, <1>3
<1>6. [opened EXCEPT ![k] = b][k] = b /\ \A l \in 1 .. Len(opened) : l # k => [opened EXCEPT ![k] = b][l] = opened[l]
  BY <1>1
<1>. QED BY <1>3, <1>4, <1>5, <1>6

LEMMA MovedFacts ==
  ASSUME blocks \in Seq(BlockType), blocks # <<>>, NEW m, m = Len(blocks), NEW pops \in Int, NEW pushes \in Int,
         blocks[m].unreachable \/ blocks[m].count - pops + pushes \in 0 .. MaxElements
  PROVE  /\ SameBlock(blocks, Moved(pops, pushes)) /\ Moved(pops, pushes)[m].unreachable = blocks[m].unreachable
         /\ blocks[m].unreachable \/ Moved(pops, pushes)[m].count = blocks[m].count - pops + pushes
<1>1. /\ m \in Nat \ {0} /\ m \in 1 .. Len(blocks) /\ DOMAIN blocks = 1 .. m /\ Last(blocks) = blocks[m]
  BY OpenedFacts DEF Last
<1>2. CASE blocks[m].unreachable
  <2>1. Moved(pops, pushes) = blocks
    BY <1>1, <1>2, Zenon DEF Moved, CurrentFrameIsUnreachable
  <2>. QED BY <1>2, <2>1 DEF SameBlock
<1>3. CASE ~blocks[m].unreachable
  <2>1. PICK c \in 0 .. MaxElements : c = blocks[m].count - pops + pushes
    BY <1>3
  <2>2. Moved(pops, pushes) = [blocks EXCEPT ![m].count = blocks[m].count - pops + pushes]
    BY <1>1, <1>3 DEF Moved, CurrentFrameIsUnreachable
  <2>3. Moved(pops, pushes) = Counted(blocks, m, c)
    BY <2>1, <2>2, Zenon DEF Counted
  <2>4. PICK after : after = Counted(blocks, m, c)
    OBVIOUS
  <2>5. /\ after \in Seq(BlockType) /\ Len(after) = Len(blocks)
        /\ \A l \in 1 .. Len(blocks) : l # m => after[l] = blocks[l]
        /\ after[m].kind = blocks[m].kind /\ after[m].type = blocks[m].type
        /\ after[m].unreachable = blocks[m].unreachable /\ after[m].count = c
    BY <1>1, <2>4, CountedFacts, SMTT(60)
  <2>6. \A l \in 1 .. m - 1 : l \in 1 .. Len(blocks) /\ l # m
    BY <1>1
  <2>7. SameBlock(blocks, after)
    BY <2>5, <2>6, Zenon DEF SameBlock
  <2>. QED BY <2>1, <2>3, <2>4, <2>5, <2>7
<1>. QED BY <1>2, <1>3

LEMMA FrameUnreachableFacts ==
  ASSUME blocks \in Seq(BlockType), blocks # <<>>, NEW m, m = Len(blocks)
  PROVE  SameBlock(blocks, FrameUnreachable) /\ FrameUnreachable[m].unreachable
<1>1. /\ m \in Nat \ {0} /\ Last(blocks) = blocks[m] /\ blocks[m] \in BlockType
  BY OpenedFacts DEF Last
<1>2. blocks[m].kind \in BlockKind /\ blocks[m].type \in Type
  BY <1>1, BlockFields
<1>3. PICK b : b = Block(blocks[m].kind, blocks[m].type, TRUE, 0)
  OBVIOUS
<1>4. b \in BlockType /\ b.kind = blocks[m].kind /\ b.type = blocks[m].type /\ b.unreachable = TRUE
  BY <1>2, <1>3, BoundAssumption DEF Block, BlockType
<1>5. /\ Front(blocks) \in Seq(BlockType) /\ Len(Front(blocks)) = m - 1
      /\ \A k \in 1 .. m - 1 : Front(blocks)[k] = blocks[k]
  BY FrontFacts
<1>6. PICK after : after = Append(Front(blocks), b)
  OBVIOUS
<1>7. /\ after \in Seq(BlockType) /\ Len(after) = (m - 1) + 1
      /\ \A k \in 1 .. m - 1 : after[k] = Front(blocks)[k]
      /\ after[(m - 1) + 1] = b
  BY <1>4, <1>5, <1>6, AppendFacts
<1>8. (m - 1) + 1 = m
  BY <1>1
<1>9. SameBlock(blocks, after) /\ after[m].unreachable
  BY <1>4, <1>5, <1>7, <1>8 DEF SameBlock
<1>10. after = FrameUnreachable
  BY <1>1, <1>3, <1>6 DEF FrameUnreachable
<1>. QED BY <1>9, <1>10

(***************************************************************************)
(* The instructions that leave the structure as it is.                     *)
(***************************************************************************)
GoodState == StateGood(elements, current, blocks)

LEMMA StateFacts ==
  ASSUME GoodState, NEW f, f = Floor(elements), NEW m, m = Len(blocks)
  PROVE  /\ elements \in Seq(ElementType) /\ Len(elements) \in Nat \ {0} /\ f \in Nat \ {0}
         /\ current \in 1 .. Len(elements) /\ f \in current .. Len(elements)
         /\ blocks \in Seq(BlockType) /\ blocks # <<>> /\ m \in Nat \ {0}
         /\ CurrentFrameIsUnreachable <=> blocks[m].unreachable
         /\ blocks[m] \in BlockType /\ blocks[m].type = elements[current].type
         /\ blocks[m].kind = IF elements[current].kind # "IF" THEN elements[current].kind
                             ELSE IF blocks[m].kind = "IFBLOCK" THEN "IFBLOCK" ELSE "BLOCK"
         /\ blocks[m].kind = "IFBLOCK" <=> f # current
         /\ FormallyUnreachable => blocks[m].unreachable
         /\ blocks[m].unreachable \/ blocks[m].count = Len(elements) - f
<1>1. ListGood(elements, current) /\ blocks \in Seq(BlockType) /\ blocks # <<>>
  BY Zenon DEF GoodState, StateGood, BlocksGood
<1>2. PICK p : Placed(elements, current, blocks, p)
  BY Zenon DEF GoodState, StateGood, BlocksGood
<1>3. m \in Nat \ {0} /\ m \in 1 .. m /\ blocks[m] \in BlockType
  BY <1>1, OpenedFacts
<1>4. p[m] = current /\ Agrees(elements, blocks, p, m)
  BY <1>2, <1>3 DEF Placed
<1>5. /\ blocks[m].type = elements[current].type
      /\ blocks[m].kind = IF elements[current].kind # "IF" THEN elements[current].kind
                          ELSE IF blocks[m].kind = "IFBLOCK" THEN "IFBLOCK" ELSE "BLOCK"
      /\ blocks[m].kind = "IFBLOCK" <=> f # current
      /\ elements[current].formallyUnreachable => blocks[m].unreachable
      /\ blocks[m].unreachable \/ blocks[m].count = Len(elements) - f
  BY <1>1, <1>3, <1>4, LastFacts
<1>6. Len(elements) \in Nat \ {0} /\ current \in 1 .. Len(elements) /\ f \in current .. Len(elements) /\ elements \in Seq(ElementType)
  BY <1>1, ShapeFacts DEF ListGood
<1>7. CurrentFrameIsUnreachable <=> blocks[m].unreachable
  BY DEF CurrentFrameIsUnreachable, Last
<1>8. f \in Nat \ {0}
  BY <1>6
<1>. QED BY <1>1, <1>3, <1>5, <1>6, <1>7, <1>8, Zenon DEF FormallyUnreachable

LEMMA MovedGood ==
  ASSUME GoodState, NEW f, f = Floor(elements), NEW after, Replaces(elements, current, f, after),
         Len(after) <= MaxElements, after[current] = elements[current], NEW pops \in Int, NEW pushes \in Int,
         NEW m, m = Len(blocks), blocks[m].unreachable \/ Len(after) = Len(elements) - pops + pushes
  PROVE  StateGood(after, current, Moved(pops, pushes))
<1>1. /\ blocks \in Seq(BlockType) /\ blocks # <<>> /\ Len(elements) \in Nat /\ f \in Nat
      /\ FormallyUnreachable => blocks[m].unreachable
      /\ blocks[m].unreachable \/ blocks[m].count = Len(elements) - f
  BY StateFacts
<1>2. after \in Seq(ElementType) /\ f <= Len(after)
  BY DEF Replaces
<1>3. Len(after) - f \in 0 .. MaxElements
  BY <1>1, <1>2, SeqFacts, BoundAssumption
<1>4. blocks[m].unreachable \/ blocks[m].count - pops + pushes = Len(after) - f
  BY <1>1, SMTT(60)
<1>5. /\ SameBlock(blocks, Moved(pops, pushes)) /\ Moved(pops, pushes)[m].unreachable = blocks[m].unreachable
      /\ blocks[m].unreachable \/ Moved(pops, pushes)[m].count = blocks[m].count - pops + pushes
  BY <1>1, <1>3, <1>4, MovedFacts
<1>6. after[current].formallyUnreachable => Moved(pops, pushes)[m].unreachable
  BY <1>1, <1>5 DEF FormallyUnreachable
<1>7. Moved(pops, pushes)[m].unreachable \/ Moved(pops, pushes)[m].count = Len(after) - f
  BY <1>4, <1>5
<1>8. PICK after2 : after2 = Moved(pops, pushes)
  OBVIOUS
<1>9. SameBlock(blocks, after2) /\ (after[current].formallyUnreachable => after2[m].unreachable)
      /\ (after2[m].unreachable \/ after2[m].count = Len(after) - f)
  BY <1>5, <1>6, <1>7, <1>8, Zenon
<1>10. StateGood(after, current, after2)
  BY <1>9, SameBlockGood DEF GoodState, StateGood
<1>. QED BY <1>8, <1>10

LEMMA DeadGood ==
  ASSUME GoodState, NEW f, f = Floor(elements), NEW after, Replaces(elements, current, f, after)
  PROVE  StateGood(after, current, FrameUnreachable)
<1>1. PICK m : m = Len(blocks)
  OBVIOUS
<1>2. blocks \in Seq(BlockType) /\ blocks # <<>>
  BY Zenon DEF GoodState, StateGood, BlocksGood
<1>3. SameBlock(blocks, FrameUnreachable) /\ FrameUnreachable[m].unreachable
  BY <1>1, <1>2, FrameUnreachableFacts
<1>4. PICK after2 : after2 = FrameUnreachable
  OBVIOUS
<1>5. SameBlock(blocks, after2) /\ after2[m].unreachable
  BY <1>3, <1>4
<1>6. StateGood(after, current, after2)
  BY <1>1, <1>5, SameBlockGood DEF GoodState, StateGood
<1>. QED BY <1>4, <1>6

Preserved ==
  /\ verdict' \in {"valid", "rejected"}
  /\ StateGood(elements', current', blocks')

\* What an instruction does is either what its check accepts or a rejection; it is
\* enough to show that the accepted outcome is good.
LEMMA Decided ==
  ASSUME GoodState, Len(elements') <= MaxElements,
         NEW valid, NEW after, NEW last, NEW opened, Decide(valid, after, last, opened),
         valid /\ Len(after) <= MaxElements => StateGood(after, last, opened)
  PROVE  Preserved
<1>1. CASE valid
  <2>1. /\ elements' = after /\ current' = last /\ blocks' = opened /\ verdict' = "valid"
    BY <1>1 DEF Decide, Accept
  <2>2. StateGood(after, last, opened)
    BY <1>1, <2>1
  <2>. QED BY <2>1, <2>2 DEF Preserved
<1>2. CASE ~valid
  <2>1. /\ elements' = elements /\ current' = current /\ blocks' = blocks /\ verdict' = "rejected"
    BY <1>2 DEF Decide, Reject
  <2>. QED BY <2>1 DEF Preserved, GoodState
<1>. QED BY <1>1, <1>2

\* Operands are popped and others are pushed.
LEMMA PopPush ==
  ASSUME GoodState, NEW types, Len(types) \in Nat, Holds(elements, types),
         NEW new, Operands(new, elements[current]), NEW after, after = Below(types) \o new,
         Len(after) <= MaxElements,
         NEW pops \in Int, NEW pushes \in Int, pops - pushes = Len(types) - Len(new)
  PROVE  StateGood(after, current, Moved(pops, pushes))
<1>1. PICK f, m, b, low : f = Floor(elements) /\ m = Len(blocks) /\ b = Base(elements, types) /\ low = Below(types)
  OBVIOUS
<1>2. ListGood(elements, current)
  BY DEF GoodState, StateGood
<1>3. /\ b \in f .. Len(elements) /\ f \in Nat \ {0} /\ Len(elements) \in Nat
      /\ FormallyUnreachable \/ (b = Len(elements) - Len(types))
      /\ LowPart(elements, f, Below(types)) /\ Len(Below(types)) = b
  BY <1>1, <1>2, HoldsFacts
<1>4. f = Floor(elements) /\ LowPart(elements, f, low) /\ after = low \o new /\ Len(low) = b
  BY <1>1, <1>3
<1>5. Stacked(elements, current, f, low, new, after)
  BY <1>2, <1>4, NewOperands
<1>6. Replaces(elements, current, f, after) /\ after[current] = elements[current] /\ Len(after) = b + Len(new)
  BY <1>4, <1>5 DEF Stacked
<1>7. FormallyUnreachable => blocks[m].unreachable
  BY <1>1, StateFacts
<1>8. Len(new) \in Nat
  BY SeqFacts DEF Operands
<1>9. blocks[m].unreachable \/ Len(after) = Len(elements) - pops + pushes
  <2>0. \A e, t, n \in Nat : pops - pushes = t - n => (e - t) + n = e - pops + pushes
    OBVIOUS
  <2>1. ASSUME b = Len(elements) - Len(types) PROVE Len(after) = Len(elements) - pops + pushes
    <3>1. (Len(elements) - Len(types)) + Len(new) = Len(elements) - pops + pushes
      BY <1>3, <1>8, <2>0
    <3>2. Len(after) = (Len(elements) - Len(types)) + Len(new)
      BY <1>6, <2>1
    <3>. QED BY <3>1, <3>2
  <2>. QED BY <1>3, <1>7, <2>1, Zenon
<1>. QED BY <1>1, <1>6, <1>9, MovedGood

\* Instructions that pop parameters and push results stay above the floor.
LEMMA PlainKeeps ==
  ASSUME GoodState, Len(elements') <= MaxElements, NEW i \in Instruction, PlainInstruction(i)
  PROVE  Preserved
<1>. DEFINE y == i.type
            after == Below(y.params) \o Values(y.results)
            opened == Moved(Len(y.params), Len(y.results))
            valid == Holds(elements, y.params)
<1>1. Decide(valid, after, current, opened)
  BY Zenon DEF PlainInstruction
<1>2. /\ y.params \in Seq(Number) /\ y.results \in Seq(Number)
      /\ Len(y.params) \in Nat /\ Len(y.results) \in Nat
  BY InstructionAssumption, SignatureFacts
<1>3. ASSUME valid, Len(after) <= MaxElements
      PROVE  StateGood(after, current, opened)
  <2>. PICK types, new : types = y.params /\ new = Values(y.results)
    OBVIOUS
  <2>. PICK pops, pushes : pops = Len(y.params) /\ pushes = Len(y.results)
    OBVIOUS
  <2>1. types = y.params /\ new = Values(y.results) /\ pops = Len(y.params) /\ pushes = Len(y.results)
        /\ pops \in Int /\ pushes \in Int
    BY <1>2
  <2>2. Operands(new, elements[current]) /\ Len(new) = pushes
    BY <1>2, <2>1, MadeOperands
  <2>3. PICK list : list = Below(types) \o new /\ list = after
    BY <2>1
  <2>4. /\ Len(types) \in Nat /\ Holds(elements, types) /\ Len(list) <= MaxElements
        /\ pops - pushes = Len(types) - Len(new) /\ list = Below(types) \o new
    BY <1>2, <1>3, <2>1, <2>2, <2>3
  <2>. HIDE DEF after, opened, valid, y
  <2>5. StateGood(list, current, Moved(pops, pushes))
    BY <2>2, <2>4, <2>1, PopPush, Zenon
  <2>. QED BY <2>1, <2>3, <2>5 DEF opened
<1>. HIDE DEF after, opened, valid
<1>. QED BY <1>1, <1>3, Decided

LEMMA DropKeeps ==
  ASSUME GoodState, Len(elements') <= MaxElements, NEW i \in Instruction, Drop(i)
  PROVE  Preserved
<1>. DEFINE after == IF Held(elements) = <<>> THEN elements ELSE Front(elements)
            opened == Moved(1, 0)
            valid == Held(elements) # <<>> \/ FormallyUnreachable
<1>1. Decide(valid, after, current, opened)
  BY Zenon DEF Drop
<1>2. ASSUME valid, Len(after) <= MaxElements
      PROVE  StateGood(after, current, opened)
  <2>1. PICK f, m, list : f = Floor(elements) /\ m = Len(blocks) /\ list = after
    OBVIOUS
  <2>2. ListGood(elements, current)
    BY DEF GoodState, StateGood
  <2>3. /\ elements \in Seq(ElementType) /\ Len(elements) \in Nat \ {0} /\ f \in Nat \ {0}
        /\ current \in 1 .. Len(elements) /\ f \in current .. Len(elements)
        /\ FormallyUnreachable => blocks[m].unreachable
    BY <2>1, StateFacts
  <2>4. Held(elements) \in Seq(Kinds) /\ Len(Held(elements)) = Len(elements) - f
    <3>1. f \in 1 .. Len(elements)
      BY <2>3
    <3>. QED BY <2>1, <2>3, <3>1, HeldFacts
  <2>5. CASE Held(elements) = <<>>
    <3>1. list = elements
      BY <2>1, <2>5
    <3>2. LowPart(elements, f, list)
      BY <2>3, <3>1 DEF LowPart
    <3>3. Replaces(elements, current, f, list) /\ list[current] = elements[current]
      BY <2>1, <2>2, <3>2, LowOperands
    <3>4. blocks[m].unreachable
      BY <1>2, <2>3, <2>5
    <3>5. Len(list) <= MaxElements /\ f = Floor(elements) /\ m = Len(blocks) /\ 1 \in Int /\ 0 \in Int
      BY <1>2, <2>1
    <3>6. StateGood(list, current, Moved(1, 0))
      BY <3>3, <3>4, <3>5, MovedGood
    <3>. QED BY <2>1, <3>6
  <2>6. CASE Held(elements) # <<>>
    <3>1. list = Front(elements) /\ elements # <<>>
      BY <2>1, <2>3, <2>6
    <3>2. /\ list \in Seq(ElementType) /\ Len(list) = Len(elements) - 1
          /\ \A k \in 1 .. Len(elements) - 1 : list[k] = elements[k]
      BY <2>3, <3>1, FrontFacts
    <3>3. Len(elements) - f \in Nat \ {0}
      BY <2>3, <2>4, <2>6, EmptySeq, SeqFacts
    <3>4. Len(list) \in f .. Len(elements)
      BY <2>3, <3>2, <3>3
    <3>5. LowPart(elements, f, list)
      BY <3>2, <3>4 DEF LowPart
    <3>6. Replaces(elements, current, f, list) /\ list[current] = elements[current]
      BY <2>1, <2>2, <3>5, LowOperands
    <3>7. /\ Len(list) <= MaxElements /\ f = Floor(elements) /\ m = Len(blocks) /\ 1 \in Int /\ 0 \in Int
          /\ Len(list) = Len(elements) - 1 + 0
      BY <1>2, <2>1, <2>3, <3>2
    <3>8. StateGood(list, current, Moved(1, 0))
      BY <3>6, <3>7, MovedGood
    <3>. QED BY <2>1, <3>8
  <2>. QED BY <2>5, <2>6
<1>. HIDE DEF after, opened, valid
<1>. QED BY <1>1, <1>2, Decided

\* The element that stays is one of those selected from.
SelectResult(list, n, held) ==
  IF n = 0 THEN list \o Values(<<"any">>)
  ELSE IF n = 1 THEN list
  ELSE Keep(list, Len(list) - 2) \o Values(<<IF held[n - 1] = "any" THEN held[n] ELSE held[n - 1]>>)

LEMMA SelectKeeps ==
  ASSUME GoodState, Len(elements') <= MaxElements, NEW i \in Instruction, Select(i)
  PROVE  Preserved
<1>. DEFINE list == Below(<<"i32">>)
            held == Held(list)
            n == Len(held)
            some == IF n >= 2 THEN held[n - 1] = held[n] \/ (FormallyUnreachable /\ "any" \in {held[n - 1], held[n]})
                    ELSE FormallyUnreachable
            valid == Holds(elements, <<"i32">>) /\ some
            after == SelectResult(list, n, held)
            opened == Moved(3, 1)
<1>1. Decide(valid, after, current, opened)
  BY DEF Select, SelectResult
<1>2. ASSUME valid, Len(after) <= MaxElements
      PROVE  StateGood(after, current, opened)
  <2>1. PICK f, m, b, low, types : /\ f = Floor(elements) /\ m = Len(blocks) /\ low = Below(types)
                                   /\ types = <<"i32">> /\ b = Base(elements, types)
    OBVIOUS
  <2>2. ListGood(elements, current)
    BY DEF GoodState, StateGood
  <2>3. Len(types) = 1 /\ Len(types) \in Nat /\ Holds(elements, types)
    BY <1>2, <2>1
  <2>4. /\ b \in f .. Len(elements) /\ f \in Nat \ {0} /\ Len(elements) \in Nat
        /\ FormallyUnreachable \/ (b = Len(elements) - Len(types))
        /\ LowPart(elements, f, Below(types)) /\ Len(Below(types)) = b
    BY <2>1, <2>2, <2>3, HoldsFacts
  <2>5. LowPart(elements, f, low) /\ Len(low) = b /\ low \in Seq(ElementType) /\ \A k \in 1 .. b : low[k] = elements[k]
    BY <2>1, <2>4 DEF LowPart
  <2>6. /\ Replaces(elements, current, f, low) /\ low[current] = elements[current]
        /\ f \in current .. Len(low) /\ current \in 1 .. Len(low)
    BY <2>1, <2>2, <2>5, LowOperands
  <2>7. ListGood(low, current) /\ Floor(low) = f
    BY <2>1, <2>2, <2>6, SameBlockList
  <2>8. PICK seen, s : seen = Held(low) /\ s = Len(seen)
    OBVIOUS
  <2>9. /\ seen \in Seq(Kinds) /\ s = b - f /\ s \in Nat
        /\ \A k \in 1 .. s : seen[k] = low[f + k].kind
    <3>1. f \in 1 .. Len(low)
      BY <2>4, <2>5
    <3>2. seen \in Seq(Kinds) /\ Len(seen) = Len(low) - f /\ \A k \in 1 .. Len(low) - f : seen[k] = low[f + k].kind
      BY <2>5, <2>7, <2>8, <3>1, HeldFacts
    <3>. QED BY <2>4, <2>5, <2>8, <3>2
  <2>10. /\ IF s >= 2 THEN seen[s - 1] = seen[s] \/ (FormallyUnreachable /\ "any" \in {seen[s - 1], seen[s]})
            ELSE FormallyUnreachable
    BY <1>2, <2>1, <2>8
  <2>11. FormallyUnreachable => blocks[m].unreachable
    BY <2>1, StateFacts
  <2>12. PICK list2 : list2 = SelectResult(low, s, seen)
    OBVIOUS
  <2>13. list2 = after
    BY <2>1, <2>8, <2>12
  <2>. HIDE DEF list, held, n, some, valid, after
  <2>14. CASE s = 0
    <3>1. PICK new : new = Values(<<"any">>)
      OBVIOUS
    <3>2. Operands(new, elements[current])
      <4>1. PICK kind \in Number \union {"any"} : kind = "any"
        OBVIOUS
      <4>2. new \in Seq(ElementType) /\ Len(new) = 1 /\ new[1].kind = "any"
        BY <3>1, <4>1, OneOperand
      <4>3. elements[current].formallyUnreachable
        BY <2>10, <2>14 DEF FormallyUnreachable
      <4>. QED BY <4>2, <4>3 DEF Operands, IsNumber
    <3>3. list2 = low \o new
      BY <2>12, <2>14, <3>1 DEF SelectResult
    <3>4. Stacked(elements, current, f, low, new, list2)
      BY <2>1, <2>2, <2>5, <3>2, <3>3, NewOperands
    <3>5. blocks[m].unreachable
      BY <2>10, <2>11, <2>14
    <3>. QED BY <1>2, <2>1, <2>13, <3>4, <3>5, MovedGood DEF Stacked
  <2>15. CASE s = 1
    <3>1. list2 = low
      BY <2>12, <2>15 DEF SelectResult
    <3>2. blocks[m].unreachable
      BY <2>10, <2>11, <2>15
    <3>. QED BY <1>2, <2>1, <2>6, <2>13, <3>1, <3>2, MovedGood
  <2>16. CASE s >= 2
    <3>1. PICK low2, kind, new : /\ low2 = Keep(low, b - 2) /\ new = Values(<<kind>>)
                                 /\ kind = IF seen[s - 1] = "any" THEN seen[s] ELSE seen[s - 1]
      OBVIOUS
    <3>2. list2 = low2 \o new
      <4>1. s # 0 /\ s # 1
        BY <2>16
      <4>. QED BY <2>5, <2>12, <3>1, <4>1 DEF SelectResult
    <3>3. b - 2 \in f .. Len(elements) /\ b - 2 \in 0 .. Len(low) /\ s - 1 \in 1 .. s /\ s \in 1 .. s
      BY <2>4, <2>5, <2>9, <2>16
    <3>4. LowPart(elements, f, low2) /\ Len(low2) = b - 2
      <4>1. low2 \in Seq(ElementType) /\ Len(low2) = b - 2 /\ \A k \in 1 .. b - 2 : low2[k] = low[k]
        BY <2>5, <3>1, <3>3, KeepFacts
      <4>2. \A k \in 1 .. b - 2 : k \in 1 .. b
        BY <2>4
      <4>. QED BY <2>5, <3>3, <4>1, <4>2 DEF LowPart
    <3>5. kind \in Number \union {"any"} /\ (kind = "any" => elements[current].formallyUnreachable)
      <4>1. \A k \in f + 1 .. Len(low) : IsNumber(low[k]) /\ (low[k].kind = "any" => low[current].formallyUnreachable)
        BY <2>6 DEF Replaces
      <4>2. \A k \in 1 .. s : f + k \in f + 1 .. Len(low)
        BY <2>4, <2>5, <2>9
      <4>3. \A k \in 1 .. s : seen[k] \in Number \union {"any"} /\ (seen[k] = "any" => elements[current].formallyUnreachable)
        BY <2>6, <2>9, <4>1, <4>2 DEF IsNumber
      <4>4. seen[s - 1] \in Number \union {"any"} /\ seen[s] \in Number \union {"any"} /\ (seen[s] = "any" => elements[current].formallyUnreachable)
        BY <3>3, <4>3
      <4>. QED BY <3>1, <4>4
    <3>6. Operands(new, elements[current]) /\ Len(new) = 1
      <4>2. new \in Seq(ElementType) /\ Len(new) = 1 /\ new[1].kind = kind
        BY <3>1, <3>5, OneOperand
      <4>. QED BY <3>5, <4>2 DEF Operands, IsNumber
    <3>7. Stacked(elements, current, f, low2, new, list2)
      BY <2>1, <2>2, <3>2, <3>4, <3>6, NewOperands
    <3>8. Replaces(elements, current, f, list2) /\ list2[current] = elements[current] /\ Len(list2) = (b - 2) + 1
      BY <3>4, <3>6, <3>7 DEF Stacked
    <3>9. blocks[m].unreachable \/ Len(list2) = Len(elements) - 3 + 1
      BY <2>3, <2>4, <2>11, <3>8
    <3>. QED BY <1>2, <2>1, <2>13, <3>8, <3>9, MovedGood
  <2>. QED BY <2>9, <2>14, <2>15, <2>16
<1>. HIDE DEF after, opened, valid
<1>. QED BY <1>1, <1>2, Decided

(***************************************************************************)
(* The block a branch leads to.                                            *)
(***************************************************************************)
Step(list, v) == IF v = 0 THEN 0 ELSE list[v].prev
IsEnclosing(g, list, last, depth) ==
  g = [d \in 0 .. depth |-> IF d = 0 THEN last ELSE IF g[d - 1] = 0 THEN 0 ELSE list[g[d - 1]].prev]

\* The recursive function that walks outwards along prev is well-defined on the
\* depths of labels.
LEMMA EnclosingExists ==
  ASSUME NEW list, NEW last, NEW depth \in Nat
  PROVE  \E g : IsEnclosing(g, list, last, depth)
<1>. DEFINE From(m, g) == g = [d \in 0 .. m |-> IF d = 0 THEN last ELSE Step(list, g[d - 1])]
            S == {m \in Nat : \E g : From(m, g)}
<1>. HIDE DEF Step
<1>1. 0 \in S
  <2>. DEFINE g == [d \in 0 .. 0 |-> last]
  <2>1. \A d \in 0 .. 0 : d = 0
    OBVIOUS
  <2>2. g = [d \in 0 .. 0 |-> IF d = 0 THEN last ELSE Step(list, g[d - 1])]
    BY <2>1
  <2>. QED BY <2>2
<1>2. ASSUME NEW m \in S PROVE m + 1 \in S
  <2>1. PICK g : From(m, g)
    OBVIOUS
  <2>. DEFINE h == [d \in 0 .. m + 1 |-> IF d = m + 1 THEN Step(list, g[m]) ELSE g[d]]
  <2>2. \A d \in 0 .. m : g[d] = IF d = 0 THEN last ELSE Step(list, g[d - 1])
    BY <2>1, Zenon
  <2>3. \A d \in 0 .. m : h[d] = g[d]
    OBVIOUS
  <2>4. \A d \in 0 .. m + 1 : h[d] = IF d = 0 THEN last ELSE Step(list, h[d - 1])
    <3>. TAKE d \in 0 .. m + 1
    <3>1. CASE d = m + 1
      <4>1. d # 0 /\ d - 1 = m /\ m \in 0 .. m /\ h[d] = Step(list, g[m])
        BY <3>1
      <4>. QED BY <4>1, <2>3
    <3>2. CASE d # m + 1
      <4>1. d \in 0 .. m
        BY <3>2
      <4>2. PICK c : c = d - 1
        OBVIOUS
      <4>3. d # 0 => c \in 0 .. m
        BY <4>1, <4>2
      <4>4. h[d] = g[d] /\ (d # 0 => h[c] = g[c])
        BY <2>3, <4>1, <4>3
      <4>. QED BY <4>1, <4>2, <4>4, <2>2, Zenon
    <3>. QED BY <3>1, <3>2
  <2>5. h = [d \in 0 .. m + 1 |-> IF d = 0 THEN last ELSE Step(list, h[d - 1])]
    BY <2>4
  <2>. HIDE DEF h
  <2>6. \E x : From(m + 1, x)
    BY <2>5
  <2>. QED BY <2>6
<1>3. S = Nat
  <2>. HIDE DEF S
  <2>1. S \in SUBSET Nat
    BY DEF S
  <2>. QED BY <1>1, <1>2, <2>1, Induction
<1>4. PICK g : From(depth, g)
  BY <1>3
<1>. QED BY <1>4, Zenon DEF IsEnclosing, Step

LEMMA TargetUnfold ==
  ASSUME NEW depth, NEW g, IsEnclosing(g, elements, current, depth)
  PROVE  \E h : IsEnclosing(h, elements, current, depth) /\ Target(depth) = h[depth]
<1>. DEFINE Enclosing(x) == x = [d \in 0 .. depth |-> IF d = 0 THEN current
                                    ELSE IF x[d - 1] = 0 THEN 0 ELSE elements[x[d - 1]].prev]
<1>1. Enclosing(g)
  BY DEF IsEnclosing
<1>2. Enclosing(CHOOSE x : Enclosing(x))
  BY <1>1
<1>3. Target(depth) = (CHOOSE x : Enclosing(x))[depth]
  BY DEF Target
<1>. QED BY <1>2, <1>3 DEF IsEnclosing

LEMMA TargetFacts ==
  ASSUME ListGood(elements, current), NEW depth \in Nat
  PROVE  Target(depth) \in 0 .. Len(elements)
<1>1. /\ Len(elements) \in Nat \ {0} /\ current \in 1 .. Len(elements)
      /\ elements[current].kind \in Structural
  BY ShapeFacts
<1>2. PICK h : IsEnclosing(h, elements, current, depth) /\ Target(depth) = h[depth]
  BY EnclosingExists, TargetUnfold
<1>3. \A d \in 0 .. depth : h[d] = IF d = 0 THEN current ELSE Step(elements, h[d - 1])
  BY <1>2, Zenon DEF IsEnclosing, Step
<1>. DEFINE Ok(v) == v = 0 \/ (v \in 1 .. Len(elements) /\ elements[v].kind \in Structural)
            S == {d \in Nat : d <= depth => Ok(h[d])}
<1>4. ASSUME NEW v, Ok(v) PROVE Ok(Step(elements, v))
  <2>1. CASE v = 0
    BY <2>1 DEF Step
  <2>2. CASE v = 1
    <3>1. Step(elements, v) = 0
      BY <2>2 DEF Step, ListGood
    <3>. QED BY <3>1
  <2>3. CASE v \in 2 .. Len(elements) /\ elements[v].kind \in Structural
    <3>1. WellPlaced(elements, v)
      BY <2>3 DEF ListGood
    <3>2. Encloses(elements, elements[v].prev, v)
      BY <2>3, <3>1 DEF WellPlaced
    <3>3. elements[v].prev \in 1 .. v - 1 /\ elements[elements[v].prev].kind \in Structural
      BY <3>2 DEF Encloses
    <3>. QED BY <1>1, <2>3, <3>3 DEF Step
  <2>. QED BY <1>1, <1>4, <2>1, <2>2, <2>3
<1>5. 0 \in S
  BY <1>1, <1>3
<1>6. ASSUME NEW d \in S PROVE d + 1 \in S
  <2>. SUFFICES ASSUME d + 1 <= depth PROVE Ok(h[d + 1])
    OBVIOUS
  <2>1. PICK k \in 1 .. depth : k = d + 1 /\ k - 1 = d
    OBVIOUS
  <2>2. h[k] = Step(elements, h[k - 1])
    BY <1>3
  <2>3. Ok(h[d])
    OBVIOUS
  <2>. HIDE DEF Ok
  <2>. QED BY <1>4, <2>1, <2>2, <2>3, Zenon
<1>7. S = Nat
  <2>. HIDE DEF S
  <2>1. S \in SUBSET Nat
    BY DEF S
  <2>. QED BY <1>5, <1>6, <2>1, Induction
<1>8. Ok(h[depth])
  BY <1>7
<1>. QED BY <1>1, <1>2, <1>8

LEMMA TargetTypesFacts ==
  ASSUME ListGood(elements, current), NEW depth \in Nat, Target(depth) # 0
  PROVE  TargetTypes(depth) \in Seq(Number)
<1>1. PICK k \in 1 .. Len(elements) : k = Target(depth)
  <2>1. Len(elements) \in Nat
    BY ShapeFacts
  <2>. QED BY <2>1, TargetFacts
<1>2. elements[k] \in ElementType
  BY SeqFacts DEF ListGood
<1>3. PICK y \in SignatureType : y = elements[k].type
  BY <1>2, ElementFacts, TypeFacts
<1>4. y.params \in Seq(Number) /\ y.results \in Seq(Number)
  BY SignatureFacts
<1>5. TargetTypes(depth) = BranchTypes(elements[k].kind = "LOOP", y)
  BY <1>1, <1>3, Zenon DEF TargetTypes
<1>. QED BY <1>4, <1>5 DEF BranchTypes

(***************************************************************************)
(* Branches.                                                               *)
(***************************************************************************)
LEMMA LabelFacts ==
  ASSUME NEW i \in Instruction, i.op \in {"br", "br_if", "br_table"}
  PROVE  i.labels[1] \in Nat
<1>1. i.labels \in Seq(Nat) /\ i.labels # <<>>
  BY InstructionAssumption
<1>2. Len(i.labels) \in Nat \ {0} /\ \A k \in 1 .. Len(i.labels) : i.labels[k] \in Nat
  BY <1>1, SeqFacts
<1>3. 1 \in 1 .. Len(i.labels)
  BY <1>2
<1>. QED BY <1>2, <1>3

\* Behind an unconditional branch nothing executes.
LEMMA LeaveKeeps ==
  ASSUME GoodState, Len(elements') <= MaxElements,
         NEW valid, Decide(valid, MarkedUnreachable, current, FrameUnreachable)
  PROVE  Preserved
<1>1. PICK f, list : f = Floor(elements) /\ list = MarkedUnreachable
  OBVIOUS
<1>2. Replaces(elements, current, f, list)
  BY <1>1, MarkedFacts DEF GoodState, StateGood
<1>3. StateGood(list, current, FrameUnreachable)
  BY <1>1, <1>2, DeadGood
<1>4. StateGood(MarkedUnreachable, current, FrameUnreachable)
  BY <1>1, <1>3
<1>. QED BY <1>4, Decided

\* Instructions behind which code is dead leave nothing above the floor.
LEMMA LeavesKeep ==
  ASSUME GoodState, Len(elements') <= MaxElements, NEW i \in Instruction,
         BranchAlways(i) \/ BranchTable(i) \/ Unreachable(i) \/ Return(i) \/ ReturnCallInstruction(i)
  PROVE  Preserved
<1>1. CASE BranchAlways(i)
  <2>1. \E valid : Decide(valid, MarkedUnreachable, current, FrameUnreachable)
    BY <1>1, Zenon DEF BranchAlways
  <2>. QED BY <2>1, LeaveKeeps
<1>2. CASE BranchTable(i)
  <2>1. \E valid : Decide(valid, MarkedUnreachable, current, FrameUnreachable)
    BY <1>2, Zenon DEF BranchTable
  <2>. QED BY <2>1, LeaveKeeps
<1>3. CASE Unreachable(i)
  <2>1. Decide(TRUE, MarkedUnreachable, current, FrameUnreachable)
    BY <1>3 DEF Unreachable, Decide
  <2>. QED BY <2>1, LeaveKeeps
<1>4. CASE Return(i)
  <2>1. \E valid : Decide(valid, MarkedUnreachable, current, FrameUnreachable)
    BY <1>4, Zenon DEF Return
  <2>. QED BY <2>1, LeaveKeeps
<1>5. CASE ReturnCallInstruction(i)
  <2>1. \E valid : Decide(valid, MarkedUnreachable, current, FrameUnreachable)
    BY <1>5, Zenon DEF ReturnCallInstruction
  <2>. QED BY <2>1, LeaveKeeps
<1>. QED BY <1>1, <1>2, <1>3, <1>4, <1>5

\* As PopPush, where the rest of the frame cannot execute.
LEMMA PopPushDead ==
  ASSUME GoodState, NEW types, Len(types) \in Nat, Holds(elements, types),
         NEW new, Operands(new, elements[current]), NEW after, after = Below(types) \o new
  PROVE  StateGood(after, current, FrameUnreachable)
<1>1. PICK f, low, b : f = Floor(elements) /\ low = Below(types) /\ b = Base(elements, types)
  OBVIOUS
<1>2. ListGood(elements, current)
  BY DEF GoodState, StateGood
<1>3. LowPart(elements, f, Below(types))
  BY <1>1, <1>2, HoldsFacts
<1>4. f = Floor(elements) /\ LowPart(elements, f, low) /\ after = low \o new
  BY <1>1, <1>3
<1>5. Stacked(elements, current, f, low, new, after)
  BY <1>2, <1>4, NewOperands
<1>6. Replaces(elements, current, f, after)
  BY <1>5 DEF Stacked
<1>. QED BY <1>1, <1>6, DeadGood

LEMMA BranchIfKeeps ==
  ASSUME GoodState, Len(elements') <= MaxElements, NEW i \in Instruction, BranchIf(i)
  PROVE  Preserved
<1>. DEFINE depth == i.labels[1]
            needed == Append(TargetTypes(depth), "i32")
            always == i.known = "true" /\ ~CurrentFrameIsUnreachable
            valid == Target(depth) # 0 /\ Holds(elements, needed)
            after == Below(needed) \o Front(Kept(needed))
            opened == IF always THEN FrameUnreachable ELSE Moved(1, 0)
<1>1. Decide(valid, after, current, opened) /\ i.op = "br_if"
  BY Zenon DEF BranchIf
<1>2. ASSUME valid, Len(after) <= MaxElements
      PROVE  StateGood(after, current, opened)
  <2>1. ListGood(elements, current)
    BY DEF GoodState, StateGood
  <2>2. PICK types, made, new, list :
          types = needed /\ made = Values(types) /\ new = Front(made) /\ list = Below(types) \o new
    OBVIOUS
  <2>3. depth \in Nat
    BY <1>1, LabelFacts
  <2>4. TargetTypes(depth) \in Seq(Number)
    BY <1>2, <2>1, <2>3, TargetTypesFacts
  <2>5. types \in Seq(Number) /\ Len(types) \in Nat \ {0}
    <3>1. /\ Append(TargetTypes(depth), "i32") \in Seq(Number)
          /\ Len(Append(TargetTypes(depth), "i32")) = Len(TargetTypes(depth)) + 1
      BY <2>4, KindFacts, AppendFacts
    <3>2. Len(TargetTypes(depth)) \in Nat
      BY <2>4, SeqFacts
    <3>. QED BY <2>2, <3>1, <3>2
  <2>6. Operands(made, elements[current]) /\ Len(made) = Len(types)
    BY <2>2, <2>5, MadeOperands
  <2>7. Operands(new, elements[current]) /\ Len(new) = Len(types) - 1
    <3>1. made # <<>>
      BY <2>5, <2>6, EmptySeq
    <3>. QED BY <2>2, <2>6, <3>1, FrontOperands
  <2>8. list = after
    BY <2>2 DEF Kept
  <2>. HIDE DEF after, needed, depth
  <2>9. Holds(elements, types) /\ Len(list) <= MaxElements /\ Len(types) \in Nat /\ list = Below(types) \o new
    BY <1>2, <2>2, <2>5, <2>8
  <2>10. StateGood(list, current, FrameUnreachable)
    BY <2>7, <2>9, PopPushDead
  <2>11. StateGood(list, current, Moved(1, 0))
    <3>1. 1 - 0 = Len(types) - Len(new) /\ 1 \in Int /\ 0 \in Int
      BY <2>5, <2>7
    <3>. QED BY <2>7, <2>9, <3>1, PopPush
  <2>12. StateGood(list, current, opened)
    BY <2>10, <2>11, Zenon
  <2>. QED BY <2>8, <2>12
<1>. HIDE DEF after, opened, valid
<1>. QED BY <1>1, <1>2, Decided

(***************************************************************************)
(* A block is opened.                                                      *)
(***************************************************************************)
Opens(list, last, low, after) ==
  LET c == Len(low) + 1
  IN  /\ after \in Seq(ElementType) /\ c <= Len(after)
      /\ \A k \in 1 .. Len(low) : after[k] = list[k]
      /\ after[c].kind \in Structural \ {"FUNC"} /\ after[c].prev = last
      /\ ~after[c].formallyUnreachable
      /\ \A k \in c + 1 .. Len(after) :
           \/ after[k].kind \in Number
           \/ after[k] = ElseFence /\ after[c].kind = "IF" /\ k = c + Len(after[c].type.params) + 1

\* Pushing a structural element and operands of known types on a good list, whose
\* end is cut back no further than the floor, leaves a good list.
LEMMA OpenList ==
  ASSUME NEW list, NEW last, ListGood(list, last), NEW f, f = Floor(list), NEW low, LowPart(list, f, low),
         NEW after, Opens(list, last, low, after), NEW c, c = Len(low) + 1
  PROVE  ListGood(after, c) /\ Encloses(after, last, c) /\ last \in 1 .. Len(low)
<1>1. /\ Len(list) \in Nat \ {0} /\ last \in 1 .. Len(list) /\ f \in last .. Len(list)
      /\ list[last].kind \in Structural
  BY ShapeFacts
<1>2. Len(low) \in f .. Len(list)
  BY DEF LowPart
<1>3. /\ after \in Seq(ElementType) /\ c <= Len(after)
      /\ \A k \in 1 .. Len(low) : after[k] = list[k]
      /\ after[c].kind \in Structural \ {"FUNC"} /\ after[c].prev = last
      /\ \A k \in c + 1 .. Len(after) :
           \/ after[k].kind \in Number
           \/ after[k] = ElseFence /\ after[c].kind = "IF" /\ k = c + Len(after[c].type.params) + 1
  BY DEF Opens
<1>4. /\ list[1].kind = "FUNC" /\ list[1].prev = 0
      /\ Encloses(list, last, Len(list) + 1)
      /\ \A k \in 2 .. Len(list) : WellPlaced(list, k)
      /\ \A j, k \in 1 .. Len(list) :
           list[k].kind = "any" /\ Encloses(list, j, k) => list[j].formallyUnreachable
  BY DEF ListGood
<1>5. Len(low) \in Nat /\ c \in Nat /\ Len(after) \in Nat /\ last \in 1 .. Len(low) /\ Len(low) <= Len(list) /\ c \in 1 .. Len(after)
  BY <1>1, <1>2, <1>3, SeqFacts
<1>6. Alike(list, after, Len(low))
  BY <1>3 DEF Alike
<1>7. ElseFence.kind = "ELSE_FENCE"
  BY DEF ElseFence, Element
<1>8. \A k \in c + 1 .. Len(after) :
        after[k].kind \notin Structural /\ after[k].kind # "FUNC" /\ after[k].kind # "any"
  BY <1>3, <1>7, KindFacts DEF Structural
<1>9. Encloses(after, last, c)
  <2>1. \A l \in last + 1 .. c - 1 : l \in last + 1 .. Len(list) /\ l \in 1 .. Len(low)
    BY <1>1, <1>5
  <2>2. \A l \in last + 1 .. Len(list) : list[l].kind \notin Structural
    BY <1>1, <1>4 DEF Encloses
  <2>. QED BY <1>1, <1>3, <1>5, <2>1, <2>2 DEF Encloses
<1>10. Encloses(after, c, Len(after) + 1)
  BY <1>3, <1>5, <1>8 DEF Encloses
<1>11. ASSUME NEW k \in 2 .. Len(after) PROVE WellPlaced(after, k)
  <2>1. CASE k \in 1 .. Len(low)
    <3>1. WellPlaced(list, k)
      BY <1>4, <1>5, <2>1
    <3>. QED BY <1>5, <1>6, <2>1, <3>1, WellPlacedAlike
  <2>2. CASE k = c
    <3>1. after[c].kind # "ELSE_FENCE"
      BY <1>3, KindFacts
    <3>. QED BY <1>3, <1>9, <2>2, <3>1 DEF WellPlaced
  <2>3. CASE k \in c + 1 .. Len(after)
    <3>1. ASSUME after[k].kind = "ELSE_FENCE"
          PROVE  /\ after[k] = ElseFence
                 /\ \E j \in 1 .. k - 1 :
                      /\ after[j].kind = "IF" /\ k = j + Len(after[j].type.params) + 1
                      /\ \A l \in j + 1 .. k - 1 : after[l].kind \in Number
      <4>1. /\ after[k] = ElseFence /\ after[c].kind = "IF" /\ k = c + Len(after[c].type.params) + 1
        BY <1>3, <2>3, <3>1, KindFacts
      <4>2. \A l \in c + 1 .. k - 1 : after[l].kind \in Number
        <5>. TAKE l \in c + 1 .. k - 1
        <5>1. l \in c + 1 .. Len(after) /\ l # k
          BY <1>5, <2>3
        <5>. QED BY <1>3, <4>1, <5>1
      <4>3. c \in 1 .. k - 1
        BY <1>5, <2>3
      <4>. QED BY <4>1, <4>2, <4>3
    <3>2. after[k].kind # "FUNC" /\ after[k].kind \notin Structural
      BY <1>8, <2>3
    <3>. QED BY <3>1, <3>2, Zenon DEF WellPlaced
  <2>. QED BY <1>5, <2>1, <2>2, <2>3
<1>12. ASSUME NEW j \in 1 .. Len(after), NEW k \in 1 .. Len(after), after[k].kind = "any", Encloses(after, j, k)
       PROVE  after[j].formallyUnreachable
  <2>1. k \in 1 .. Len(low)
    <3>1. k # c
      BY <1>3, <1>12, KindFacts
    <3>2. k \notin c + 1 .. Len(after)
      BY <1>8, <1>12
    <3>. QED BY <1>5, <3>1, <3>2
  <2>2. j \in 1 .. k - 1
    BY <1>12 DEF Encloses
  <2>3. j \in 1 .. Len(low) /\ j \in 1 .. Len(list) /\ k \in 1 .. Len(list) /\ k \in 1 .. Len(low) + 1
    BY <1>5, <2>1, <2>2
  <2>4. Encloses(list, j, k)
    BY <1>5, <1>6, <1>12, <2>3, EnclosesAlike
  <2>5. list[k].kind = "any"
    BY <1>3, <1>12, <2>1
  <2>6. list[j].formallyUnreachable
    BY <1>4, <2>3, <2>4, <2>5
  <2>. QED BY <1>3, <2>3, <2>6
<1>13. after[1].kind = "FUNC" /\ after[1].prev = 0
  BY <1>3, <1>4, <1>5
<1>14. ListGood(after, c)
  BY <1>3, <1>5, <1>10, <1>11, <1>12, <1>13 DEF ListGood
<1>. QED BY <1>5, <1>9, <1>14

Surrounds(opened, opened2, count) ==
  LET m == Len(opened)
  IN  /\ opened2 \in Seq(BlockType) /\ Len(opened2) > m
      /\ \A k \in 1 .. m - 1 : opened2[k] = opened[k]
      /\ opened2[m].kind = opened[m].kind /\ opened2[m].type = opened[m].type
      /\ opened2[m].unreachable = opened[m].unreachable
      /\ opened2[m].unreachable \/ opened2[m].count = count
      /\ opened2[m + 1].kind # "IFBLOCK"

Around2(after, opened2, q, m) ==
  /\ q[1] = 1
  /\ \A k \in 1 .. m : q[k] = Around(after, opened2, k, q[k + 1])
  /\ \A k \in 1 .. m : Agrees(after, opened2, q, k)

\* The blocks around the new one.
LEMMA OpenAround ==
  ASSUME NEW list, NEW last, ListGood(list, last), NEW f, f = Floor(list), NEW low, LowPart(list, f, low),
         NEW after, Opens(list, last, low, after), NEW c, c = Len(low) + 1,
         NEW opened \in Seq(BlockType), opened # <<>>, NEW p, Placed(list, last, opened, p),
         NEW m, m = Len(opened), NEW opened2, Surrounds(opened, opened2, Len(low) - f),
         NEW q, \A k \in 1 .. m : q[k] = p[k], q[m + 1] = c
  PROVE  Around2(after, opened2, q, m)
<1>0. /\ opened2 \in Seq(BlockType) /\ Len(opened2) > m
      /\ \A k \in 1 .. m - 1 : opened2[k] = opened[k]
      /\ opened2[m].kind = opened[m].kind /\ opened2[m].type = opened[m].type
      /\ opened2[m].unreachable = opened[m].unreachable
      /\ opened2[m].unreachable \/ opened2[m].count = Len(low) - f
      /\ opened2[m + 1].kind # "IFBLOCK"
  BY DEF Surrounds
<1>1. /\ Len(list) \in Nat \ {0} /\ last \in 1 .. Len(list) /\ f \in last .. Len(list)
      /\ f # last => list[f].kind = "ELSE_FENCE"
      /\ \A k \in f + 1 .. Len(list) : IsNumber(list[k])
      /\ ~IsNumber(list[f])
  BY ShapeFacts
<1>2. /\ Len(low) \in f .. Len(list) /\ low \in Seq(ElementType) /\ \A k \in 1 .. Len(low) : low[k] = list[k]
  BY DEF LowPart
<1>3. /\ after \in Seq(ElementType) /\ c <= Len(after)
      /\ \A k \in 1 .. Len(low) : after[k] = list[k]
      /\ after[c].prev = last
  BY DEF Opens
<1>4. /\ Len(low) \in Nat /\ c \in Nat /\ Len(after) \in Nat /\ last \in 1 .. Len(low) /\ Len(low) <= Len(list)
      /\ Len(low) <= Len(after) /\ f \in last .. Len(low)
  BY <1>1, <1>2, <1>3, SeqFacts
<1>5. Alike(list, after, Len(low))
  BY <1>3 DEF Alike
<1>6. m \in Nat \ {0} /\ m \in 1 .. m /\ Len(opened2) \in Nat
  BY <1>0, OpenedFacts, SeqFacts
<1>7. /\ p[m] = last /\ p[1] = 1
      /\ \A k \in 1 .. m - 1 : p[k] = Around(list, opened, k, p[k + 1])
      /\ \A k \in 1 .. m : Agrees(list, opened, p, k)
  BY Zenon DEF Placed
<1>8. /\ \A k \in 1 .. m : p[k] \in 1 .. last
      /\ \A k \in 1 .. m - 1 : IF Waits(opened, k) THEN p[k] = p[k + 1] ELSE p[k] \in 1 .. p[k + 1] - 1
  <2>1. last \in Nat \ {0}
    BY <1>1
  <2>. QED BY <1>6, <1>7, <2>1, PlacesGrow
<1>9. list \in Seq(ElementType)
  BY DEF ListGood
<1>10. \A k \in 1 .. m : opened2[k].kind = opened[k].kind
  BY <1>0, <1>6, SMTT(60)
<1>11. ASSUME NEW k \in 1 .. m - 1 PROVE q[k] = Around(after, opened2, k, q[k + 1]) /\ Agrees(after, opened2, q, k)
  <2>1. k + 1 \in 1 .. m /\ k \in 1 .. m /\ k \in Nat \ {0} /\ k < m /\ k < Len(opened2)
    BY <1>0, <1>6
  <2>2. /\ p[k] \in 1 .. Len(low) /\ p[k + 1] \in 1 .. Len(low) /\ p[k + 1] - 1 \in 0 .. Len(low)
        /\ q[k] = p[k] /\ q[k + 1] = p[k + 1]
    <3>1. \A j \in 1 .. m : p[j] \in 1 .. Len(low) /\ p[j] - 1 \in 0 .. Len(low) /\ q[j] = p[j]
      <4>1. \A v \in 1 .. last : v \in 1 .. Len(low) /\ v - 1 \in 0 .. Len(low)
        BY <1>4
      <4>. QED BY <1>8, <4>1, Zenon
    <3>. QED BY <2>1, <3>1, Zenon
  <2>3. q[k] = Around(after, opened2, k, q[k + 1])
    <3>1. after[p[k + 1]] = list[p[k + 1]]
      BY <1>3, <2>2
    <3>2. opened2[k + 1].kind = opened[k + 1].kind
      BY <1>10, <2>1
    <3>3. p[k] = Around(list, opened, k, p[k + 1])
      BY <1>7
    <3>. QED BY <2>2, <3>1, <3>2, <3>3, Zenon DEF Around
  <2>4. Waits(opened2, k) = Waits(opened, k)
    BY <1>0, <1>6, <1>10, <2>1 DEF Waits
  <2>5. after[p[k]].formallyUnreachable = list[p[k]].formallyUnreachable
    BY <1>3, <2>2
  <2>6. Agrees(list, opened, p, k) /\ opened2[k] = opened[k] /\ Len(opened) \in Nat /\ k < Len(opened)
    BY <1>0, <1>6, <1>7, <2>1
  <2>7. Agrees(after, opened2, q, k)
    <3>1. PICK n \in Nat : n = Len(low)
      BY <1>4
    <3>2. /\ n <= Len(list) /\ n <= Len(after) /\ Alike(list, after, n) /\ after \in Seq(ElementType)
          /\ p[k] \in 1 .. n /\ p[k + 1] - 1 \in 0 .. n
      BY <1>3, <1>4, <1>5, <2>2, <3>1
    <3>3. k \in Nat \ {0} /\ k < Len(opened2) /\ Len(opened2) \in Nat /\ q[k] = p[k] /\ q[k + 1] = p[k + 1]
      BY <1>6, <2>1, <2>2
    <3>. QED BY <1>9, <2>4, <2>5, <2>6, <3>2, <3>3, AroundAgree
  <2>. QED BY <2>3, <2>7
<1>12. q[m] = Around(after, opened2, m, q[m + 1])
  BY <1>0, <1>3, <1>6, <1>7, Zenon DEF Around
<1>13. Agrees(after, opened2, q, m)
  <2>1. /\ opened[m].type = list[last].type
        /\ opened[m].kind = IF list[last].kind # "IF" THEN list[last].kind
                            ELSE IF opened[m].kind = "IFBLOCK" THEN "IFBLOCK" ELSE "BLOCK"
        /\ opened[m].kind = "IFBLOCK" <=> f # last
        /\ list[last].formallyUnreachable => opened[m].unreachable
    BY <1>6, <1>7, LastFacts
  <2>2. after[last] = list[last]
    BY <1>3, <1>4
  <2>3. (\E l \in last + 1 .. Len(low) : after[l].kind = "ELSE_FENCE") <=> f # last
    <3>1. \A l \in f + 1 .. Len(list) : list[l].kind # "ELSE_FENCE"
      BY <1>1, KindFacts DEF IsNumber
    <3>2. ASSUME NEW l \in last + 1 .. Len(low), after[l].kind = "ELSE_FENCE" PROVE f # last
      <4>1. l \in 1 .. Len(low) /\ l \in last + 1 .. Len(list)
        BY <1>4
      <4>2. list[l].kind = "ELSE_FENCE"
        BY <1>3, <3>2, <4>1
      <4>. QED BY <1>1, <3>1, <4>1, <4>2
    <3>3. f # last => f \in last + 1 .. Len(low) /\ after[f].kind = "ELSE_FENCE"
      BY <1>1, <1>3, <1>4
    <3>. QED BY <3>2, <3>3
  <2>4. Floor(Keep(after, Len(low))) = f
    <3>1. Len(low) \in 0 .. Len(after) /\ f \in 1 .. Len(low)
      BY <1>4
    <3>2. /\ Len(Keep(after, Len(low))) = Len(low)
          /\ \A k \in 1 .. Len(low) : Keep(after, Len(low))[k] = after[k]
      BY <1>3, <3>1, KeepFacts
    <3>3. ~IsNumber(after[f]) /\ \A k \in f + 1 .. Len(low) : IsNumber(after[k])
      <4>1. \A k \in f + 1 .. Len(low) : k \in f + 1 .. Len(list) /\ k \in 1 .. Len(low)
        BY <1>4
      <4>. QED BY <1>1, <1>3, <3>1, <4>1
    <3>4. \A k \in f + 1 .. Len(low) : k \in 1 .. Len(low)
      BY <1>4
    <3>5. PICK kept : kept = Keep(after, Len(low))
      OBVIOUS
    <3>6. Len(kept) = Len(low) /\ ~IsNumber(kept[f]) /\ \A k \in f + 1 .. Len(low) : IsNumber(kept[k])
      BY <3>1, <3>2, <3>3, <3>4, <3>5
    <3>. QED BY <1>4, <3>1, <3>5, <3>6, FloorIs
  <2>5. Encloses(after, last, Len(low) + 1)
    BY OpenList
  <2>6. opened2[m].kind = "IFBLOCK" <=> \E l \in last + 1 .. Len(low) : after[l].kind = "ELSE_FENCE"
    BY <1>0, <2>1, <2>3, Zenon
  <2>7. Matches(after, opened2[m], last, Len(low), FALSE)
    BY <1>0, <2>1, <2>2, <2>4, <2>5, <2>6, Zenon DEF Matches
  <2>8. Waits(opened2, m) = FALSE
    BY <1>0 DEF Waits
  <2>9. EndOf(after, opened2, q, m) = Len(low)
    <3>1. m # Len(opened2) /\ (Len(low) + 1) - 1 = Len(low)
      BY <1>0, <1>4, <1>6
    <3>. QED BY <3>1 DEF EndOf
  <2>10. q[m] = last
    BY <1>6, <1>7
  <2>. QED BY <2>7, <2>8, <2>9, <2>10, Zenon DEF Agrees
<1>14. q[1] = 1
  BY <1>6, <1>7
<1>15. \A k \in 1 .. m : k = m \/ k \in 1 .. m - 1
  BY <1>6
<1>. QED BY <1>11, <1>12, <1>13, <1>14, <1>15, Zenon DEF Around2

\* A block or a loop.
LEMMA OpenedBlock ==
  ASSUME NEW list, NEW last, NEW opened, StateGood(list, last, opened), NEW f, f = Floor(list),
         NEW low, LowPart(list, f, low), NEW after, Opens(list, last, low, after), NEW c, c = Len(low) + 1,
         NEW opened2, Surrounds(opened, opened2, Len(low) - f), NEW m, m = Len(opened), Len(opened2) = m + 1,
         after[c].kind \in {"BLOCK", "LOOP"},
         opened2[m + 1].kind = after[c].kind, opened2[m + 1].type = after[c].type,
         opened2[m + 1].unreachable \/ opened2[m + 1].count = Len(after) - c
  PROVE  StateGood(after, c, opened2)
<1>1. ListGood(list, last) /\ opened \in Seq(BlockType) /\ opened # <<>>
  BY Zenon DEF StateGood, BlocksGood
<1>2. PICK p : Placed(list, last, opened, p)
  BY Zenon DEF StateGood, BlocksGood
<1>0. Len(low) \in Nat /\ c \in Nat
  BY SeqFacts DEF LowPart
<1>3. m \in Nat \ {0}
  BY <1>1, OpenedFacts
<1>4. /\ opened2 \in Seq(BlockType) /\ Len(opened2) > m
      /\ \A k \in 1 .. m - 1 : opened2[k] = opened[k]
      /\ opened2[m].kind = opened[m].kind /\ opened2[m].type = opened[m].type
      /\ opened2[m].unreachable = opened[m].unreachable
      /\ opened2[m].unreachable \/ opened2[m].count = Len(low) - f
      /\ opened2[m + 1].kind # "IFBLOCK"
  BY DEF Surrounds
<1>5. PICK q : q = [k \in 1 .. m + 1 |-> IF k <= m THEN p[k] ELSE c]
  OBVIOUS
<1>6. (\A k \in 1 .. m : q[k] = p[k]) /\ q[m + 1] = c
  BY <1>3, <1>5
<1>7. /\ q[1] = 1
      /\ \A k \in 1 .. m : q[k] = Around(after, opened2, k, q[k + 1])
      /\ \A k \in 1 .. m : Agrees(after, opened2, q, k)
  <2>1. Around2(after, opened2, q, m)
    BY <1>1, <1>2, <1>6, OpenAround
  <2>. QED BY <2>1, Zenon DEF Around2
<1>8. ListGood(after, c)
  BY <1>1, OpenList
<1>9. /\ Floor(after) = c /\ Encloses(after, c, Len(after) + 1)
      /\ ~ \E k \in c + 1 .. Len(after) : after[k].kind = "ELSE_FENCE"
      /\ ~after[c].formallyUnreachable /\ after \in Seq(ElementType) /\ Len(after) \in Nat /\ c \in 1 .. Len(after)
  <2>1. /\ after \in Seq(ElementType) /\ ~after[c].formallyUnreachable
        /\ \A k \in c + 1 .. Len(after) : after[k].kind \in Number
    BY DEF Opens
  <2>2. /\ Floor(after) \in c .. Len(after) /\ c \in 1 .. Len(after) /\ Len(after) \in Nat \ {0}
        /\ ~IsNumber(after[Floor(after)])
    BY <1>8, ShapeFacts
  <2>3. \A k \in c + 1 .. Len(after) : IsNumber(after[k]) /\ after[k].kind # "ELSE_FENCE"
    BY <2>1, KindFacts DEF IsNumber
  <2>4. Floor(after) = c
    BY <2>2, <2>3
  <2>. QED BY <1>8, <2>1, <2>2, <2>3, <2>4 DEF ListGood
<1>10. Floor(Keep(after, Len(after))) = c
  <2>1. Len(after) \in 0 .. Len(after)
    BY <1>9
  <2>2. /\ Len(Keep(after, Len(after))) = Len(after)
        /\ \A k \in 1 .. Len(after) : Keep(after, Len(after))[k] = after[k]
    BY <1>9, <2>1, KeepFacts
  <2>. QED BY <1>9, <2>2, FloorSame
<1>11. Matches(after, opened2[m + 1], c, Len(after), FALSE)
  <2>1. after[c].kind # "IF" /\ opened2[m + 1].kind # "IFBLOCK"
    BY <1>4
  <2>. QED BY <1>9, <1>10, <2>1, Zenon DEF Matches
<1>12. Agrees(after, opened2, q, m + 1)
  <2>1. Waits(opened2, m + 1) = FALSE /\ EndOf(after, opened2, q, m + 1) = Len(after)
    BY <1>3 DEF Waits, EndOf
  <2>. QED BY <1>6, <1>11, <2>1, Zenon DEF Agrees
<1>13. \A k \in 1 .. m + 1 : k = m + 1 \/ k \in 1 .. m
  BY <1>3
<1>14. (m + 1) - 1 = m /\ opened2 # <<>>
  BY <1>3, <1>4, SeqFacts
<1>15. Placed(after, c, opened2, q)
  BY <1>6, <1>7, <1>12, <1>13, <1>14, Zenon DEF Placed
<1>. QED BY <1>4, <1>8, <1>14, <1>15, Zenon DEF StateGood, BlocksGood

\* Both copies of the parameters of an if, and the fence between them.
IfShape(after, c, n) ==
  /\ after[c].kind = "IF" /\ n \in Nat /\ n = Len(after[c].type.params)
  /\ Len(after) = (c + n + 1) + n /\ after[c + n + 1] = ElseFence

IfFence(after, c, n, d) ==
  /\ d \in c + 1 .. Len(after) /\ Len(after) - d = n /\ d = c + Len(after[c].type.params) + 1
  /\ after[d] = ElseFence /\ after[d].kind = "ELSE_FENCE"

LEMMA IfShapeFacts ==
  ASSUME NEW after, NEW c \in Nat \ {0}, NEW n, IfShape(after, c, n)
  PROVE  /\ Len(after) \in Nat /\ n \in Nat
         /\ IfFence(after, c, n, c + n + 1)
<1>1. n \in Nat /\ Len(after) = (c + n + 1) + n /\ after[c + n + 1] = ElseFence /\ n = Len(after[c].type.params)
  BY DEF IfShape
<1>2. Len(after) \in Nat
  BY <1>1
<1>3. c + n + 1 \in c + 1 .. Len(after) /\ Len(after) - (c + n + 1) = n
  BY <1>1
<1>4. after[c + n + 1].kind = "ELSE_FENCE"
  BY <1>1 DEF ElseFence, Element
<1>. QED BY <1>1, <1>2, <1>3, <1>4, Zenon DEF IfFence

\* An if, with its two blocks.
LEMMA OpenedIf ==
  ASSUME NEW list, NEW last, NEW opened, StateGood(list, last, opened), NEW f, f = Floor(list),
         NEW low, LowPart(list, f, low), NEW after, Opens(list, last, low, after), NEW c, c = Len(low) + 1,
         NEW opened2, Surrounds(opened, opened2, Len(low) - f), NEW m, m = Len(opened), Len(opened2) = m + 2,
         NEW n, IfShape(after, c, n),
         opened2[m + 1].kind = "BLOCK", opened2[m + 1].type = after[c].type,
         opened2[m + 1].unreachable \/ opened2[m + 1].count = n,
         opened2[m + 2].kind = "IFBLOCK", opened2[m + 2].type = after[c].type,
         opened2[m + 2].unreachable \/ opened2[m + 2].count = n
  PROVE  StateGood(after, c, opened2)
<1>1. ListGood(list, last) /\ opened \in Seq(BlockType) /\ opened # <<>>
  BY Zenon DEF StateGood, BlocksGood
<1>2. PICK p : Placed(list, last, opened, p)
  BY Zenon DEF StateGood, BlocksGood
<1>0. Len(low) \in Nat /\ c \in Nat
  BY SeqFacts DEF LowPart
<1>3. m \in Nat \ {0}
  BY <1>1, OpenedFacts
<1>4. /\ opened2 \in Seq(BlockType) /\ Len(opened2) > m
      /\ \A k \in 1 .. m - 1 : opened2[k] = opened[k]
      /\ opened2[m].kind = opened[m].kind /\ opened2[m].type = opened[m].type
      /\ opened2[m].unreachable = opened[m].unreachable
      /\ opened2[m].unreachable \/ opened2[m].count = Len(low) - f
      /\ opened2[m + 1].kind # "IFBLOCK"
  BY DEF Surrounds
<1>5. PICK q : q = [k \in 1 .. m + 2 |-> IF k <= m THEN p[k] ELSE c]
  OBVIOUS
<1>6. (\A k \in 1 .. m : q[k] = p[k]) /\ q[m + 1] = c /\ q[m + 2] = c
  BY <1>3, <1>5
<1>7. /\ q[1] = 1
      /\ \A k \in 1 .. m : q[k] = Around(after, opened2, k, q[k + 1])
      /\ \A k \in 1 .. m : Agrees(after, opened2, q, k)
  <2>1. Around2(after, opened2, q, m)
    BY <1>1, <1>2, <1>6, OpenAround
  <2>. QED BY <2>1, Zenon DEF Around2
<1>8. ListGood(after, c)
  BY <1>1, OpenList
<1>9. /\ c \in Nat \ {0} /\ Len(after) \in Nat /\ n \in Nat /\ after[c].kind = "IF"
      /\ n = Len(after[c].type.params)
  <2>1. c \in Nat \ {0}
    BY <1>0
  <2>2. Len(after) \in Nat
    BY <2>1, IfShapeFacts, Zenon
  <2>. QED BY <2>1, <2>2, Zenon DEF IfShape
<1>20. PICK d : d = c + n + 1
  OBVIOUS
<1>18. IfFence(after, c, n, d)
  <2>1. c \in Nat \ {0}
    BY <1>9
  <2>2. IfFence(after, c, n, c + n + 1)
    BY <2>1, IfShapeFacts, Zenon
  <2>. QED BY <1>20, <2>2, Zenon
<1>10. /\ Floor(after) = d /\ Encloses(after, c, Len(after) + 1)
       /\ ~after[c].formallyUnreachable /\ after \in Seq(ElementType) /\ c \in 1 .. Len(after)
  <2>1. /\ after \in Seq(ElementType) /\ ~after[c].formallyUnreachable
        /\ \A k \in c + 1 .. Len(after) :
             \/ after[k].kind \in Number
             \/ after[k] = ElseFence /\ after[c].kind = "IF" /\ k = c + Len(after[c].type.params) + 1
    BY DEF Opens
  <2>2. ~IsNumber(after[d])
    BY <1>18, KindFacts DEF IfFence, IsNumber
  <2>3. \A k \in c + 1 .. Len(after) : k # d => IsNumber(after[k])
    BY <1>18, <2>1, Zenon DEF IfFence, IsNumber
  <2>4. d \in 1 .. Len(after) /\ \A k \in d + 1 .. Len(after) : k \in c + 1 .. Len(after) /\ k # d
    <3>1. d \in c + 1 .. Len(after) /\ c \in Nat /\ Len(after) \in Nat
      BY <1>9, <1>18 DEF IfFence
    <3>. QED BY <3>1
  <2>5. Floor(after) = d
    BY <1>9, <2>2, <2>3, <2>4, FloorIs
  <2>. QED BY <1>8, <2>1, <2>5 DEF ListGood
<1>11. Floor(Keep(after, Len(after))) = d
  <2>1. Len(after) \in 0 .. Len(after)
    BY <1>9
  <2>2. /\ Len(Keep(after, Len(after))) = Len(after)
        /\ \A k \in 1 .. Len(after) : Keep(after, Len(after))[k] = after[k]
    BY <1>10, <2>1, KeepFacts
  <2>. QED BY <1>9, <1>10, <2>2, FloorSame
<1>12. Agrees(after, opened2, q, m + 2)
  <2>1. Matches(after, opened2[m + 2], c, Len(after), FALSE)
    BY <1>9, <1>10, <1>11, <1>18, Zenon DEF IfFence, Matches
  <2>2. Waits(opened2, m + 2) = FALSE /\ EndOf(after, opened2, q, m + 2) = Len(after)
    BY <1>3 DEF Waits, EndOf
  <2>. QED BY <1>6, <2>1, <2>2, Zenon DEF Agrees
<1>13. Agrees(after, opened2, q, m + 1)
  <2>1. m + 1 < Len(opened2) /\ (m + 1) + 1 = m + 2
    BY <1>3
  <2>2. Waits(opened2, m + 1) = TRUE
    BY <2>1 DEF Waits
  <2>3. \A end : Matches(after, opened2[m + 1], c, end, TRUE)
    BY <1>9, Zenon DEF Matches
  <2>. QED BY <1>6, <2>2, <2>3, Zenon DEF Agrees
<1>14. q[m + 1] = Around(after, opened2, m + 1, q[(m + 1) + 1])
  <2>1. (m + 1) + 1 = m + 2
    BY <1>3
  <2>. QED BY <1>6, <2>1, Zenon DEF Around
<1>15. \A k \in 1 .. m + 2 : k = m + 2 \/ k = m + 1 \/ k \in 1 .. m
  BY <1>3
<1>16. (\A k \in 1 .. Len(opened2) - 1 : k = m + 1 \/ k \in 1 .. m) /\ opened2 # <<>>
  BY <1>3, <1>4, SeqFacts
<1>17. Placed(after, c, opened2, q)
  BY <1>6, <1>7, <1>12, <1>13, <1>14, <1>15, <1>16, Zenon DEF Placed
<1>. QED BY <1>4, <1>8, <1>16, <1>17, Zenon DEF StateGood, BlocksGood

\* A sequence of n elements of numeric types.
Numbers(new, n) ==
  new \in Seq(ElementType) /\ n \in Nat /\ Len(new) = n /\ \A k \in 1 .. n : new[k].kind \in Number

LEMMA MadeNumbers ==
  ASSUME NEW types \in Seq(Number)
  PROVE  Numbers(Values(types), Len(types)) /\ Len(types) \in Nat
<1>1. types \in Seq(Number \union {"any"}) /\ \A k \in 1 .. Len(types) : types[k] \in Number
  BY SeqFacts
<1>. QED BY <1>1, ValuesFacts DEF Numbers

\* The element of a new block.
LEMMA NewElement ==
  ASSUME NEW kind \in Structural, NEW type \in Type, NEW prev \in 0 .. MaxElements, NEW e, e = Element(kind, type, prev)
  PROVE  e \in ElementType /\ e.kind = kind /\ e.type = type /\ e.prev = prev /\ ~e.formallyUnreachable
  BY DEF Element, ElementType

LEMMA FenceElement ==
  ElseFence \in ElementType /\ ElseFence.kind = "ELSE_FENCE"
  BY TypeFacts, BoundAssumption DEF ElseFence, Element, ElementType

\* The sequence u has the a elements of s and then the b elements of t.
Joined(s, a, t, b, u) ==
  /\ Len(u) = a + b
  /\ \A k \in 1 .. a : u[k] = s[k]
  /\ \A k \in 1 .. b : u[a + k] = t[k]

LEMMA JoinFacts ==
  ASSUME NEW S, NEW s \in Seq(S), NEW a \in Nat, Len(s) = a, NEW t \in Seq(S), NEW b \in Nat, Len(t) = b
  PROVE  s \o t \in Seq(S) /\ Joined(s, a, t, b, s \o t)
<1>1. /\ s \o t \in Seq(S) /\ Len(s \o t) = a + b
      /\ \A k \in 1 .. a : (s \o t)[k] = s[k]
      /\ \A k \in a + 1 .. a + b : (s \o t)[k] = t[k - a]
  BY ConcatFacts
<1>2. ASSUME NEW k \in 1 .. b PROVE (s \o t)[a + k] = t[k]
  <2>1. a + k \in a + 1 .. a + b /\ (a + k) - a = k
    OBVIOUS
  <2>. QED BY <1>1, <2>1
<1>. QED BY <1>1, <1>2 DEF Joined

LEMMA JoinOne ==
  ASSUME NEW S, NEW s \in Seq(S), NEW a \in Nat, Len(s) = a, NEW e \in S
  PROVE  Append(s, e) \in Seq(S) /\ Joined(s, a, <<e>>, 1, Append(s, e)) /\ Append(s, e)[a + 1] = e
<1>1. /\ Append(s, e) \in Seq(S) /\ Len(Append(s, e)) = a + 1
      /\ \A k \in 1 .. a : Append(s, e)[k] = s[k]
      /\ Append(s, e)[a + 1] = e
  BY AppendFacts
<1>2. <<e>>[1] = e /\ \A k \in 1 .. 1 : k = 1
  OBVIOUS
<1>. QED BY <1>1, <1>2 DEF Joined

IsInserted(low, e, new, after) == after = Append(low, e) \o new
IsIfInserted(low, e, new, after) == after = Append(low, e) \o new \o <<ElseFence>> \o new

\* What is inserted above the low part of a list: the element of a block, with
\* its parameters above it.
Holding(low, a, e, new, n, after) ==
  /\ Len(after) = (a + 1) + n
  /\ \A k \in 1 .. a : after[k] = low[k]
  /\ after[a + 1] = e
  /\ \A k \in 1 .. n : after[(a + 1) + k] = new[k]

\* What is pushed for a block is the list cut back, the structural element and
\* the parameters; for an if the parameters, a fence and the parameters again.
LEMMA InsertedParts ==
  ASSUME NEW S, NEW low \in Seq(S), NEW a \in Nat, Len(low) = a, NEW e \in S,
         NEW new \in Seq(S), NEW n \in Nat, Len(new) = n
  PROVE  Append(low, e) \o new \in Seq(S) /\ Holding(low, a, e, new, n, Append(low, e) \o new)
<1>1. PICK s : s = Append(low, e)
  OBVIOUS
<1>2. PICK c \in Nat : c = a + 1
  OBVIOUS
<1>3. s \in Seq(S) /\ Joined(low, a, <<e>>, 1, s) /\ s[c] = e
  BY <1>1, <1>2, JoinOne
<1>4. Len(s) = c /\ \A k \in 1 .. a : s[k] = low[k]
  BY <1>2, <1>3 DEF Joined
<1>5. s \o new \in Seq(S) /\ Joined(s, c, new, n, s \o new)
  BY <1>3, <1>4, JoinFacts
<1>6. PICK u : u = s \o new
  OBVIOUS
<1>7. u \in Seq(S) /\ Joined(s, c, new, n, u)
  BY <1>5, <1>6
<1>8. Len(u) = c + n /\ (\A k \in 1 .. c : u[k] = s[k]) /\ \A k \in 1 .. n : u[c + k] = new[k]
  BY <1>7 DEF Joined
<1>9. c \in 1 .. c /\ \A k \in 1 .. a : k \in 1 .. c
  BY <1>2
<1>10. (\A k \in 1 .. a : u[k] = low[k]) /\ u[c] = e
  BY <1>3, <1>4, <1>8, <1>9, Zenon
<1>11. Holding(low, a, e, new, n, u)
  BY <1>2, <1>8, <1>10 DEF Holding
<1>. QED BY <1>1, <1>6, <1>7, <1>11

HoldingIf(low, a, e, new, n, after) ==
  /\ Len(after) = (a + 1 + n + 1) + n
  /\ \A k \in 1 .. a : after[k] = low[k]
  /\ after[a + 1] = e /\ after[a + 1 + n + 1] = ElseFence
  /\ \A k \in 1 .. n : after[(a + 1) + k] = new[k] /\ after[(a + 1 + n + 1) + k] = new[k]

LEMMA InsertedIfParts ==
  ASSUME NEW S, ElseFence \in S, NEW low \in Seq(S), NEW a \in Nat, Len(low) = a, NEW e \in S,
         NEW new \in Seq(S), NEW n \in Nat, Len(new) = n
  PROVE  /\ Append(low, e) \o new \o <<ElseFence>> \o new \in Seq(S)
         /\ HoldingIf(low, a, e, new, n, Append(low, e) \o new \o <<ElseFence>> \o new)
<1>1. PICK s : s = Append(low, e) \o new
  OBVIOUS
<1>2. PICK c \in Nat : c = a + 1
  OBVIOUS
<1>3. PICK b \in Nat : b = c + n
  OBVIOUS
<1>4. PICK d \in Nat : d = b + 1
  OBVIOUS
<1>5. PICK fence : fence = <<ElseFence>>
  OBVIOUS
<1>6. fence \in Seq(S) /\ Len(fence) = 1 /\ fence[1] = ElseFence
  BY <1>5
<1>7. s \in Seq(S) /\ Holding(low, a, e, new, n, s)
  BY <1>1, InsertedParts
<1>8. /\ Len(s) = b /\ (\A k \in 1 .. a : s[k] = low[k])
      /\ s[c] = e /\ \A k \in 1 .. n : s[c + k] = new[k]
  BY <1>2, <1>3, <1>7 DEF Holding
<1>9. s \o fence \in Seq(S) /\ Joined(s, b, fence, 1, s \o fence)
  <2>1. s \in Seq(S) /\ b \in Nat /\ Len(s) = b /\ fence \in Seq(S) /\ 1 \in Nat /\ Len(fence) = 1
    BY <1>6, <1>7, <1>8
  <2>. QED BY <2>1, JoinFacts, Zenon
<1>10. PICK t : t = s \o fence
  OBVIOUS
<1>11. t \in Seq(S) /\ Joined(s, b, fence, 1, t)
  BY <1>9, <1>10
<1>12. Len(t) = d /\ (\A k \in 1 .. b : t[k] = s[k]) /\ t[d] = ElseFence
  <2>1. 1 \in 1 .. 1
    OBVIOUS
  <2>. QED BY <1>4, <1>6, <1>11, <2>1 DEF Joined
<1>13. t \o new \in Seq(S) /\ Joined(t, d, new, n, t \o new)
  BY <1>11, <1>12, JoinFacts
<1>14. PICK u : u = t \o new
  OBVIOUS
<1>15. u \in Seq(S) /\ Joined(t, d, new, n, u)
  BY <1>13, <1>14
<1>16. Len(u) = d + n /\ (\A k \in 1 .. d : u[k] = t[k]) /\ \A k \in 1 .. n : u[d + k] = new[k]
  BY <1>15 DEF Joined
<1>17. /\ \A k \in 1 .. a : k \in 1 .. b /\ k \in 1 .. d
       /\ c \in 1 .. b /\ c \in 1 .. d /\ d \in 1 .. d
       /\ \A k \in 1 .. n : c + k \in 1 .. b /\ c + k \in 1 .. d
  BY <1>2, <1>3, <1>4
<1>18. /\ \A k \in 1 .. a : u[k] = low[k]
       /\ u[c] = e /\ u[d] = ElseFence /\ \A k \in 1 .. n : u[c + k] = new[k]
  BY <1>8, <1>12, <1>16, <1>17, Zenon
<1>19. d = a + 1 + n + 1
  BY <1>2, <1>3, <1>4
<1>20. HoldingIf(low, a, e, new, n, u)
  <2>1. /\ Len(u) = d + n
        /\ \A k \in 1 .. a : u[k] = low[k]
        /\ u[c] = e /\ u[d] = ElseFence
        /\ \A k \in 1 .. n : u[c + k] = new[k] /\ u[d + k] = new[k]
    BY <1>16, <1>18
  <2>2. c = a + 1
    BY <1>2
  <2>. QED BY <1>19, <2>1, <2>2, Zenon DEF HoldingIf
<1>. QED BY <1>1, <1>5, <1>10, <1>14, <1>15, <1>20

\* The position of the current element is a value of prev, because the list with
\* the new element above it is within the bound.
LEMMA ElementInserted ==
  ASSUME NEW list, NEW last, ListGood(list, last), NEW f, f = Floor(list), NEW low, LowPart(list, f, low),
         NEW kind \in Structural, NEW type \in Type, NEW e, e = Element(kind, type, last),
         NEW l \in Nat, Len(low) < l, l <= MaxElements
  PROVE  e \in ElementType /\ e.kind = kind /\ e.type = type /\ e.prev = last /\ ~e.formallyUnreachable
<1>1. last \in 1 .. Len(low) /\ Len(low) \in Nat
  BY LowOperands
<1>2. last \in 0 .. MaxElements
  BY <1>1, BoundAssumption
<1>. QED BY <1>2, NewElement

\* Both shapes open the list as OpenList requires.
LEMMA Inserted ==
  ASSUME NEW list, NEW last, ListGood(list, last), NEW f, f = Floor(list), NEW low, LowPart(list, f, low),
         NEW kind \in {"BLOCK", "LOOP"}, NEW type \in Type,
         NEW new, NEW n, Numbers(new, n),
         NEW after, IsInserted(low, Element(kind, type, last), new, after), Len(after) <= MaxElements
  PROVE  /\ Opens(list, last, low, after)
         /\ after[Len(low) + 1].kind = kind /\ after[Len(low) + 1].type = type
         /\ Len(after) = (Len(low) + 1) + n /\ Len(low) \in Nat /\ n \in Nat
<1>1. PICK e : e = Element(kind, type, last)
  OBVIOUS
<1>2. PICK S : S = ElementType \union {e}
  OBVIOUS
<1>3. new \in Seq(ElementType) /\ n \in Nat /\ Len(new) = n /\ \A k \in 1 .. n : new[k].kind \in Number
  BY DEF Numbers
<1>4. low \in Seq(ElementType) /\ Len(low) \in Nat /\ \A k \in 1 .. Len(low) : low[k] = list[k]
  BY SeqFacts DEF LowPart
<1>5. PICK a \in Nat : a = Len(low)
  BY <1>4
<1>6. low \in Seq(S) /\ new \in Seq(S) /\ e \in S
  BY <1>2, <1>3, <1>4
<1>7. Holding(low, a, e, new, n, after) /\ after = Append(low, e) \o new
  <2>1. after = Append(low, e) \o new
    BY <1>1, Zenon DEF IsInserted
  <2>2. Holding(low, a, e, new, n, Append(low, e) \o new)
    BY <1>3, <1>5, <1>6, InsertedParts
  <2>. QED BY <2>1, <2>2, Zenon
<1>8. /\ Len(after) = (a + 1) + n
      /\ \A k \in 1 .. a : after[k] = low[k]
      /\ after[a + 1] = e
      /\ \A k \in 1 .. n : after[(a + 1) + k] = new[k]
  BY <1>7, Zenon DEF Holding
<1>9. PICK c \in Nat : c = a + 1
  OBVIOUS
<1>10. e \in ElementType /\ e.kind = kind /\ e.type = type /\ e.prev = last /\ ~e.formallyUnreachable
  <2>1. Len(after) \in Nat /\ Len(low) < Len(after) /\ Len(after) <= MaxElements
    BY <1>3, <1>5, <1>8
  <2>. QED BY <1>1, <2>1, ElementInserted DEF Structural
<1>11. after \in Seq(ElementType)
  <2>1. e \in ElementType
    BY <1>10
  <2>. QED BY <1>3, <1>4, <1>7, <2>1, ConcatFacts, AppendFacts
<1>12. \A k \in c + 1 .. Len(after) : after[k].kind \in Number
  <2>1. ASSUME NEW k \in c + 1 .. Len(after) PROVE after[k].kind \in Number
    <3>1. PICK l \in 1 .. n : k = (a + 1) + l
      <4>1. k - (a + 1) \in 1 .. n /\ k = (a + 1) + (k - (a + 1))
        BY <1>3, <1>8, <1>9
      <4>. QED BY <4>1, Zenon
    <3>2. after[k] = new[l] /\ new[l].kind \in Number
      BY <1>3, <1>8, <3>1, Zenon
    <3>. QED BY <3>2
  <2>. QED BY <2>1
<1>13. kind \in Structural \ {"FUNC"}
  BY DEF Structural
<1>14. c <= Len(after)
  BY <1>3, <1>8, <1>9
<1>15. Len(low) + 1 = c /\ after[c] = e /\ \A k \in 1 .. Len(low) : after[k] = list[k]
  BY <1>4, <1>5, <1>8, <1>9, Zenon
<1>16. Opens(list, last, low, after)
  BY <1>10, <1>11, <1>12, <1>13, <1>14, <1>15, Zenon DEF Opens
<1>. QED BY <1>3, <1>4, <1>5, <1>8, <1>10, <1>15, <1>16, Zenon

LEMMA InsertedIf ==
  ASSUME NEW list, NEW last, ListGood(list, last), NEW f, f = Floor(list), NEW low, LowPart(list, f, low),
         NEW type \in Type, NEW new, NEW n, Numbers(new, n), n = Len(type.params),
         NEW after, IsIfInserted(low, Element("IF", type, last), new, after), Len(after) <= MaxElements
  PROVE  /\ Opens(list, last, low, after) /\ IfShape(after, Len(low) + 1, n)
         /\ after[Len(low) + 1].type = type /\ Len(low) \in Nat /\ n \in Nat
<1>1. PICK e : e = Element("IF", type, last)
  OBVIOUS
<1>2. PICK S : S = ElementType \union {e}
  OBVIOUS
<1>3. new \in Seq(ElementType) /\ n \in Nat /\ Len(new) = n /\ \A k \in 1 .. n : new[k].kind \in Number
  BY Zenon DEF Numbers
<1>4. low \in Seq(ElementType) /\ Len(low) \in Nat /\ \A k \in 1 .. Len(low) : low[k] = list[k]
  BY SeqFacts DEF LowPart
<1>5. PICK a \in Nat : a = Len(low)
  BY <1>4
<1>6. low \in Seq(S) /\ new \in Seq(S) /\ e \in S /\ ElseFence \in S
  BY <1>2, <1>3, <1>4, FenceElement
<1>7. HoldingIf(low, a, e, new, n, after) /\ after \in Seq(S)
  <2>1. after = Append(low, e) \o new \o <<ElseFence>> \o new
    BY <1>1, Zenon DEF IsIfInserted
  <2>2. /\ Append(low, e) \o new \o <<ElseFence>> \o new \in Seq(S)
        /\ HoldingIf(low, a, e, new, n, Append(low, e) \o new \o <<ElseFence>> \o new)
    BY <1>3, <1>5, <1>6, InsertedIfParts, Zenon
  <2>. QED BY <2>1, <2>2, Zenon
<1>8. PICK c \in Nat : c = a + 1
  OBVIOUS
<1>9. PICK m \in Nat : m = n
  BY <1>3
<1>10. PICK d \in Nat : d = c + m + 1
  OBVIOUS
<1>11. /\ Len(after) = d + m
       /\ \A k \in 1 .. a : after[k] = low[k]
       /\ after[c] = e /\ after[d] = ElseFence
       /\ \A k \in 1 .. m : after[c + k] = new[k] /\ after[d + k] = new[k]
  <2>1. d = a + 1 + n + 1 /\ c = a + 1 /\ m = n
    BY <1>8, <1>9, <1>10
  <2>. QED BY <1>7, <2>1, Zenon DEF HoldingIf
<1>12. e \in ElementType /\ e.kind = "IF" /\ e.type = type /\ e.prev = last /\ ~e.formallyUnreachable
  <2>1. Len(after) \in Nat /\ Len(low) < Len(after) /\ Len(after) <= MaxElements
    BY <1>5, <1>8, <1>10, <1>11
  <2>2. PICK kind \in Structural : kind = "IF"
    BY DEF Structural
  <2>3. e = Element(kind, type, last)
    BY <1>1, <2>2, Zenon
  <2>. QED BY <2>1, <2>2, <2>3, ElementInserted
<1>13. after \in Seq(ElementType)
  <2>1. S = ElementType
    BY <1>2, <1>12
  <2>. QED BY <1>7, <2>1
<1>14. ASSUME NEW k \in c + 1 .. Len(after), k # d PROVE after[k].kind \in Number
  <2>1. CASE k < d
    <3>1. PICK l \in 1 .. m : k = c + l
      <4>1. k - c \in 1 .. m /\ k = c + (k - c)
        BY <1>10, <2>1
      <4>. QED BY <4>1, Zenon
    <3>2. after[k] = new[l] /\ new[l].kind \in Number
      BY <1>3, <1>9, <1>11, <3>1, Zenon
    <3>. QED BY <3>2
  <2>2. CASE k > d
    <3>1. PICK l \in 1 .. m : k = d + l
      <4>1. k - d \in 1 .. m /\ k = d + (k - d)
        BY <1>11, <2>2
      <4>. QED BY <4>1, Zenon
    <3>2. after[k] = new[l] /\ new[l].kind \in Number
      BY <1>3, <1>9, <1>11, <3>1, Zenon
    <3>. QED BY <3>2
  <2>. QED BY <1>14, <2>1, <2>2
<1>15. "IF" \in Structural \ {"FUNC"} /\ c <= Len(after)
  BY <1>10, <1>11 DEF Structural
<1>16. after[c].kind = "IF" /\ after[c].type = type /\ after[c].prev = last /\ ~after[c].formallyUnreachable
  BY <1>11, <1>12, Zenon
<1>17. d = c + Len(after[c].type.params) + 1 /\ m = Len(after[c].type.params)
  <2>1. Len(after[c].type.params) = m
    BY <1>9, <1>16, Zenon
  <2>. QED BY <1>10, <2>1
<1>18. \A k \in c + 1 .. Len(after) :
           \/ after[k].kind \in Number
           \/ after[k] = ElseFence /\ after[c].kind = "IF" /\ k = c + Len(after[c].type.params) + 1
  BY <1>11, <1>14, <1>16, <1>17, Zenon
<1>19. Len(low) + 1 = c /\ \A k \in 1 .. Len(low) : after[k] = list[k]
  BY <1>4, <1>5, <1>8, <1>11, Zenon
<1>20. Opens(list, last, low, after)
  BY <1>13, <1>15, <1>16, <1>18, <1>19, Zenon DEF Opens
<1>21. IfShape(after, c, n)
  <2>1. c + m + 1 = d /\ m \in Nat
    BY <1>10
  <2>2. Len(after) = (c + m + 1) + m /\ after[c + m + 1] = ElseFence
    BY <1>11, <2>1, Zenon
  <2>. QED BY <1>9, <1>16, <1>17, <2>1, <2>2, Zenon DEF IfShape
<1>. QED BY <1>3, <1>4, <1>16, <1>19, <1>20, <1>21, Zenon

\* The operands that a new block takes are popped from the frame around it, b
\* elements stay.
Room(f, m, pops, b) ==
  /\ f = Floor(elements) /\ m = Len(blocks) /\ pops \in Int
  /\ b \in Nat /\ b >= f /\ b <= Len(elements)
  /\ blocks[m].unreachable \/ b = Len(elements) - pops

\* The block around, what is below it, and l blocks inside of it.
Within(opened, opened2, m, count, inner, l) ==
  /\ Surrounds(opened, opened2, count) /\ Len(opened2) = m + l
  /\ \A k \in 1 .. l : opened2[m + k] = inner[k]

\* Popping parameters off a block counts as many values less, in live code exactly
\* those between the floor and where the inner block is inserted.
LEMMA MovedDown ==
  ASSUME GoodState, NEW f, f = Floor(elements), NEW m, m = Len(blocks), NEW pops \in Int,
         NEW b \in Nat, b >= f, b <= Len(elements), blocks[m].unreachable \/ b = Len(elements) - pops
  PROVE  /\ Moved(pops, 0) \in Seq(BlockType) /\ Len(Moved(pops, 0)) = m /\ m \in Nat \ {0}
         /\ SameBlock(blocks, Moved(pops, 0)) /\ Moved(pops, 0)[m].unreachable = blocks[m].unreachable
         /\ blocks[m].unreachable \/ Moved(pops, 0)[m].count = b - f
<1>1. /\ Len(elements) \in Nat \ {0} /\ f \in Nat \ {0}
      /\ blocks \in Seq(BlockType) /\ blocks # <<>> /\ m \in Nat \ {0} /\ blocks[m] \in BlockType
      /\ blocks[m].unreachable \/ blocks[m].count = Len(elements) - f
  BY StateFacts
<1>2. blocks[m].count \in 0 .. MaxElements /\ MaxElements \in Nat
  BY <1>1, BlockFields, BoundAssumption
<1>3. blocks[m].unreachable \/ (blocks[m].count - pops + 0 = b - f /\ blocks[m].count - pops + 0 \in 0 .. MaxElements)
  <2>1. \A u, v, w, x, y \in Int : u = v - w /\ x = v - y /\ x >= w /\ x <= v /\ u <= MaxElements
                                   => u - y + 0 = x - w /\ u - y + 0 \in 0 .. MaxElements
    <3>. SUFFICES ASSUME NEW u \in Int, NEW v \in Int, NEW w \in Int, NEW x \in Int, NEW y \in Int,
                         u = v - w, x = v - y, x >= w, x <= v, u <= MaxElements, v \in Int
                  PROVE  u - y + 0 = x - w /\ u - y + 0 \in 0 .. MaxElements
      OBVIOUS
    <3>1. u - y + 0 = x - w /\ x - w >= 0
      OBVIOUS
    <3>. QED BY <1>2, <3>1
  <2>. QED BY <1>1, <1>2, <2>1, SMTT(60)
<1>4. blocks[m].unreachable \/ blocks[m].count - pops + 0 \in 0 .. MaxElements
  BY <1>3
<1>5. /\ SameBlock(blocks, Moved(pops, 0)) /\ Moved(pops, 0)[m].unreachable = blocks[m].unreachable
      /\ blocks[m].unreachable \/ Moved(pops, 0)[m].count = blocks[m].count - pops + 0
  BY <1>1, <1>4, MovedFacts
<1>6. Moved(pops, 0) \in Seq(BlockType) /\ Len(Moved(pops, 0)) = m
  BY <1>5 DEF SameBlock
<1>. QED BY <1>1, <1>3, <1>5, <1>6, Zenon

LEMMA MovedSurrounds ==
  ASSUME GoodState, NEW f, NEW m, NEW pops, NEW b, Room(f, m, pops, b),
         NEW inner, NEW l, l \in Nat \ {0}, inner[1].kind # "IFBLOCK",
         NEW opened2 \in Seq(BlockType), Joined(Moved(pops, 0), m, inner, l, opened2)
  PROVE  Within(blocks, opened2, m, b - f, inner, l)
<1>1. /\ f = Floor(elements) /\ m = Len(blocks) /\ pops \in Int
      /\ b \in Nat /\ b >= f /\ b <= Len(elements)
      /\ blocks[m].unreachable \/ b = Len(elements) - pops
  BY Zenon DEF Room
<1>4. PICK moved : moved = Moved(pops, 0)
  OBVIOUS
<1>5. /\ SameBlock(blocks, moved) /\ moved[m].unreachable = blocks[m].unreachable
      /\ blocks[m].unreachable \/ moved[m].count = b - f
      /\ m \in Nat \ {0}
  BY <1>1, <1>4, MovedDown
<1>6. /\ \A k \in 1 .. m - 1 : moved[k] = blocks[k]
      /\ moved[m].kind = blocks[m].kind /\ moved[m].type = blocks[m].type
  BY <1>1, <1>5 DEF SameBlock
<1>7. /\ Len(opened2) = m + l
      /\ \A k \in 1 .. m : opened2[k] = moved[k]
      /\ \A k \in 1 .. l : opened2[m + k] = inner[k]
  BY <1>4, Zenon DEF Joined
<1>8. m \in 1 .. m /\ 1 \in 1 .. l /\ Len(opened2) > m /\ \A k \in 1 .. m - 1 : k \in 1 .. m
  <2>1. m \in Nat \ {0} /\ l \in Nat \ {0} /\ Len(opened2) = m + l
    BY <1>5, <1>7
  <2>. QED BY <2>1
<1>9. /\ \A k \in 1 .. m - 1 : opened2[k] = blocks[k]
      /\ opened2[m] = moved[m] /\ opened2[m + 1].kind # "IFBLOCK" /\ Len(opened2) > m
  BY <1>6, <1>7, <1>8, Zenon
<1>10. Surrounds(blocks, opened2, b - f)
  BY <1>1, <1>5, <1>6, <1>9, Zenon DEF Surrounds
<1>. QED BY <1>7, <1>10, Zenon DEF Within

IsOpened(kind, type, n, opened2) ==
  opened2 = Append(Moved(n, 0), Block(kind, type, CurrentFrameIsUnreachable, n))

\* After the push for a block or loop both stacks have one structure more, which
\* encloses the same operands on both.
LEMMA EnteredBlock ==
  ASSUME GoodState, NEW kind \in {"BLOCK", "LOOP"}, NEW type \in Type, NEW n, n = Len(type.params),
         Holds(elements, type.params),
         NEW after, after = BlockInserted(kind, type), Len(after) <= MaxElements,
         NEW last, last = Base(elements, type.params) + 1,
         NEW opened2, IsOpened(kind, type, n, opened2)
  PROVE  StateGood(after, last, opened2)
<1>1. PICK types : types = type.params
  OBVIOUS
<1>2. types \in Seq(Number) /\ Len(types) \in Nat /\ n = Len(types) /\ n \in Nat
  BY <1>1, TypeFacts, SignatureFacts
<1>3. PICK f, b, low, new : /\ f = Floor(elements) /\ b = Base(elements, types)
                            /\ low = Below(types) /\ new = Values(types)
  OBVIOUS
<1>4. ListGood(elements, current) /\ StateGood(elements, current, blocks)
  BY DEF GoodState, StateGood
<1>5. /\ b \in f .. Len(elements) /\ f \in Nat \ {0} /\ Len(elements) \in Nat
      /\ FormallyUnreachable \/ (b = Len(elements) - n)
      /\ LowPart(elements, f, low) /\ Len(low) = b
  <2>1. Holds(elements, types)
    BY <1>1
  <2>. QED BY <1>2, <1>3, <1>4, <2>1, HoldsFacts
<1>6. b \in Nat /\ b >= f /\ b <= Len(elements)
  BY <1>5
<1>7. PICK m : m = Len(blocks)
  OBVIOUS
<1>8. /\ m \in Nat \ {0} /\ CurrentFrameIsUnreachable <=> blocks[m].unreachable
      /\ FormallyUnreachable => blocks[m].unreachable
      /\ blocks \in Seq(BlockType) /\ blocks # <<>> /\ blocks[m] \in BlockType
  BY <1>3, <1>7, StateFacts
<1>9. Numbers(new, n)
  BY <1>2, <1>3, MadeNumbers
<1>10. IsInserted(low, Element(kind, type, current), new, after)
  BY <1>1, <1>3, Zenon DEF IsInserted, BlockInserted, Kept
<1>. HIDE DEF Moved
<1>11. /\ Opens(elements, current, low, after)
       /\ after[b + 1].kind = kind /\ after[b + 1].type = type
       /\ Len(after) = (b + 1) + n
  BY <1>3, <1>4, <1>5, <1>9, <1>10, Inserted, SMTT(60)
<1>12. n \in 0 .. MaxElements
  <2>1. n <= Len(after) /\ Len(after) \in Nat
    BY <1>2, <1>6, <1>11
  <2>. QED BY <1>2, <2>1, BoundAssumption
<1>13. PICK u \in BOOLEAN : u = CurrentFrameIsUnreachable
  <2>1. blocks[m].unreachable \in BOOLEAN
    BY <1>8, BlockFields
  <2>2. Last(blocks) = blocks[m]
    BY <1>7 DEF Last
  <2>. QED BY <2>1, <2>2 DEF CurrentFrameIsUnreachable
<1>14. PICK block : block = Block(kind, type, u, n)
  OBVIOUS
<1>15. block \in BlockType /\ block.kind = kind /\ block.type = type /\ (block.unreachable \/ block.count = n)
  BY <1>12, <1>14, BlockFacts DEF BlockKind
<1>16. PICK moved : moved = Moved(n, 0)
  OBVIOUS
<1>17. n \in Int /\ (blocks[m].unreachable \/ b = Len(elements) - n)
  BY <1>2, <1>5, <1>8
<1>18. moved \in Seq(BlockType) /\ Len(moved) = m
  BY <1>3, <1>6, <1>7, <1>16, <1>17, MovedDown
<1>19. opened2 = Append(moved, block)
  BY <1>13, <1>14, <1>16, Zenon DEF IsOpened
<1>20. opened2 \in Seq(BlockType) /\ Joined(moved, m, <<block>>, 1, opened2)
  <2>1. m \in Nat /\ moved \in Seq(BlockType) /\ Len(moved) = m /\ block \in BlockType
    BY <1>8, <1>15, <1>18
  <2>2. Append(moved, block) \in Seq(BlockType) /\ Joined(moved, m, <<block>>, 1, Append(moved, block))
    BY <2>1, JoinOne
  <2>. QED BY <1>19, <2>2, Zenon
<1>31. PICK inner : inner = <<block>>
  OBVIOUS
<1>32. PICK l \in Nat \ {0} : l = 1
  OBVIOUS
<1>22. inner[1] = block /\ block.kind # "IFBLOCK"
  BY <1>15, <1>31
<1>23. /\ Surrounds(blocks, opened2, b - f) /\ Len(opened2) = m + l
       /\ \A k \in 1 .. l : opened2[m + k] = inner[k]
  <2>1. Joined(Moved(n, 0), m, inner, l, opened2)
    BY <1>16, <1>20, <1>31, <1>32, Zenon
  <2>2. inner[1].kind # "IFBLOCK"
    BY <1>22, Zenon
  <2>3. Room(f, m, n, b)
    BY <1>3, <1>6, <1>7, <1>17, Zenon DEF Room
  <2>4. l \in Nat \ {0} /\ opened2 \in Seq(BlockType)
    BY <1>20
  <2>5. Within(blocks, opened2, m, b - f, inner, l)
    BY <2>1, <2>2, <2>3, <2>4, MovedSurrounds, Zenon
  <2>. QED BY <2>5, Zenon DEF Within
<1>24. Len(opened2) = m + 1 /\ opened2[m + 1] = block
  BY <1>22, <1>23, <1>32
<1>25. PICK c \in Nat : c = b + 1
  BY <1>6
<1>26. /\ c = Len(low) + 1 /\ Len(after) - c = n /\ after[c].kind = kind /\ after[c].type = type
       /\ Surrounds(blocks, opened2, Len(low) - f)
  BY <1>2, <1>5, <1>6, <1>11, <1>23, <1>25
<1>27. StateGood(after, c, opened2)
  <2>1. /\ after[c].kind \in {"BLOCK", "LOOP"}
        /\ opened2[m + 1].kind = after[c].kind /\ opened2[m + 1].type = after[c].type
        /\ opened2[m + 1].unreachable \/ opened2[m + 1].count = Len(after) - c
    BY <1>15, <1>24, <1>26, Zenon
  <2>. QED BY <1>3, <1>4, <1>5, <1>7, <1>11, <1>24, <1>26, <2>1, OpenedBlock
<1>28. last = c
  BY <1>1, <1>3, <1>25, Zenon
<1>. QED BY <1>27, <1>28

LEMMA EnterBlockKeeps ==
  ASSUME GoodState, Len(elements') <= MaxElements, NEW i \in Instruction, EnterBlock(i)
  PROVE  Preserved
<1>. DEFINE n == Len(i.type.params)
            kind == IF i.op = "loop" THEN "LOOP" ELSE "BLOCK"
            valid == Holds(elements, i.type.params)
            after == BlockInserted(kind, i.type)
            last == Base(elements, i.type.params) + 1
            opened == Append(Moved(n, 0), Block(kind, i.type, CurrentFrameIsUnreachable, n))
<1>1. Decide(valid, after, last, opened)
  BY Zenon DEF EnterBlock
<1>2. ASSUME valid, Len(after) <= MaxElements
      PROVE  StateGood(after, last, opened)
  <2>1. PICK k, list, opened2 : k = kind /\ list = after /\ opened2 = opened
    OBVIOUS
  <2>2. k \in {"BLOCK", "LOOP"} /\ i.type \in Type
    BY <2>1, TypeFacts
  <2>3. IsOpened(k, i.type, n, opened2) /\ list = BlockInserted(k, i.type) /\ Holds(elements, i.type.params)
    BY <1>2, <2>1, Zenon DEF IsOpened
  <2>4. Len(list) <= MaxElements
    BY <1>2, <2>1, Zenon
  <2>5. StateGood(list, last, opened2)
    BY <2>2, <2>3, <2>4, EnteredBlock, Zenon
  <2>. QED BY <2>1, <2>5, Zenon
<1>. HIDE DEF after, opened, valid, last
<1>. QED BY <1>1, <1>2, Decided

LEMMA ConditionFacts ==
  ASSUME NEW type \in Type, NEW n, n = Len(type.params), NEW new, new = Front(Kept(Condition(type)))
  PROVE  /\ Condition(type) \in Seq(Number) /\ Len(Condition(type)) = n + 1 /\ n \in Nat
         /\ Numbers(new, n)
<1>1. PICK types, made : types = Condition(type) /\ made = Values(types)
  OBVIOUS
<1>2. type.params \in Seq(Number) /\ n \in Nat /\ n = Len(type.params)
  BY TypeFacts, SignatureFacts
<1>3. types \in Seq(Number) /\ Len(types) = n + 1
  BY <1>1, <1>2, KindFacts, AppendFacts DEF Condition
<1>4. Numbers(made, n + 1)
  BY <1>1, <1>3, MadeNumbers
<1>5. made \in Seq(ElementType) /\ Len(made) = n + 1 /\ \A k \in 1 .. n + 1 : made[k].kind \in Number
  BY <1>4, Zenon DEF Numbers
<1>6. made # <<>>
  BY <1>2, <1>5, SeqFacts
<1>7. new = Front(made)
  BY <1>1, Zenon DEF Kept
<1>8. /\ Front(made) \in Seq(ElementType) /\ Len(Front(made)) = Len(made) - 1
      /\ \A k \in 1 .. Len(made) - 1 : Front(made)[k] = made[k]
  BY <1>5, <1>6, FrontFacts
<1>9. new \in Seq(ElementType) /\ Len(new) = n /\ \A k \in 1 .. n : new[k] = made[k] /\ k \in 1 .. n + 1
  BY <1>2, <1>5, <1>7, <1>8
<1>10. Numbers(new, n)
  BY <1>2, <1>5, <1>9, Zenon DEF Numbers
<1>. QED BY <1>1, <1>2, <1>3, <1>10

IsOpenedIf(type, n, v, w, opened2) ==
  opened2 = Moved(n + 1, 0) \o <<Block("BLOCK", type, v, n), Block("IFBLOCK", type, w, n)>>

LEMMA MovedRoom ==
  ASSUME GoodState, NEW f, NEW m, NEW pops, NEW b, Room(f, m, pops, b)
  PROVE  Moved(pops, 0) \in Seq(BlockType) /\ Len(Moved(pops, 0)) = m
  BY MovedDown DEF Room

\* After the push for an if the compile-time stack has two blocks more: the inner
\* one counts the second copy of the parameters, the outer one waits with as many.
LEMMA EnteredIf ==
  ASSUME GoodState, NEW type \in Type, NEW n, n = Len(type.params),
         Holds(elements, Condition(type)),
         NEW after, after = IfInserted(type), Len(after) <= MaxElements,
         NEW last, last = Base(elements, Condition(type)) + 1,
         NEW v \in BOOLEAN, NEW w \in BOOLEAN, NEW opened2, IsOpenedIf(type, n, v, w, opened2)
  PROVE  StateGood(after, last, opened2)
<1>1. PICK types : types = Condition(type)
  OBVIOUS
<1>2. PICK f, b, low, new : /\ f = Floor(elements) /\ b = Base(elements, types)
                            /\ low = Below(types) /\ new = Front(Kept(Condition(type)))
  OBVIOUS
<1>3. types \in Seq(Number) /\ Len(types) = n + 1 /\ n \in Nat /\ Numbers(new, n)
  BY <1>1, <1>2, ConditionFacts
<1>4. ListGood(elements, current) /\ StateGood(elements, current, blocks)
  BY DEF GoodState, StateGood
<1>5. PICK pops \in Nat : pops = n + 1
  BY <1>3
<1>6. /\ b \in f .. Len(elements) /\ f \in Nat \ {0} /\ Len(elements) \in Nat
      /\ FormallyUnreachable \/ (b = Len(elements) - pops)
      /\ LowPart(elements, f, low) /\ Len(low) = b
  <2>1. Holds(elements, types) /\ Len(types) \in Nat /\ Len(types) = pops
    BY <1>1, <1>3, <1>5
  <2>. QED BY <1>2, <1>4, <2>1, HoldsFacts
<1>7. b \in Nat /\ b >= f /\ b <= Len(elements)
  BY <1>6
<1>8. PICK m : m = Len(blocks)
  OBVIOUS
<1>9. /\ m \in Nat \ {0}
      /\ FormallyUnreachable => blocks[m].unreachable
      /\ blocks \in Seq(BlockType) /\ blocks # <<>> /\ blocks[m] \in BlockType
  BY <1>2, <1>8, StateFacts
<1>10. IsIfInserted(low, Element("IF", type, current), new, after)
  BY <1>1, <1>2, Zenon DEF IsIfInserted, IfInserted
<1>11. /\ Opens(elements, current, low, after) /\ IfShape(after, Len(low) + 1, n)
       /\ after[Len(low) + 1].type = type
  BY <1>2, <1>3, <1>4, <1>6, <1>10, InsertedIf, SMTT(60)
<1>12. PICK c \in Nat : c = b + 1
  BY <1>7
<1>13. c = Len(low) + 1 /\ IfShape(after, c, n) /\ after[c].type = type
  BY <1>6, <1>11, <1>12
<1>14. n \in 0 .. MaxElements
  <2>1. Len(after) = (c + n + 1) + n
    BY <1>13, Zenon DEF IfShape
  <2>2. n <= Len(after) /\ Len(after) \in Nat
    BY <1>3, <2>1
  <2>. QED BY <1>3, <2>2, BoundAssumption
<1>15. PICK outer, inner : outer = Block("BLOCK", type, v, n) /\ inner = Block("IFBLOCK", type, w, n)
  OBVIOUS
<1>16. PICK moved : moved = Moved(pops, 0)
  OBVIOUS
<1>17. PICK both : both = <<outer, inner>>
  OBVIOUS
<1>18. PICK two \in Nat \ {0} : two = 2
  OBVIOUS
<1>19. /\ outer \in BlockType /\ outer.kind = "BLOCK" /\ outer.type = type /\ (outer.unreachable \/ outer.count = n)
       /\ inner \in BlockType /\ inner.kind = "IFBLOCK" /\ inner.type = type /\ (inner.unreachable \/ inner.count = n)
  <2>1. PICK k1 \in BlockKind, k2 \in BlockKind : k1 = "BLOCK" /\ k2 = "IFBLOCK"
    BY DEF BlockKind
  <2>. QED BY <1>14, <1>15, <2>1, BlockFacts
<1>20. Room(f, m, pops, b)
  <2>1. pops \in Int /\ (blocks[m].unreachable \/ b = Len(elements) - pops)
    <3>1. blocks[m].unreachable \/ b = Len(elements) - pops
      BY <1>6, <1>9, Zenon
    <3>. QED BY <3>1
  <2>. QED BY <1>2, <1>7, <1>8, <2>1, Zenon DEF Room
<1>21. moved \in Seq(BlockType) /\ Len(moved) = m
  <2>1. Moved(pops, 0) \in Seq(BlockType) /\ Len(Moved(pops, 0)) = m
    BY <1>20, MovedRoom
  <2>. QED BY <1>16, <2>1, Zenon
<1>22. both \in Seq(BlockType) /\ Len(both) = two /\ both[1] = outer /\ both[2] = inner
  BY <1>17, <1>18, <1>19
<1>23. opened2 = moved \o both
  BY <1>5, <1>15, <1>16, <1>17, Zenon DEF IsOpenedIf
<1>24. opened2 \in Seq(BlockType) /\ Joined(moved, m, both, two, opened2)
  <2>1. m \in Nat /\ two \in Nat
    BY <1>9
  <2>2. moved \o both \in Seq(BlockType) /\ Joined(moved, m, both, two, moved \o both)
    BY <1>21, <1>22, <2>1, JoinFacts
  <2>. QED BY <1>23, <2>2, Zenon
<1>25. Within(blocks, opened2, m, b - f, both, two)
  <2>1. Joined(Moved(pops, 0), m, both, two, opened2)
    BY <1>16, <1>24, Zenon
  <2>2. both[1].kind # "IFBLOCK"
    BY <1>19, <1>22
  <2>. QED BY <1>20, <1>24, <2>1, <2>2, MovedSurrounds, Zenon
<1>26. /\ Surrounds(blocks, opened2, b - f) /\ Len(opened2) = m + 2
       /\ opened2[m + 1] = outer /\ opened2[m + 2] = inner
  <2>1. /\ Surrounds(blocks, opened2, b - f) /\ Len(opened2) = m + two
        /\ \A k \in 1 .. two : opened2[m + k] = both[k]
    BY <1>25, Zenon DEF Within
  <2>2. 1 \in 1 .. two /\ 2 \in 1 .. two
    BY <1>18
  <2>. QED BY <1>18, <1>22, <2>1, <2>2
<1>27. StateGood(after, c, opened2)
  <2>1. Surrounds(blocks, opened2, Len(low) - f)
    BY <1>6, <1>26
  <2>2. /\ opened2[m + 1].kind = "BLOCK" /\ opened2[m + 1].type = after[c].type
        /\ opened2[m + 1].unreachable \/ opened2[m + 1].count = n
        /\ opened2[m + 2].kind = "IFBLOCK" /\ opened2[m + 2].type = after[c].type
        /\ opened2[m + 2].unreachable \/ opened2[m + 2].count = n
    BY <1>13, <1>19, <1>26, Zenon
  <2>. QED BY <1>2, <1>4, <1>6, <1>8, <1>11, <1>13, <1>26, <2>1, <2>2, OpenedIf, ZenonT(60)
<1>28. last = c
  BY <1>1, <1>2, <1>12, Zenon
<1>. QED BY <1>27, <1>28

LEMMA EnterIfKeeps ==
  ASSUME GoodState, Len(elements') <= MaxElements, NEW i \in Instruction, EnterIf(i)
  PROVE  Preserved
<1>. DEFINE n == Len(i.type.params)
            dead == CurrentFrameIsUnreachable
            valid == Holds(elements, Condition(i.type))
            after == IfInserted(i.type)
            last == Base(elements, Condition(i.type)) + 1
            opened == Moved(n + 1, 0)
                        \o <<Block("BLOCK", i.type, dead \/ i.known = "true", n),
                             Block("IFBLOCK", i.type, dead \/ i.known = "false", n)>>
<1>1. Decide(valid, after, last, opened)
  BY Zenon DEF EnterIf
<1>2. ASSUME valid, Len(after) <= MaxElements
      PROVE  StateGood(after, last, opened)
  <2>1. PICK v \in BOOLEAN : v = (dead \/ i.known = "true")
    OBVIOUS
  <2>2. PICK w \in BOOLEAN : w = (dead \/ i.known = "false")
    OBVIOUS
  <2>3. PICK list, opened2 : list = after /\ opened2 = opened
    OBVIOUS
  <2>4. IsOpenedIf(i.type, n, v, w, opened2)
    BY <2>1, <2>2, <2>3, Zenon DEF IsOpenedIf
  <2>5. i.type \in Type /\ Len(list) <= MaxElements /\ list = IfInserted(i.type) /\ Holds(elements, Condition(i.type))
    BY <1>2, <2>3, TypeFacts
  <2>6. StateGood(list, last, opened2)
    BY <2>4, <2>5, EnteredIf, Zenon
  <2>. QED BY <2>3, <2>6, Zenon
<1>. HIDE DEF after, opened, valid, last
<1>. QED BY <1>1, <1>2, Decided

(***************************************************************************)
(* A block is left: the list is cut at its fence or at its element, and    *)
(* the last block of the compile-time stack is gone.                       *)
(***************************************************************************)
Cut(list, last, n, after) ==
  /\ after \in Seq(ElementType) /\ Len(after) = n /\ n <= Len(list) /\ Alike(list, after, n)
  /\ \A k \in 1 .. n : k # last => after[k].formallyUnreachable = list[k].formallyUnreachable

NoAny(list, last, n) == \A k \in 1 .. n : list[k].kind = "any" => ~Encloses(list, last, k)

Shorter(opened, opened2) ==
  /\ opened2 \in Seq(BlockType) /\ Len(opened2) = Len(opened) - 1
  /\ \A k \in 1 .. Len(opened) - 1 : opened2[k] = opened[k]

\* Cutting a good list back to a position that a structural element below it encloses
\* leaves a good list.
LEMMA CutList ==
  ASSUME NEW list, NEW last, ListGood(list, last), NEW n \in Nat \ {0}, NEW after, Cut(list, last, n, after),
         NEW last2 \in 1 .. n, Encloses(list, last2, n + 1), NoAny(list, last, n)
  PROVE  ListGood(after, last2)
<1>1. /\ list \in Seq(ElementType) /\ list[1].kind = "FUNC" /\ list[1].prev = 0
      /\ \A k \in 2 .. Len(list) : WellPlaced(list, k)
      /\ \A j, k \in 1 .. Len(list) :
           list[k].kind = "any" /\ Encloses(list, j, k) => list[j].formallyUnreachable
  BY DEF ListGood
<1>2. /\ after \in Seq(ElementType) /\ Len(after) = n /\ n <= Len(list) /\ Alike(list, after, n)
      /\ \A k \in 1 .. n : k # last => after[k].formallyUnreachable = list[k].formallyUnreachable
  BY Zenon DEF Cut
<1>3. Len(list) \in Nat /\ \A k \in 1 .. n : k \in 1 .. Len(list)
  BY <1>1, <1>2, SeqFacts
<1>4. \A k \in 1 .. n : after[k].kind = list[k].kind /\ after[k].prev = list[k].prev
  BY <1>2, Zenon DEF Alike
<1>5. after[1].kind = "FUNC" /\ after[1].prev = 0
  <2>1. 1 \in 1 .. n
    OBVIOUS
  <2>. QED BY <1>1, <1>4, <2>1
<1>6. Encloses(after, last2, Len(after) + 1)
  <2>1. n + 1 \in 1 .. n + 1
    OBVIOUS
  <2>2. Encloses(after, last2, n + 1)
    BY <1>2, <2>1, EnclosesAlike
  <2>. QED BY <1>2, <2>2
<1>7. ASSUME NEW k \in 2 .. n PROVE WellPlaced(after, k)
  <2>1. k \in 1 .. n /\ k \in 2 .. Len(list)
    BY <1>2, <1>3
  <2>. QED BY <1>1, <1>2, <2>1, WellPlacedAlike
<1>8. ASSUME NEW j \in 1 .. n, NEW k \in 1 .. n, after[k].kind = "any", Encloses(after, j, k)
      PROVE  after[j].formallyUnreachable
  <2>1. k \in 1 .. n + 1 /\ list[k].kind = "any"
    BY <1>4, <1>8
  <2>2. Encloses(list, j, k)
    BY <1>2, <1>8, <2>1, EnclosesAlike
  <2>3. j # last
    BY <2>1, <2>2, Zenon DEF NoAny
  <2>4. list[j].formallyUnreachable
    BY <1>1, <1>3, <2>1, <2>2, Zenon
  <2>. QED BY <1>2, <2>3, <2>4
<1>9. last2 \in 1 .. Len(after) /\ (\A k \in 2 .. Len(after) : WellPlaced(after, k))
  BY <1>2, <1>7
<1>10. \A j, k \in 1 .. Len(after) :
         after[k].kind = "any" /\ Encloses(after, j, k) => after[j].formallyUnreachable
  BY <1>2, <1>8, Zenon
<1>. QED BY <1>2, <1>5, <1>6, <1>9, <1>10, Zenon DEF ListGood

\* Closing the innermost block while the list is cut back leaves a good state, if
\* the block around it then agrees with its structural element.
LEMMA CutGood ==
  ASSUME NEW list, NEW last, ListGood(list, last), NEW opened \in Seq(BlockType), opened # <<>>,
         NEW p, Placed(list, last, opened, p), NEW l \in Nat \ {0}, Len(opened) = l + 1,
         NEW n \in Nat \ {0}, NEW after, Cut(list, last, n, after),
         NEW last2 \in 1 .. n, p[l] = last2, Encloses(list, last2, n + 1), NoAny(list, last, n),
         NEW opened2, Shorter(opened, opened2), Matches(after, opened[l], last2, n, FALSE)
  PROVE  StateGood(after, last2, opened2)
<1>1. ListGood(after, last2)
  BY CutList
<1>2. PICK m \in Nat \ {0} : m = l + 1
  OBVIOUS
<1>3. /\ p[m] = last /\ p[1] = 1
      /\ \A k \in 1 .. m - 1 : p[k] = Around(list, opened, k, p[k + 1])
      /\ \A k \in 1 .. m : Agrees(list, opened, p, k)
      /\ Len(opened) = m
  <2>1. Len(opened) = m
    BY <1>2
  <2>. QED BY <2>1, Zenon DEF Placed
<1>4. Len(list) \in Nat \ {0} /\ last \in 1 .. Len(list) /\ list \in Seq(ElementType)
  BY ShapeFacts DEF ListGood
<1>5. /\ \A k \in 1 .. m : p[k] \in 1 .. last
      /\ \A k \in 1 .. m - 1 : IF Waits(opened, k) THEN p[k] = p[k + 1] ELSE p[k] \in 1 .. p[k + 1] - 1
  <2>1. last \in Nat \ {0}
    BY <1>4
  <2>. QED BY <1>3, <2>1, PlacesGrow
<1>6. /\ opened2 \in Seq(BlockType) /\ Len(opened2) = l /\ opened2 # <<>>
      /\ \A k \in 1 .. l : opened2[k] = opened[k]
  <2>1. /\ opened2 \in Seq(BlockType) /\ Len(opened2) = l
        /\ \A k \in 1 .. l : opened2[k] = opened[k]
    BY DEF Shorter
  <2>. QED BY <2>1, SeqFacts
<1>7. /\ after \in Seq(ElementType) /\ Len(after) = n /\ n <= Len(list) /\ Alike(list, after, n)
      /\ \A k \in 1 .. n : k # last => after[k].formallyUnreachable = list[k].formallyUnreachable
  BY Zenon DEF Cut
<1>8. \A k \in 1 .. l : p[k] \in 1 .. n
  <2>1. /\ \A k \in 1 .. l : p[k] \in Nat \ {0}
        /\ \A k \in 1 .. l - 1 : p[k] <= p[k + 1]
    <3>1. \A k \in 1 .. l : k \in 1 .. m
      BY <1>2
    <3>2. \A k \in 1 .. l : p[k] \in Nat \ {0}
      BY <1>4, <1>5, <3>1
    <3>3. ASSUME NEW k \in 1 .. l - 1 PROVE p[k] <= p[k + 1]
      <4>1. k \in 1 .. m - 1 /\ k \in 1 .. l /\ k + 1 \in 1 .. l
        BY <1>2
      <4>2. p[k] \in Nat /\ p[k + 1] \in Nat
        BY <3>2, <4>1
      <4>3. CASE Waits(opened, k)
        BY <1>5, <4>1, <4>2, <4>3
      <4>4. CASE ~Waits(opened, k)
        <5>1. p[k] \in 1 .. p[k + 1] - 1
          BY <1>5, <4>1, <4>4
        <5>. QED BY <4>2, <5>1
      <4>. QED BY <4>3, <4>4
    <3>. QED BY <3>2, <3>3
  <2>. DEFINE S == {i \in Nat : i < l => p[l - i] \in 1 .. n}
  <2>2. 0 \in S
    OBVIOUS
  <2>3. ASSUME NEW i \in S PROVE i + 1 \in S
    <3>. SUFFICES ASSUME i + 1 < l PROVE p[l - (i + 1)] \in 1 .. n
      OBVIOUS
    <3>1. PICK k \in 1 .. l - 1 : k = l - (i + 1)
      OBVIOUS
    <3>2. k + 1 = l - i /\ k \in 1 .. l /\ i < l
      BY <3>1
    <3>3. p[k + 1] \in 1 .. n
      BY <3>2
    <3>4. p[k] \in Nat \ {0} /\ p[k] <= p[k + 1]
      BY <2>1, <3>2
    <3>. QED BY <3>1, <3>3, <3>4
  <2>4. S = Nat
    <3>. HIDE DEF S
    <3>1. S \in SUBSET Nat
      BY DEF S
    <3>. QED BY <2>2, <2>3, <3>1, Induction
  <2>5. ASSUME NEW k \in 1 .. l PROVE p[k] \in 1 .. n
    <3>1. PICK i \in Nat : i = l - k
      OBVIOUS
    <3>2. l - i = k /\ i < l
      BY <3>1
    <3>3. i \in S
      BY <2>4
    <3>. QED BY <3>2, <3>3
  <2>. QED BY <2>5
<1>9. \A k \in 1 .. l : k \in 1 .. m - 1 /\ k \in 1 .. m
  BY <1>2
<1>10. \A k \in 1 .. n : after[k].prev = list[k].prev
  BY <1>7, Zenon DEF Alike
<1>11. ASSUME NEW k \in 1 .. l - 1
       PROVE  p[k] = Around(after, opened2, k, p[k + 1]) /\ Agrees(after, opened2, p, k)
  <2>1. k \in 1 .. l /\ k + 1 \in 1 .. l /\ k \in Nat \ {0} /\ k < l /\ k < m
    BY <1>2
  <2>2. p[k] \in 1 .. n /\ p[k + 1] \in 1 .. n
    BY <1>8, <2>1
  <2>3. opened2[k] = opened[k] /\ opened2[k + 1] = opened[k + 1]
    BY <1>6, <2>1
  <2>4. p[k] = Around(after, opened2, k, p[k + 1])
    <3>1. p[k] = Around(list, opened, k, p[k + 1])
      BY <1>3, <1>9, <2>1
    <3>2. after[p[k + 1]].prev = list[p[k + 1]].prev
      BY <1>10, <2>2
    <3>. QED BY <2>3, <3>1, <3>2, Zenon DEF Around
  <2>5. Waits(opened2, k) = Waits(opened, k)
    BY <1>3, <1>6, <2>1, <2>3 DEF Waits
  <2>6. Waits(opened, k) \/ after[p[k]].formallyUnreachable = list[p[k]].formallyUnreachable
    <3>1. ~Waits(opened, k) => p[k] # last
      <4>1. k + 1 \in 1 .. m /\ k \in 1 .. m - 1
        BY <1>9, <2>1
      <4>2. p[k + 1] \in 1 .. last /\ (~Waits(opened, k) => p[k] \in 1 .. p[k + 1] - 1)
        BY <1>5, <4>1
      <4>. QED BY <1>4, <4>2
    <3>. QED BY <1>7, <2>2, <3>1
  <2>7. Agrees(list, opened, p, k)
    BY <1>3, <1>9, <2>1
  <2>8. PICK q : q = p
    OBVIOUS
  <2>9. Agrees(after, opened2, q, k)
    <3>1. q[k] = p[k] /\ q[k + 1] = p[k + 1]
      BY <2>8
    <3>2. n \in Nat /\ n <= Len(list) /\ n <= Len(after) /\ Alike(list, after, n) /\ after \in Seq(ElementType)
      BY <1>7
    <3>3. Len(opened) \in Nat /\ Len(opened2) \in Nat /\ k < Len(opened) /\ k < Len(opened2)
      BY <1>3, <1>6, <2>1
    <3>4. p[k] \in 1 .. n /\ p[k + 1] - 1 \in 0 .. n
      BY <2>2
    <3>. QED BY <1>4, <2>1, <2>3, <2>5, <2>6, <2>7, <3>1, <3>2, <3>3, <3>4, AroundAgree
  <2>. QED BY <2>4, <2>8, <2>9
<1>12. Agrees(after, opened2, p, l)
  <2>1. Waits(opened2, l) = FALSE /\ EndOf(after, opened2, p, l) = Len(after)
    BY <1>6 DEF Waits, EndOf
  <2>2. opened2[l] = opened[l]
    <3>1. l \in 1 .. l
      OBVIOUS
    <3>. QED BY <1>6, <3>1, Zenon
  <2>3. Matches(after, opened2[l], p[l], Len(after), FALSE)
    BY <1>7, <2>2, Zenon
  <2>. QED BY <2>1, <2>3, Zenon DEF Agrees
<1>13. p[1] = 1 /\ p[l] = last2
  BY <1>3
<1>14. Placed(after, last2, opened2, p)
  <2>1. \A k \in 1 .. l : k = l \/ k \in 1 .. l - 1
    OBVIOUS
  <2>2. \A k \in 1 .. l : Agrees(after, opened2, p, k)
    BY <1>11, <1>12, <2>1, Zenon
  <2>3. Len(opened2) = l
    BY <1>6
  <2>. QED BY <1>11, <1>13, <2>2, <2>3, Zenon DEF Placed
<1>. QED BY <1>1, <1>6, <1>14, Zenon DEF StateGood, BlocksGood

\* The block around the current one: the same element while the first branch of
\* an if is open, otherwise the one that the element names.
LEMMA OuterFacts ==
  ASSUME NEW list, NEW last, ListGood(list, last), NEW opened \in Seq(BlockType), opened # <<>>,
         NEW p, Placed(list, last, opened, p), list[last].kind # "FUNC"
  PROVE  \E l \in Nat \ {0} :
           /\ Len(opened) = l + 1 /\ p[l + 1] = last
           /\ IF opened[l + 1].kind = "IFBLOCK"
              THEN p[l] = last /\ Matches(list, opened[l], last, last - 1, TRUE)
              ELSE p[l] = list[last].prev /\ Matches(list, opened[l], p[l], last - 1, FALSE)
<1>1. PICK m \in Nat \ {0} : m = Len(opened)
  BY OpenedFacts
<1>2. /\ p[m] = last /\ p[1] = 1
      /\ \A k \in 1 .. m - 1 : p[k] = Around(list, opened, k, p[k + 1])
      /\ \A k \in 1 .. m : Agrees(list, opened, p, k)
  BY <1>1, Zenon DEF Placed
<1>3. list[1].kind = "FUNC"
  BY DEF ListGood
<1>4. m # 1
  BY <1>2, <1>3, Zenon
<1>5. PICK l \in Nat \ {0} : m = l + 1
  <2>1. m - 1 \in Nat \ {0} /\ m = (m - 1) + 1
    BY <1>4
  <2>. QED BY <2>1, Zenon
<1>6. l \in 1 .. m - 1 /\ l \in 1 .. m /\ Len(opened) = l + 1 /\ l < Len(opened)
  BY <1>1, <1>5
<1>7. p[l] = Around(list, opened, l, p[l + 1]) /\ p[l + 1] = last /\ Agrees(list, opened, p, l)
  BY <1>2, <1>5, <1>6
<1>8. Waits(opened, l) = (opened[l + 1].kind = "IFBLOCK")
  BY <1>6 DEF Waits
<1>9. EndOf(list, opened, p, l) = last - 1
  BY <1>6, <1>7 DEF EndOf
<1>10. Matches(list, opened[l], p[l], last - 1, Waits(opened, l))
  BY <1>7, <1>9, Zenon DEF Agrees
<1>11. CASE opened[l + 1].kind = "IFBLOCK"
  <2>1. p[l] = last
    BY <1>7, <1>11, Zenon DEF Around
  <2>2. Waits(opened, l) = TRUE
    BY <1>8, <1>11
  <2>. QED BY <1>6, <1>7, <1>10, <1>11, <2>1, <2>2, Zenon
<1>12. CASE opened[l + 1].kind # "IFBLOCK"
  <2>1. p[l] = list[last].prev
    BY <1>7, <1>12, Zenon DEF Around
  <2>2. Waits(opened, l) = FALSE
    BY <1>8, <1>12
  <2>. QED BY <1>6, <1>7, <1>10, <1>12, <2>1, <2>2, Zenon
<1>. QED BY <1>11, <1>12

\* Around every block but the function's there is another one.
LEMMA OuterExists ==
  ASSUME NEW list, NEW last, NEW opened, StateGood(list, last, opened), list[last].kind # "FUNC"
  PROVE  \E l \in Nat \ {0} : Len(opened) = l + 1
<1>1. ListGood(list, last) /\ opened \in Seq(BlockType) /\ opened # <<>>
  BY Zenon DEF StateGood, BlocksGood
<1>2. PICK p : Placed(list, last, opened, p)
  BY Zenon DEF StateGood, BlocksGood
<1>3. \E l \in Nat \ {0} :
           /\ Len(opened) = l + 1 /\ p[l + 1] = last
           /\ IF opened[l + 1].kind = "IFBLOCK"
              THEN p[l] = last /\ Matches(list, opened[l], last, last - 1, TRUE)
              ELSE p[l] = list[last].prev /\ Matches(list, opened[l], p[l], last - 1, FALSE)
  BY <1>1, <1>2, OuterFacts
<1>. QED BY <1>3, Zenon

\* At an else the operands of the first branch and the fence go: the inner block ends
\* and the block around it is found with the copy of the parameters kept for it.
LEMMA ElseGood ==
  ASSUME NEW list, NEW last, NEW opened, StateGood(list, last, opened), NEW f, f = Floor(list), f # last,
         NEW low \in Seq(ElementType), Len(low) = f - 1, \A k \in 1 .. f - 1 : low[k] = list[k],
         NEW after, after = Flagged(low, last, FALSE), NEW opened2, Shorter(opened, opened2)
  PROVE  StateGood(after, last, opened2)
<1>1. ListGood(list, last) /\ opened \in Seq(BlockType) /\ opened # <<>>
  BY Zenon DEF StateGood, BlocksGood
<1>2. PICK p : Placed(list, last, opened, p)
  BY Zenon DEF StateGood, BlocksGood
<1>3. /\ Len(list) \in Nat \ {0} /\ last \in 1 .. Len(list) /\ f \in last .. Len(list)
      /\ list[last].kind \in Structural /\ list[last].kind = "IF"
      /\ \A l \in last + 1 .. f - 1 : list[l].kind \in Number
  BY <1>1, ShapeFacts
<1>4. f = last + Len(list[last].type.params) + 1
  BY <1>1, ShapeFacts
<1>5. PICK n \in Nat \ {0} : n = f - 1 /\ last \in 1 .. n /\ n <= Len(list)
  BY <1>3
<1>6. PICK l \in Nat \ {0} :
           /\ Len(opened) = l + 1 /\ p[l + 1] = last
           /\ IF opened[l + 1].kind = "IFBLOCK"
              THEN p[l] = last /\ Matches(list, opened[l], last, last - 1, TRUE)
              ELSE p[l] = list[last].prev /\ Matches(list, opened[l], p[l], last - 1, FALSE)
  <2>1. list[last].kind # "FUNC"
    BY <1>3
  <2>. QED BY <1>1, <1>2, <2>1, OuterFacts
<1>7. opened[l + 1].kind = "IFBLOCK"
  <2>1. PICK m \in Nat \ {0} : m = l + 1
    OBVIOUS
  <2>2. Len(opened) = m /\ p[m] = last /\ Agrees(list, opened, p, m)
    <3>1. m \in 1 .. m /\ Len(opened) = m
      BY <1>6, <2>1
    <3>. QED BY <1>2, <1>6, <2>1, <3>1, Zenon DEF Placed
  <2>3. opened[m].kind = "IFBLOCK" <=> f # last
    BY <1>1, <2>2, LastFacts
  <2>. QED BY <2>1, <2>3
<1>8. p[l] = last /\ Matches(list, opened[l], last, last - 1, TRUE)
  BY <1>6, <1>7
<1>9. Len(low) = n /\ \A k \in 1 .. n : low[k] = list[k]
  BY <1>5
<1>10. /\ after \in Seq(ElementType) /\ Len(after) = n
       /\ \A k \in 1 .. n : k # last => after[k] = list[k]
       /\ after[last].kind = list[last].kind /\ after[last].type = list[last].type
       /\ after[last].prev = list[last].prev /\ after[last].formallyUnreachable = FALSE
  <2>1. PICK u \in BOOLEAN : u = FALSE
    OBVIOUS
  <2>2. after = Flagged(low, last, u) /\ last \in 1 .. Len(low)
    BY <1>5, <1>9, <2>1, Zenon
  <2>4. /\ Flagged(low, last, u) \in Seq(ElementType) /\ Len(Flagged(low, last, u)) = Len(low)
        /\ \A k \in 1 .. Len(low) : k # last => Flagged(low, last, u)[k] = low[k]
        /\ Flagged(low, last, u)[last].kind = low[last].kind /\ Flagged(low, last, u)[last].type = low[last].type
        /\ Flagged(low, last, u)[last].prev = low[last].prev
        /\ Flagged(low, last, u)[last].formallyUnreachable = u
    <3>1. last \in 1 .. Len(low)
      BY <2>2
    <3>. QED BY <3>1, FlaggedFacts
  <2>3. /\ after \in Seq(ElementType) /\ Len(after) = Len(low)
        /\ \A k \in 1 .. Len(low) : k # last => after[k] = low[k]
        /\ after[last].kind = low[last].kind /\ after[last].type = low[last].type
        /\ after[last].prev = low[last].prev /\ after[last].formallyUnreachable = u
    BY <2>2, <2>4, Zenon
  <2>. QED BY <1>5, <1>9, <2>1, <2>3, Zenon
<1>11. Cut(list, last, n, after)
  <2>1. Alike(list, after, n)
    <3>. SUFFICES ASSUME NEW k \in 1 .. n
                  PROVE  /\ after[k].kind = list[k].kind /\ after[k].type = list[k].type /\ after[k].prev = list[k].prev
                         /\ list[k].kind = "ELSE_FENCE" => after[k] = list[k]
      BY DEF Alike
    <3>1. CASE k # last
      BY <1>10, <3>1
    <3>2. CASE k = last
      BY <1>3, <1>10, <3>2
    <3>. QED BY <3>1, <3>2
  <2>2. \A k \in 1 .. n : k # last => after[k].formallyUnreachable = list[k].formallyUnreachable
    BY <1>10
  <2>. QED BY <1>5, <1>10, <2>1, <2>2, Zenon DEF Cut
<1>12. \A k \in last + 1 .. n : list[k].kind \in Number
  BY <1>3, <1>5
<1>13. Encloses(list, last, n + 1)
  <2>1. \A k \in last + 1 .. (n + 1) - 1 : list[k].kind \notin Structural
    BY <1>5, <1>12, KindFacts
  <2>2. last \in 1 .. (n + 1) - 1
    BY <1>5
  <2>. QED BY <1>3, <2>1, <2>2, Zenon DEF Encloses
<1>14. NoAny(list, last, n)
  <2>. SUFFICES ASSUME NEW k \in 1 .. n, list[k].kind = "any", Encloses(list, last, k) PROVE FALSE
    BY Zenon DEF NoAny
  <2>1. last \in 1 .. k - 1
    BY Zenon DEF Encloses
  <2>2. k \in last + 1 .. n
    BY <2>1
  <2>. QED BY <1>12, <2>2, KindFacts
<1>15. /\ opened[l].type = list[last].type /\ opened[l].kind = "BLOCK"
       /\ opened[l].unreachable \/ opened[l].count = Len(list[last].type.params)
  BY <1>8, Zenon DEF Matches
<1>16. Floor(Keep(after, n)) = last
  <2>1. PICK kept : kept = Keep(after, n)
    OBVIOUS
  <2>2. Len(kept) = n /\ \A k \in 1 .. n : kept[k] = after[k]
    <3>1. n \in 0 .. n
      OBVIOUS
    <3>2. n \in 0 .. Len(after)
      BY <1>10, <3>1, Zenon
    <3>. QED BY <1>10, <2>1, <3>2, KeepFacts, ZenonT(60)
  <2>3. kept[last].kind = "IF" /\ \A k \in last + 1 .. n : kept[k].kind \in Number
    <3>1. \A k \in last + 1 .. n : k \in 1 .. n /\ k # last
      BY <1>5
    <3>. QED BY <1>3, <1>5, <1>10, <1>12, <2>2, <3>1
  <2>4. ~IsNumber(kept[last]) /\ \A k \in last + 1 .. n : IsNumber(kept[k])
    BY <2>3, KindFacts DEF IsNumber, Structural
  <2>. QED BY <1>5, <2>1, <2>2, <2>4, FloorIs
<1>17. Matches(after, opened[l], last, n, FALSE)
  <2>1. /\ opened[l].type = after[last].type
        /\ opened[l].kind = IF after[last].kind # "IF" THEN after[last].kind
                            ELSE IF opened[l].kind = "IFBLOCK" THEN "IFBLOCK" ELSE "BLOCK"
    BY <1>3, <1>10, <1>15
  <2>2. Encloses(after, last, n + 1)
    <3>1. n + 1 \in 1 .. n + 1
      OBVIOUS
    <3>2. Alike(list, after, n)
      BY <1>11, Zenon DEF Cut
    <3>. QED BY <1>13, <3>1, <3>2, EnclosesAlike
  <2>3. ~(\E q \in last + 1 .. n : after[q].kind = "ELSE_FENCE") /\ opened[l].kind # "IFBLOCK"
    <3>1. \A q \in last + 1 .. n : after[q].kind \in Number
      <4>1. \A k \in last + 1 .. n : k \in 1 .. n /\ k # last
        BY <1>5
      <4>. QED BY <1>10, <1>12, <4>1
    <3>. QED BY <1>15, <3>1, KindFacts
  <2>4. opened[l].unreachable \/ opened[l].count = n - Floor(Keep(after, n))
    <3>1. n - last = Len(list[last].type.params)
      <4>1. Len(list[last].type.params) \in Nat
        BY <1>1, <1>3, ElementFacts, TypeFacts, SignatureFacts, SeqFacts DEF ListGood
      <4>. QED BY <1>4, <1>5, <4>1
    <3>. QED BY <1>15, <1>16, <3>1
  <2>. QED BY <1>10, <2>1, <2>2, <2>3, <2>4, Zenon DEF Matches
<1>. QED BY <1>1, <1>2, <1>5, <1>6, <1>8, <1>11, <1>13, <1>14, <1>17, CutGood

LEMMA ElseKeeps ==
  ASSUME GoodState, Len(elements') <= MaxElements, NEW i \in Instruction, Else(i)
  PROVE  Preserved
<1>. DEFINE results == elements[current].type.results
            after == [BelowFence EXCEPT ![current].formallyUnreachable = FALSE]
            opened == Front(blocks)
<1>1. Decide(ElseExpected, after, current, opened)
  BY Zenon DEF Else
<1>2. ASSUME ElseExpected PROVE StateGood(after, current, opened)
  <2>1. PICK types, low, f, b : /\ types = elements[current].type.results /\ low = Below(types)
                                /\ f = Floor(elements) /\ b = Base(elements, types)
    OBVIOUS
  <2>2. Holds(elements, types) /\ Last(low) = ElseFence /\ elements[current].kind = "IF"
    BY <1>2, <2>1, Zenon DEF ElseExpected
  <2>3. ListGood(elements, current) /\ StateGood(elements, current, blocks)
    BY DEF GoodState, StateGood
  <2>4. elements \in Seq(ElementType) /\ current \in 1 .. Len(elements)
    BY <2>3 DEF ListGood
  <2>5. types \in Seq(Number) /\ Len(types) \in Nat
    BY <2>1, <2>4, SeqFacts, ElementFacts, TypeFacts, SignatureFacts
  <2>6. /\ b \in f .. Len(elements) /\ f \in Nat \ {0} /\ Len(elements) \in Nat
        /\ LowPart(elements, f, low) /\ Len(low) = b
    BY <2>1, <2>2, <2>3, <2>5, HoldsFacts
  <2>7. low \in Seq(ElementType) /\ \A k \in 1 .. b : low[k] = elements[k]
    BY <2>6 DEF LowPart
  <2>8. elements[b] = ElseFence
    <3>1. b \in 1 .. b
      BY <2>6
    <3>. QED BY <2>2, <2>6, <2>7, <3>1 DEF Last
  <2>9. b = f
    <3>1. \A k \in f + 1 .. Len(elements) : IsNumber(elements[k])
      BY <2>1, <2>3, ShapeFacts
    <3>2. ~IsNumber(ElseFence)
      BY FenceElement, KindFacts DEF IsNumber
    <3>. QED BY <2>6, <2>8, <3>1, <3>2
  <2>10. f # current
    BY <2>2, <2>8, <2>9, FenceElement
  <2>11. low # <<>>
    BY <2>6, <2>7, SeqFacts
  <2>12. PICK low2 : low2 = Front(low)
    OBVIOUS
  <2>13. low2 \in Seq(ElementType) /\ Len(low2) = f - 1 /\ \A k \in 1 .. f - 1 : low2[k] = elements[k]
    <3>1. /\ Front(low) \in Seq(ElementType) /\ Len(Front(low)) = Len(low) - 1
          /\ \A k \in 1 .. Len(low) - 1 : Front(low)[k] = low[k]
      BY <2>7, <2>11, FrontFacts
    <3>2. \A k \in 1 .. f - 1 : k \in 1 .. b
      BY <2>9, <2>6
    <3>. QED BY <2>6, <2>7, <2>9, <2>12, <3>1, <3>2
  <2>14. after = Flagged(low2, current, FALSE)
    BY <2>1, <2>12, Zenon DEF BelowFence, Flagged
  <2>15. Shorter(blocks, opened)
    <3>1. blocks \in Seq(BlockType) /\ blocks # <<>>
      BY <2>3 DEF StateGood, BlocksGood
    <3>. QED BY <3>1, FrontFacts DEF Shorter
  <2>16. PICK list, opened2 : list = after /\ opened2 = opened
    OBVIOUS
  <2>17. StateGood(list, current, opened2)
    <3>1. list = Flagged(low2, current, FALSE) /\ Shorter(blocks, opened2)
      BY <2>14, <2>15, <2>16, Zenon
    <3>. QED BY <2>1, <2>3, <2>10, <2>13, <3>1, ElseGood, Zenon
  <2>. QED BY <2>16, <2>17, Zenon
<1>. HIDE DEF after, opened
<1>. QED BY <1>1, <1>2, Decided

\* At an end that closes the structural element the list goes back to below it, where
\* the element around it is current again.
LEMMA CloseGood ==
  ASSUME NEW list, NEW last, NEW opened, StateGood(list, last, opened), list[last].kind # "FUNC",
         opened[Len(opened)].kind # "IFBLOCK",
         NEW low \in Seq(ElementType), Len(low) = last - 1, \A k \in 1 .. last - 1 : low[k] = list[k],
         NEW opened2, Shorter(opened, opened2)
  PROVE  StateGood(low, list[last].prev, opened2)
<1>1. ListGood(list, last) /\ opened \in Seq(BlockType) /\ opened # <<>>
  BY Zenon DEF StateGood, BlocksGood
<1>2. PICK p : Placed(list, last, opened, p)
  BY Zenon DEF StateGood, BlocksGood
<1>3. /\ list \in Seq(ElementType) /\ last \in 1 .. Len(list) /\ list[1].kind = "FUNC"
      /\ list[last].kind \in Structural
      /\ \A k \in 2 .. Len(list) : WellPlaced(list, k)
  BY <1>1 DEF ListGood, Encloses
<1>4. Len(list) \in Nat \ {0}
  BY <1>1, ShapeFacts
<1>5. last # 1
  BY <1>3
<1>6. PICK n \in Nat \ {0} : n = last - 1 /\ last = n + 1 /\ n <= Len(list)
  BY <1>3, <1>4, <1>5
<1>7. PICK last2 : last2 = list[last].prev
  OBVIOUS
<1>8. Encloses(list, last2, last)
  <2>1. last \in 2 .. Len(list)
    BY <1>3, <1>5
  <2>. QED BY <1>3, <1>7, <2>1, Zenon DEF WellPlaced
<1>9. last2 \in 1 .. n /\ Encloses(list, last2, n + 1)
  <2>1. last2 \in 1 .. last - 1
    BY <1>8, Zenon DEF Encloses
  <2>. QED BY <1>6, <1>8, <2>1, Zenon
<1>10. PICK l \in Nat \ {0} :
           /\ Len(opened) = l + 1 /\ p[l + 1] = last
           /\ IF opened[l + 1].kind = "IFBLOCK"
              THEN p[l] = last /\ Matches(list, opened[l], last, last - 1, TRUE)
              ELSE p[l] = list[last].prev /\ Matches(list, opened[l], p[l], last - 1, FALSE)
  BY <1>1, <1>2, OuterFacts, ZenonT(60)
<1>11. p[l] = last2 /\ Matches(list, opened[l], last2, n, FALSE)
  BY <1>6, <1>7, <1>10, Zenon
<1>12. Len(low) = n /\ \A k \in 1 .. n : low[k] = list[k]
  BY <1>6, Zenon
<1>13. Alike(list, low, n)
  BY <1>12, Zenon DEF Alike
<1>14. Cut(list, last, n, low)
  BY <1>6, <1>12, <1>13, Zenon DEF Cut
<1>15. NoAny(list, last, n)
  <2>. SUFFICES ASSUME NEW k \in 1 .. n, Encloses(list, last, k) PROVE FALSE
    BY Zenon DEF NoAny
  <2>1. last \in 1 .. k - 1
    BY Zenon DEF Encloses
  <2>. QED BY <1>6, <2>1
<1>16. Matches(low, opened[l], last2, n, FALSE)
  <2>1. PICK waits \in BOOLEAN : waits = FALSE
    OBVIOUS
  <2>2. n \in 0 .. n /\ n <= Len(low)
    BY <1>12
  <2>3. low[last2].formallyUnreachable = list[last2].formallyUnreachable
    BY <1>9, <1>12, Zenon
  <2>4. Matches(list, opened[l], last2, n, waits)
    BY <1>11, <2>1, Zenon
  <2>5. Matches(low, opened[l], last2, n, waits)
    BY <1>3, <1>6, <1>9, <1>13, <2>2, <2>3, <2>4, MatchesAlike
  <2>. QED BY <2>1, <2>5, Zenon
<1>17. StateGood(low, last2, opened2)
  BY <1>1, <1>2, <1>9, <1>10, <1>11, <1>14, <1>15, <1>16, CutGood
<1>. QED BY <1>7, <1>17, Zenon

ClosedInto(opened, l, back, opened2) ==
  /\ SameBlock(Front(opened), opened2) /\ opened2[l].unreachable = opened[l].unreachable
  /\ opened[l].unreachable \/ opened2[l].count = opened[l].count + back

LEMMA ClosedFacts ==
  ASSUME NEW opened \in Seq(BlockType), NEW l \in Nat \ {0}, Len(opened) = l + 1, NEW n \in Nat, NEW back \in Nat,
         opened[l + 1].unreachable \/ opened[l + 1].count = n,
         opened[l].unreachable \/ opened[l].count + back <= MaxElements
  PROVE  ClosedInto(opened, l, back, Closed(opened, n, back))
<1>1. PICK front : front = Front(opened)
  OBVIOUS
<1>2. /\ front \in Seq(BlockType) /\ Len(front) = l
      /\ \A k \in 1 .. l : front[k] = opened[k]
  <2>1. opened # <<>>
    BY SeqFacts
  <2>2. /\ Front(opened) \in Seq(BlockType) /\ Len(Front(opened)) = Len(opened) - 1
        /\ \A k \in 1 .. Len(opened) - 1 : Front(opened)[k] = opened[k]
    BY <2>1, FrontFacts
  <2>3. Len(opened) - 1 = l
    OBVIOUS
  <2>. QED BY <1>1, <2>2, <2>3, Zenon
<1>3. l \in 1 .. l /\ l \in 1 .. Len(opened) /\ l + 1 \in 1 .. Len(opened) /\ Len(opened) - 1 = l
  OBVIOUS
<1>4. opened[l] \in BlockType /\ front[l] = opened[l] /\ Last(opened) = opened[l + 1]
  BY <1>2, <1>3, SeqFacts DEF Last
<1>5. opened[l].unreachable \in BOOLEAN /\ opened[l].count \in 0 .. MaxElements /\ MaxElements \in Nat
  BY <1>4, BlockFields, BoundAssumption
<1>6. PICK left : left = IF opened[l + 1].unreachable THEN 0 ELSE opened[l + 1].count - n
  OBVIOUS
<1>7. left = 0
  BY <1>6
<1>8. PICK c \in 0 .. MaxElements : c = IF opened[l].unreachable THEN 0 ELSE opened[l].count + left + back
  BY <1>5, <1>7
<1>9. Closed(opened, n, back) = Counted(front, l, c)
  <2>1. Closed(opened, n, back) =
          [front EXCEPT ![l].count = IF opened[l].unreachable THEN 0 ELSE front[l].count + left + back]
    BY <1>1, <1>3, <1>4, <1>6 DEF Closed
  <2>. QED BY <1>4, <1>8, <2>1, Zenon DEF Counted
<1>10. PICK after : after = Counted(front, l, c)
  OBVIOUS
<1>11. /\ after \in Seq(BlockType) /\ Len(after) = Len(front)
       /\ \A k \in 1 .. Len(front) : k # l => after[k] = front[k]
       /\ after[l].kind = front[l].kind /\ after[l].type = front[l].type
       /\ after[l].unreachable = front[l].unreachable /\ after[l].count = c
  <2>1. front \in Seq(BlockType) /\ l \in 1 .. Len(front)
    BY <1>2
  <2>2. /\ Counted(front, l, c) \in Seq(BlockType) /\ Len(Counted(front, l, c)) = Len(front)
        /\ \A k \in 1 .. Len(front) : k # l => Counted(front, l, c)[k] = front[k]
        /\ Counted(front, l, c)[l].kind = front[l].kind /\ Counted(front, l, c)[l].type = front[l].type
        /\ Counted(front, l, c)[l].unreachable = front[l].unreachable /\ Counted(front, l, c)[l].count = c
    BY <2>1, CountedFacts
  <2>. QED BY <1>10, <2>2, Zenon
<1>12. SameBlock(front, after)
  <2>1. \A k \in 1 .. l - 1 : k \in 1 .. l /\ k # l
    OBVIOUS
  <2>. QED BY <1>2, <1>11, <2>1, Zenon DEF SameBlock
<1>13. opened[l].unreachable \/ after[l].count = opened[l].count + back
  BY <1>5, <1>7, <1>8, <1>11
<1>. QED BY <1>1, <1>4, <1>9, <1>10, <1>11, <1>12, <1>13, Zenon DEF ClosedInto

Pushed(low, types, after) == after = low \o Values(types)

\* ... and the results that are then pushed are counted in the block around it.
LEMMA CloseCounted ==
  ASSUME NEW list, NEW last, NEW opened, StateGood(list, last, opened), list[last].kind # "FUNC",
         NEW l \in Nat \ {0}, Len(opened) = l + 1, opened[l + 1].kind # "IFBLOCK",
         NEW low \in Seq(ElementType), Len(low) = last - 1, \A k \in 1 .. last - 1 : low[k] = list[k],
         NEW types \in Seq(Number), NEW n \in Nat, Len(types) = n,
         opened[l + 1].unreachable \/ opened[l + 1].count = n,
         NEW after, Pushed(low, types, after), Len(after) <= MaxElements
  PROVE  StateGood(after, list[last].prev, Closed(opened, n, n))
<1>1. PICK front, last2, new, f : /\ front = Front(opened) /\ last2 = list[last].prev
                                  /\ new = Values(types) /\ f = Floor(low)
  OBVIOUS
<1>2. opened \in Seq(BlockType) /\ opened # <<>>
  BY Zenon DEF StateGood, BlocksGood
<1>3. Shorter(opened, front) /\ front \in Seq(BlockType) /\ Len(front) = l /\ front[l] = opened[l]
  <2>1. /\ Front(opened) \in Seq(BlockType) /\ Len(Front(opened)) = Len(opened) - 1
        /\ \A k \in 1 .. Len(opened) - 1 : Front(opened)[k] = opened[k]
    BY <1>2, FrontFacts
  <2>2. Len(opened) - 1 = l /\ l \in 1 .. l
    OBVIOUS
  <2>. QED BY <1>1, <2>1, <2>2, Zenon DEF Shorter
<1>4. StateGood(low, last2, front)
  <2>1. opened[Len(opened)].kind # "IFBLOCK"
    OBVIOUS
  <2>2. StateGood(low, list[last].prev, front)
    BY <1>3, <2>1, CloseGood, Zenon
  <2>. QED BY <1>1, <2>2, Zenon
<1>5. ListGood(low, last2) /\ BlocksGood(low, last2, front)
  BY <1>4, Zenon DEF StateGood
<1>6. /\ Len(low) \in Nat /\ last2 \in 1 .. Len(low) /\ f \in last2 .. Len(low)
  BY <1>1, <1>5, ShapeFacts
<1>7. LowPart(low, f, low)
  <2>1. Len(low) \in f .. Len(low)
    BY <1>6
  <2>. QED BY <2>1, Zenon DEF LowPart
<1>8. Operands(new, low[last2]) /\ Len(new) = n
  BY <1>1, MadeOperands
<1>9. Replaces(low, last2, f, after) /\ after[last2] = low[last2] /\ Len(after) = Len(low) + n
  <2>1. after = low \o new
    BY <1>1, Zenon DEF Pushed
  <2>2. Stacked(low, last2, f, low, new, after)
    BY <1>1, <1>5, <1>7, <1>8, <2>1, NewOperands
  <2>. QED BY <1>8, <2>2, Zenon DEF Stacked
<1>10. /\ low[last2].formallyUnreachable => front[l].unreachable
       /\ front[l].unreachable \/ front[l].count = Len(low) - f
  <2>1. PICK p : Placed(low, last2, front, p)
    BY <1>5, Zenon DEF BlocksGood
  <2>2. l \in 1 .. l
    OBVIOUS
  <2>3. p[l] = last2 /\ Agrees(low, front, p, l)
    BY <1>3, <2>1, <2>2, Zenon DEF Placed
  <2>. QED BY <1>1, <1>3, <1>5, <2>3, LastFacts
<1>11. opened[l].unreachable \/ (opened[l].count + n <= MaxElements /\ opened[l].count + n = Len(after) - f)
  <2>1. \A a, b, d, g, e \in Int : a = b - e /\ d = b + n /\ d <= g /\ e >= 0 => a + n <= g /\ a + n = d - e
    OBVIOUS
  <2>4. f \in Int /\ f >= 0
    BY <1>6
  <2>2. opened[l].unreachable \/ (opened[l].count = Len(low) - f /\ opened[l].count \in Int)
    BY <1>3, <1>6, <1>10
  <2>3. Len(after) = Len(low) + n /\ Len(after) \in Int /\ Len(low) \in Int /\ MaxElements \in Int
    BY <1>6, <1>9, BoundAssumption
  <2>. QED BY <2>1, <2>2, <2>3, <2>4, SMTT(60)
<1>12. PICK opened2 : opened2 = Closed(opened, n, n)
  OBVIOUS
<1>13. /\ SameBlock(front, opened2) /\ opened2[l].unreachable = opened[l].unreachable
       /\ opened[l].unreachable \/ opened2[l].count = opened[l].count + n
  <2>1. ClosedInto(opened, l, n, Closed(opened, n, n))
    <3>1. opened[l].unreachable \/ opened[l].count + n <= MaxElements
      BY <1>11
    <3>2. opened \in Seq(BlockType) /\ l \in Nat \ {0} /\ Len(opened) = l + 1 /\ n \in Nat
      BY <1>2
    <3>. QED BY <3>1, <3>2, ClosedFacts
  <2>. QED BY <1>1, <1>12, <2>1, Zenon DEF ClosedInto
<1>14. /\ after[last2].formallyUnreachable => opened2[l].unreachable
       /\ opened2[l].unreachable \/ opened2[l].count = Len(after) - f
  BY <1>3, <1>9, <1>10, <1>11, <1>13, Zenon
<1>15. StateGood(after, last2, opened2)
  <2>1. f = Floor(low) /\ l = Len(front)
    BY <1>1, <1>3, Zenon
  <2>. QED BY <1>5, <1>9, <1>13, <1>14, <2>1, SameBlockGood, Zenon
<1>. QED BY <1>1, <1>12, <1>15, Zenon

AreResults(types) == types = elements[current].type.results

\* At an end the operands are exactly the results.
LEMMA EndFacts ==
  ASSUME GoodState, EndExpected, NEW f, f = Floor(elements), NEW m, m = Len(blocks),
         NEW types, AreResults(types), NEW n, n = Len(types)
  PROVE  /\ types \in Seq(Number) /\ n \in Nat
         /\ blocks[m].unreachable \/ blocks[m].count = n
<1>1. ListGood(elements, current)
  BY DEF GoodState, StateGood
<1>2. elements \in Seq(ElementType) /\ current \in 1 .. Len(elements)
  BY <1>1 DEF ListGood
<1>3. types \in Seq(Number) /\ n \in Nat
  BY <1>2, SeqFacts, ElementFacts, TypeFacts, SignatureFacts DEF AreResults
<1>4. PICK b, list : b = Base(elements, types) /\ list = types
  OBVIOUS
<1>5. /\ Holds(elements, list)
      /\ b = current \/ elements[b] = ElseFence
  BY <1>4, Zenon DEF EndExpected, AreResults
<1>6. PICK h : h = f
  OBVIOUS
<1>7. /\ b \in h .. Len(elements) /\ h \in Nat \ {0} /\ Len(elements) \in Nat
      /\ FormallyUnreachable \/ (b = Len(elements) - n)
  <2>1. Len(list) \in Nat /\ b = Base(elements, list) /\ Len(list) = n
    BY <1>3, <1>4
  <2>. QED BY <1>1, <1>5, <1>6, <2>1, HoldsFacts
<1>8. h \in current .. Len(elements) /\ \A k \in h + 1 .. Len(elements) : IsNumber(elements[k])
  BY <1>1, <1>6, ShapeFacts
<1>9. b = h
  <2>1. ~IsNumber(ElseFence)
    BY FenceElement, KindFacts DEF IsNumber
  <2>2. CASE b = current
    BY <1>2, <1>7, <1>8, <2>2
  <2>3. CASE elements[b] = ElseFence
    BY <1>7, <1>8, <2>1, <2>3
  <2>. QED BY <1>5, <2>2, <2>3
<1>10. /\ FormallyUnreachable => blocks[m].unreachable
       /\ blocks[m].unreachable \/ blocks[m].count = Len(elements) - h
  BY <1>6, StateFacts
<1>11. FormallyUnreachable \/ Len(elements) - h = n
  <2>1. \A u, v, w \in Int : v = u - w => u - v = w
    OBVIOUS
  <2>. QED BY <1>3, <1>7, <1>9, <2>1
<1>. QED BY <1>3, <1>10, <1>11, Zenon

\* What the end of an if without an else leaves before its block is popped: the
\* inner block is gone, and the parameters are what its first copy says.
ElseTaken(list, last, list1) ==
  /\ \A k \in 1 .. last - 1 : list1[k] = list[k]
  /\ list1[last].prev = list[last].prev /\ list1[last].kind = list[last].kind

BlockWith(opened1, l, n) ==
  /\ opened1 \in Seq(BlockType) /\ Len(opened1) = l
  /\ opened1[l].kind = "BLOCK" /\ (opened1[l].unreachable \/ opened1[l].count = n)

\* An end of an if without else first does what the else would do; what is left is a
\* block that holds just the parameters kept for the second branch.
LEMMA WithoutElse ==
  ASSUME NEW list, NEW last, NEW opened, StateGood(list, last, opened), list[last].kind # "FUNC",
         NEW l \in Nat \ {0}, Len(opened) = l + 1, opened[l + 1].kind = "IFBLOCK",
         NEW n \in Nat, opened[l + 1].unreachable \/ opened[l + 1].count = n,
         Len(list[last].type.params) = n
  PROVE  \E list1 : /\ StateGood(list1, last, Closed(opened, n, 0)) /\ ElseTaken(list, last, list1)
                    /\ BlockWith(Closed(opened, n, 0), l, n)
<1>1. ListGood(list, last) /\ opened \in Seq(BlockType) /\ opened # <<>>
  BY Zenon DEF StateGood, BlocksGood
<1>2. PICK p : Placed(list, last, opened, p)
  BY Zenon DEF StateGood, BlocksGood
<1>3. PICK f : f = Floor(list)
  OBVIOUS
<1>4. PICK m \in Nat \ {0} : m = l + 1
  OBVIOUS
<1>5. Len(opened) = m /\ opened[m].kind = "IFBLOCK" /\ l \in 1 .. m /\ l \in 1 .. l
  BY <1>4
<1>6. f # last
  <2>1. m \in 1 .. m
    OBVIOUS
  <2>2. p[m] = last /\ Agrees(list, opened, p, m)
    BY <1>2, <1>5, <2>1, Zenon DEF Placed
  <2>. QED BY <1>1, <1>3, <1>5, <2>2, LastFacts
<1>7. /\ list \in Seq(ElementType) /\ Len(list) \in Nat \ {0} /\ last \in 1 .. Len(list) /\ f \in last .. Len(list)
  BY <1>1, <1>3, ShapeFacts DEF ListGood
<1>8. PICK w \in Nat \ {0} : w = f - 1 /\ last \in 1 .. w /\ w \in 0 .. Len(list)
  BY <1>6, <1>7
<1>9. PICK low, front : low = Keep(list, w) /\ front = Front(opened)
  OBVIOUS
<1>10. low \in Seq(ElementType) /\ Len(low) = w /\ \A k \in 1 .. w : low[k] = list[k]
  BY <1>7, <1>8, <1>9, KeepFacts, ZenonT(60)
<1>11. Shorter(opened, front) /\ front \in Seq(BlockType) /\ Len(front) = l /\ front[l] = opened[l]
  <2>1. /\ Front(opened) \in Seq(BlockType) /\ Len(Front(opened)) = Len(opened) - 1
        /\ \A k \in 1 .. Len(opened) - 1 : Front(opened)[k] = opened[k]
    BY <1>1, FrontFacts
  <2>2. Len(opened) - 1 = l
    OBVIOUS
  <2>. QED BY <1>5, <1>9, <2>1, <2>2, Zenon DEF Shorter
<1>12. PICK list1 : list1 = Flagged(low, last, FALSE)
  OBVIOUS
<1>13. StateGood(list1, last, front)
  <2>1. Len(low) = f - 1 /\ \A k \in 1 .. f - 1 : low[k] = list[k]
    BY <1>8, <1>10, Zenon
  <2>. QED BY <1>3, <1>6, <1>10, <1>11, <1>12, <2>1, ElseGood, Zenon
<1>14. /\ \A k \in 1 .. w : k # last => list1[k] = low[k]
       /\ list1[last].kind = low[last].kind /\ list1[last].prev = low[last].prev
  <2>1. PICK u \in BOOLEAN : u = FALSE
    OBVIOUS
  <2>2. last \in 1 .. Len(low)
    BY <1>8, <1>10, Zenon
  <2>3. /\ \A k \in 1 .. Len(low) : k # last => Flagged(low, last, u)[k] = low[k]
        /\ Flagged(low, last, u)[last].kind = low[last].kind /\ Flagged(low, last, u)[last].prev = low[last].prev
    <3>1. low \in Seq(ElementType)
      BY <1>10
    <3>. QED BY <2>2, <3>1, FlaggedFacts
  <2>. QED BY <1>10, <1>12, <2>1, <2>3, Zenon
<1>15. ElseTaken(list, last, list1)
  <2>1. \A k \in 1 .. last - 1 : k \in 1 .. w /\ k # last
    BY <1>7, <1>8
  <2>. QED BY <1>8, <1>10, <1>14, <2>1, Zenon DEF ElseTaken
<1>16. /\ opened[l].kind = "BLOCK"
       /\ opened[l].unreachable \/ opened[l].count = n
  <2>1. PICK l2 \in Nat \ {0} :
           /\ Len(opened) = l2 + 1 /\ p[l2 + 1] = last
           /\ IF opened[l2 + 1].kind = "IFBLOCK"
              THEN p[l2] = last /\ Matches(list, opened[l2], last, last - 1, TRUE)
              ELSE p[l2] = list[last].prev /\ Matches(list, opened[l2], p[l2], last - 1, FALSE)
    BY <1>1, <1>2, OuterFacts
  <2>2. l2 = l
    BY <2>1
  <2>3. Matches(list, opened[l], last, last - 1, TRUE)
    BY <2>1, <2>2, Zenon
  <2>. QED BY <2>3, Zenon DEF Matches
<1>17. PICK opened1 : opened1 = Closed(opened, n, 0)
  OBVIOUS
<1>18. /\ SameBlock(front, opened1) /\ opened1[l].unreachable = opened[l].unreachable
       /\ opened[l].unreachable \/ opened1[l].count = opened[l].count
  <2>1. opened[l] \in BlockType
    BY <1>1, <1>5, SeqFacts
  <2>2. opened[l].count \in 0 .. MaxElements /\ MaxElements \in Nat
    BY <2>1, BlockFields, BoundAssumption
  <2>3. PICK zero \in Nat : zero = 0
    OBVIOUS
  <2>4. opened[l].unreachable \/ opened[l].count + zero <= MaxElements
    BY <2>2, <2>3
  <2>5. ClosedInto(opened, l, zero, Closed(opened, n, zero))
    BY <1>1, <2>4, ClosedFacts
  <2>6. opened[l].count + zero = opened[l].count
    BY <2>2, <2>3
  <2>. QED BY <1>9, <1>17, <2>3, <2>5, <2>6, Zenon DEF ClosedInto
<1>19. opened1 \in Seq(BlockType) /\ Len(opened1) = l /\ opened1[l].kind = opened[l].kind
  BY <1>11, <1>18, Zenon DEF SameBlock
<1>20. BlockWith(opened1, l, n)
  BY <1>16, <1>18, <1>19, Zenon DEF BlockWith
<1>21. StateGood(list1, last, opened1)
  <2>1. PICK g : g = Floor(list1)
    OBVIOUS
  <2>2. ListGood(list1, last) /\ BlocksGood(list1, last, front)
    BY <1>13, Zenon DEF StateGood
  <2>3. LowPart(list1, g, list1)
    <3>1. Len(list1) \in Nat /\ g \in last .. Len(list1) /\ list1 \in Seq(ElementType)
      BY <2>1, <2>2, ShapeFacts DEF ListGood
    <3>2. Len(list1) \in g .. Len(list1)
      BY <3>1
    <3>. QED BY <3>1, <3>2, Zenon DEF LowPart
  <2>4. Replaces(list1, last, g, list1)
    BY <2>1, <2>2, <2>3, LowOperands
  <2>5. /\ list1[last].formallyUnreachable => front[l].unreachable
        /\ front[l].unreachable \/ front[l].count = Len(list1) - g
    <3>1. PICK q : Placed(list1, last, front, q)
      BY <2>2, Zenon DEF BlocksGood
    <3>2. q[l] = last /\ Agrees(list1, front, q, l)
      BY <1>5, <1>11, <3>1, Zenon DEF Placed
    <3>. QED BY <1>11, <2>1, <2>2, <3>2, LastFacts
  <2>6. /\ list1[last].formallyUnreachable => opened1[l].unreachable
        /\ opened1[l].unreachable \/ opened1[l].count = Len(list1) - g
    BY <1>11, <1>18, <2>5, Zenon
  <2>. QED BY <1>11, <1>18, <2>1, <2>2, <2>4, <2>6, SameBlockGood, Zenon
<1>. QED BY <1>15, <1>17, <1>20, <1>21, Zenon

LEMMA EndBlockKeeps ==
  ASSUME GoodState, Len(elements') <= MaxElements, NEW i \in Instruction, EndBlock(i)
  PROVE  Preserved
<1>. DEFINE e == elements[current]
            results == e.type.results
            n == Len(results)
            noElse == Last(blocks).kind = "IFBLOCK"
            valid == EndExpected /\ (noElse => Len(e.type.params) = n)
            after == Keep(elements, current - 1) \o Kept(results)
            opened == IF noElse THEN Closed(Closed(blocks, n, 0), n, n) ELSE Closed(blocks, n, n)
<1>1. Decide(valid, after, e.prev, opened) /\ e.kind # "FUNC"
  BY Zenon DEF EndBlock
<1>2. ASSUME valid, Len(after) <= MaxElements
      PROVE  StateGood(after, e.prev, opened)
  <2>1. PICK types, w, low, list : types = results /\ w = n /\ low = Keep(elements, current - 1) /\ list = after
    OBVIOUS
  <2>2. PICK m \in Nat \ {0} : m = Len(blocks)
    BY StateFacts
  <2>3. StateGood(elements, current, blocks) /\ ListGood(elements, current)
    BY DEF GoodState, StateGood
  <2>4. blocks \in Seq(BlockType) /\ blocks # <<>> /\ Last(blocks) = blocks[m]
    BY <2>2, <2>3 DEF StateGood, BlocksGood, Last
  <2>5. types \in Seq(Number) /\ w \in Nat /\ Len(types) = w /\ (blocks[m].unreachable \/ blocks[m].count = w)
    <3>1. EndExpected
      BY <1>2
    <3>2. PICK f : f = Floor(elements)
      OBVIOUS
    <3>3. AreResults(types)
      BY <2>1, Zenon DEF AreResults
    <3>. QED BY <2>1, <2>2, <3>1, <3>2, <3>3, EndFacts, Zenon
  <2>6. elements \in Seq(ElementType) /\ current \in 1 .. Len(elements) /\ elements[1].kind = "FUNC"
    BY <2>3 DEF ListGood
  <2>7. current - 1 \in 0 .. Len(elements)
    BY <2>6, SeqFacts
  <2>8. low \in Seq(ElementType) /\ Len(low) = current - 1 /\ \A k \in 1 .. current - 1 : low[k] = elements[k]
    BY <2>1, <2>6, <2>7, KeepFacts
  <2>9. Pushed(low, types, list) /\ Len(list) <= MaxElements
    <3>1. Pushed(low, types, list)
      BY <2>1, Zenon DEF Pushed, Kept
    <3>2. Len(list) <= MaxElements
      BY <1>2, <2>1, Zenon
    <3>. QED BY <3>1, <3>2
  <2>10. PICK l \in Nat \ {0} : m = l + 1
    <3>1. elements[current].kind # "FUNC"
      BY <1>1
    <3>2. PICK l \in Nat \ {0} : Len(blocks) = l + 1
      BY <2>3, <3>1, OuterExists, Zenon
    <3>. QED BY <2>2, <3>2, Zenon
  <2>11. Len(blocks) = l + 1 /\ (blocks[l + 1].unreachable \/ blocks[l + 1].count = w)
    BY <2>2, <2>5, <2>10, Zenon
  <2>12. CASE blocks[m].kind # "IFBLOCK"
    <3>1. blocks[l + 1].kind # "IFBLOCK" /\ elements[current].kind # "FUNC"
      BY <1>1, <2>10, <2>12, Zenon
    <3>2. StateGood(list, elements[current].prev, Closed(blocks, w, w))
      BY <2>3, <2>5, <2>8, <2>9, <2>11, <3>1, CloseCounted, Zenon
    <3>3. opened = Closed(blocks, w, w)
      BY <2>1, <2>4, <2>12, Zenon
    <3>. QED BY <2>1, <3>2, <3>3, Zenon
  <2>13. CASE blocks[m].kind = "IFBLOCK"
    <3>1. blocks[l + 1].kind = "IFBLOCK" /\ elements[current].kind # "FUNC"
      BY <1>1, <2>10, <2>13, Zenon
    <3>2. Len(elements[current].type.params) = w
      BY <1>2, <2>1, <2>4, <2>13, Zenon
    <3>3. PICK list1 : /\ StateGood(list1, current, Closed(blocks, w, 0)) /\ ElseTaken(elements, current, list1)
                       /\ BlockWith(Closed(blocks, w, 0), l, w)
      BY <2>3, <2>5, <2>11, <3>1, <3>2, WithoutElse, Zenon
    <3>4. PICK opened1 : opened1 = Closed(blocks, w, 0)
      OBVIOUS
    <3>5. /\ StateGood(list1, current, opened1)
          /\ opened1 \in Seq(BlockType) /\ Len(opened1) = l
          /\ opened1[l].kind = "BLOCK" /\ (opened1[l].unreachable \/ opened1[l].count = w)
      BY <3>3, <3>4, Zenon DEF BlockWith
    <3>6. /\ \A k \in 1 .. current - 1 : list1[k] = elements[k]
          /\ list1[current].prev = elements[current].prev /\ list1[current].kind = elements[current].kind
      BY <3>3, Zenon DEF ElseTaken
    <3>7. PICK l2 \in Nat \ {0} : l = l2 + 1
      <4>1. list1[current].kind # "FUNC"
        BY <3>1, <3>6, Zenon
      <4>2. PICK l2 \in Nat \ {0} : Len(opened1) = l2 + 1
        BY <3>5, <4>1, OuterExists, Zenon
      <4>. QED BY <3>5, <4>2, Zenon
    <3>8. /\ Len(opened1) = l2 + 1 /\ opened1[l2 + 1].kind # "IFBLOCK"
          /\ opened1[l2 + 1].unreachable \/ opened1[l2 + 1].count = w
      <4>1. opened1[l].kind # "IFBLOCK"
        BY <3>5
      <4>. QED BY <3>5, <3>7, <4>1, Zenon
    <3>9. list1[current].kind # "FUNC" /\ \A k \in 1 .. current - 1 : low[k] = list1[k]
      BY <2>8, <3>1, <3>6, Zenon
    <3>10. StateGood(list, list1[current].prev, Closed(opened1, w, w))
      BY <2>5, <2>8, <2>9, <3>5, <3>8, <3>9, CloseCounted, Zenon
    <3>11. opened = Closed(opened1, w, w)
      BY <2>1, <2>4, <2>13, <3>4, Zenon
    <3>. QED BY <2>1, <3>6, <3>10, <3>11, Zenon
  <2>. QED BY <2>12, <2>13
<1>. HIDE DEF after, opened, valid
<1>. QED BY <1>1, <1>2, Decided

(***************************************************************************)
(* The invariant.                                                          *)
(***************************************************************************)
\* The parts of a good state are the conjuncts of the invariant.
LEMMA GoodParts ==
  ASSUME NEW list, NEW last, NEW opened, StateGood(list, last, opened)
  PROVE  /\ list \in Seq(ElementType) /\ opened \in Seq(BlockType) /\ opened # <<>> /\ list # <<>>
         /\ last \in DOMAIN list /\ list[last].kind \in Structural
         /\ list[1].kind = "FUNC" /\ list[1].prev = 0 /\ Encloses(list, last, Len(list) + 1)
         /\ \A k \in DOMAIN list \ {1} : WellPlaced(list, k)
         /\ \A j, k \in DOMAIN list :
              list[k].kind = "any" /\ Encloses(list, j, k) => list[j].formallyUnreachable
         /\ PlacesOf(list, last, opened)[1] = 1
         /\ \A k \in DOMAIN opened : Agrees(list, opened, PlacesOf(list, last, opened), k)
<1>1. ListGood(list, last) /\ BlocksGood(list, last, opened)
  BY Zenon DEF StateGood
<1>2. opened \in Seq(BlockType) /\ opened # <<>>
  BY <1>1, Zenon DEF BlocksGood
<1>3. /\ PlacesOf(list, last, opened)[1] = 1
      /\ \A k \in DOMAIN opened : Agrees(list, opened, PlacesOf(list, last, opened), k)
  BY <1>1, GoodAgrees
<1>4. /\ list \in Seq(ElementType) /\ last \in 1 .. Len(list)
      /\ list[1].kind = "FUNC" /\ list[1].prev = 0 /\ Encloses(list, last, Len(list) + 1)
      /\ \A k \in 2 .. Len(list) : WellPlaced(list, k)
      /\ \A j, k \in 1 .. Len(list) :
           list[k].kind = "any" /\ Encloses(list, j, k) => list[j].formallyUnreachable
  BY <1>1, Zenon DEF ListGood
<1>5. DOMAIN list = 1 .. Len(list) /\ Len(list) \in Nat
  BY <1>4, SeqFacts
<1>6. list # <<>> /\ \A k \in DOMAIN list \ {1} : k \in 2 .. Len(list)
  BY <1>4, <1>5, SeqFacts
<1>7. list[last].kind \in Structural
  BY <1>4, Zenon DEF Encloses
<1>. QED BY <1>2, <1>3, <1>4, <1>5, <1>6, <1>7, Zenon

LEMMA GoodInvariant ==
  ASSUME Preserved
  PROVE  IInv'
<1>1. StateGood(elements', current', blocks') /\ verdict' \in {"valid", "rejected"}
  BY DEF Preserved
<1>2. /\ elements' \in Seq(ElementType) /\ blocks' \in Seq(BlockType) /\ blocks' # <<>> /\ elements' # <<>>
      /\ current' \in DOMAIN elements' /\ elements'[current'].kind \in Structural
      /\ elements'[1].kind = "FUNC" /\ elements'[1].prev = 0 /\ Encloses(elements', current', Len(elements') + 1)
      /\ \A k \in DOMAIN elements' \ {1} : WellPlaced(elements', k)
      /\ \A j, k \in DOMAIN elements' :
           elements'[k].kind = "any" /\ Encloses(elements', j, k) => elements'[j].formallyUnreachable
      /\ PlacesOf(elements', current', blocks')[1] = 1
      /\ \A k \in DOMAIN blocks' :
           Agrees(elements', blocks', PlacesOf(elements', current', blocks'), k)
  BY <1>1, GoodParts
<1>3. verdict' \in {"valid", "rejected", "done"} /\ verdict' # "done"
  BY <1>1
<1>4. TypeOK'
  BY <1>2, <1>3, Zenon DEF TypeOK
<1>5. ListOK' /\ AnyOnlyWhereUnreachable'
  BY <1>2, Zenon DEF ListOK, AnyOnlyWhereUnreachable
<1>6. CompileStackAgrees'
  BY <1>2, Zenon DEF CompileStackAgrees
<1>. QED BY <1>3, <1>4, <1>5, <1>6, Zenon DEF IInv

LEMMA Single ==
  ASSUME NEW S, NEW x \in S
  PROVE  <<x>> \in Seq(S) /\ Len(<<x>>) = 1 /\ <<x>>[1] = x /\ <<x>> # <<>>
  OBVIOUS

IsFirst(list, opened) ==
  list = <<Element("FUNC", FunctionType, 0)>> /\ opened = <<Block("FUNC", FunctionType, FALSE, 0)>>

\* The function's element and the function's block alone are a good state.
LEMMA FirstState ==
  ASSUME NEW list, NEW opened, IsFirst(list, opened)
  PROVE  StateGood(list, 1, opened)
<1>1. PICK e, b : e = Element("FUNC", FunctionType, 0) /\ b = Block("FUNC", FunctionType, FALSE, 0)
  OBVIOUS
<1>2. e \in ElementType /\ e.kind = "FUNC" /\ e.type = FunctionType /\ e.prev = 0 /\ ~e.formallyUnreachable
  <2>1. PICK kind \in Structural, prev \in 0 .. MaxElements : kind = "FUNC" /\ prev = 0
    BY BoundAssumption DEF Structural
  <2>. QED BY <1>1, <2>1, TypeFacts, NewElement
<1>3. b \in BlockType /\ b.kind = "FUNC" /\ b.type = FunctionType /\ b.count = 0
  <2>1. b = [kind |-> "FUNC", type |-> FunctionType, unreachable |-> FALSE, count |-> 0]
    BY <1>1, Zenon DEF Block
  <2>2. 0 \in 0 .. MaxElements /\ FunctionType \in Type
    BY TypeFacts, BoundAssumption
  <2>. QED BY <2>1, <2>2 DEF BlockType, BlockKind
<1>4. list \in Seq(ElementType) /\ Len(list) = 1 /\ list[1] = e
  <2>1. list = <<e>> /\ e \in ElementType
    BY <1>1, <1>2, Zenon DEF IsFirst
  <2>2. <<e>> \in Seq(ElementType) /\ Len(<<e>>) = 1 /\ <<e>>[1] = e /\ <<e>> # <<>>
    BY <2>1, Single, Zenon
  <2>. QED BY <2>1, <2>2, Zenon
<1>5. opened \in Seq(BlockType) /\ Len(opened) = 1 /\ opened[1] = b /\ opened # <<>>
  <2>1. opened = <<b>> /\ b \in BlockType
    BY <1>1, <1>3, Zenon DEF IsFirst
  <2>2. <<b>> \in Seq(BlockType) /\ Len(<<b>>) = 1 /\ <<b>>[1] = b /\ <<b>> # <<>>
    BY <2>1, Single, Zenon
  <2>. QED BY <2>1, <2>2, Zenon
<1>6. Encloses(list, 1, 2)
  <2>1. list[1].kind \in Structural
    BY <1>2, <1>4 DEF Structural
  <2>2. 1 \in 1 .. 2 - 1 /\ \A k \in 1 + 1 .. 2 - 1 : FALSE
    OBVIOUS
  <2>. QED BY <2>1, <2>2, Zenon DEF Encloses
<1>7. ListGood(list, 1)
  <2>1. 1 \in 1 .. Len(list) /\ Len(list) + 1 = 2 /\ (\A k \in 2 .. Len(list) : FALSE) /\ \A k \in 1 .. Len(list) : k = 1
    BY <1>4
  <2>2. \A j, k \in 1 .. Len(list) :
          list[k].kind = "any" /\ Encloses(list, j, k) => list[j].formallyUnreachable
    <3>1. list[1].kind # "any"
      BY <1>2, <1>4
    <3>. QED BY <2>1, <3>1, Zenon
  <2>3. list[1].kind = "FUNC" /\ list[1].prev = 0
    BY <1>2, <1>4
  <2>. QED BY <1>4, <1>6, <2>1, <2>2, <2>3, Zenon DEF ListGood
<1>8. Floor(Keep(list, 1)) = 1
  <2>1. PICK kept : kept = Keep(list, 1)
    OBVIOUS
  <2>2. Len(kept) = 1 /\ \A k \in 1 .. 1 : kept[k] = list[k]
    <3>1. 1 \in 0 .. Len(list)
      BY <1>4
    <3>. QED BY <1>4, <2>1, <3>1, KeepFacts
  <2>3. ~IsNumber(kept[1])
    <3>1. 1 \in 1 .. 1
      OBVIOUS
    <3>2. kept[1].kind = "FUNC"
      BY <1>2, <1>4, <2>2, <3>1
    <3>. QED BY <3>2, KindFacts DEF IsNumber, Structural
  <2>4. PICK f \in 1 .. 1 : f = 1
    OBVIOUS
  <2>5. Floor(kept) = f
    <3>1. \A k \in f + 1 .. 1 : FALSE
      OBVIOUS
    <3>. QED BY <2>2, <2>3, <2>4, <3>1, FloorIs
  <2>. QED BY <2>1, <2>4, <2>5
<1>9. Matches(list, opened[1], 1, 1, FALSE)
  <2>1. /\ opened[1].type = list[1].type
        /\ opened[1].kind = IF list[1].kind # "IF" THEN list[1].kind
                            ELSE IF opened[1].kind = "IFBLOCK" THEN "IFBLOCK" ELSE "BLOCK"
        /\ opened[1].kind # "IFBLOCK" /\ ~list[1].formallyUnreachable /\ opened[1].count = 0
    BY <1>2, <1>3, <1>4, <1>5
  <2>2. (\A k \in 1 + 1 .. 1 : FALSE) /\ 1 + 1 = 2 /\ 1 - 1 = 0
    OBVIOUS
  <2>. QED BY <1>6, <1>8, <2>1, <2>2, Zenon DEF Matches
<1>10. PICK p : p = [k \in 1 .. 1 |-> 1]
  OBVIOUS
<1>11. p[1] = 1
  BY <1>10
<1>12. Agrees(list, opened, p, 1)
  <2>1. Waits(opened, 1) = FALSE /\ EndOf(list, opened, p, 1) = 1
    BY <1>4, <1>5 DEF Waits, EndOf
  <2>. QED BY <1>9, <1>11, <2>1, Zenon DEF Agrees
<1>13. Placed(list, 1, opened, p)
  <2>1. (\A k \in 1 .. 1 - 1 : FALSE) /\ \A k \in 1 .. 1 : k = 1
    OBVIOUS
  <2>. QED BY <1>5, <1>11, <1>12, <2>1, Zenon DEF Placed
<1>. QED BY <1>5, <1>7, <1>13, Zenon DEF StateGood, BlocksGood

LEMMA InvInit ==
  ASSUME Init
  PROVE  IInv
<1>1. StateGood(elements, current, blocks) /\ verdict = "valid"
  <2>1. StateGood(elements, 1, blocks) /\ current = 1
    <3>1. IsFirst(elements, blocks) /\ current = 1
      BY Zenon DEF IsFirst, Init
    <3>. QED BY <3>1, FirstState
  <2>. QED BY <2>1, Zenon DEF Init
<1>2. /\ elements \in Seq(ElementType) /\ blocks \in Seq(BlockType) /\ blocks # <<>> /\ elements # <<>>
      /\ current \in DOMAIN elements /\ elements[current].kind \in Structural
      /\ elements[1].kind = "FUNC" /\ elements[1].prev = 0 /\ Encloses(elements, current, Len(elements) + 1)
      /\ \A k \in DOMAIN elements \ {1} : WellPlaced(elements, k)
      /\ \A j, k \in DOMAIN elements :
           elements[k].kind = "any" /\ Encloses(elements, j, k) => elements[j].formallyUnreachable
      /\ PlacesOf(elements, current, blocks)[1] = 1
      /\ \A k \in DOMAIN blocks :
           Agrees(elements, blocks, PlacesOf(elements, current, blocks), k)
  BY <1>1, GoodParts
<1>3. TypeOK
  BY <1>1, <1>2 DEF TypeOK
<1>4. ListOK /\ AnyOnlyWhereUnreachable
  BY <1>2, Zenon DEF ListOK, AnyOnlyWhereUnreachable
<1>5. CompileStackAgrees
  BY <1>2, Zenon DEF CompileStackAgrees
<1>6. verdict # "done"
  BY <1>1
<1>. QED BY <1>3, <1>4, <1>5, <1>6, Zenon DEF IInv

\* The end of the function empties both stacks.
LEMMA EndFunctionKeeps ==
  ASSUME GoodState, NEW i \in Instruction, EndFunction(i)
  PROVE  IInv'
<1>1. CASE verdict' = "done" /\ elements' = <<>> /\ blocks' = <<>>
  <2>1. TypeOK'
    BY <1>1 DEF TypeOK
  <2>2. CompileStackAgrees'
    BY <1>1 DEF CompileStackAgrees
  <2>. QED BY <1>1, <2>1, <2>2 DEF IInv
<1>2. CASE Reject
  <2>1. Preserved
    BY <1>2, Zenon DEF Reject, Preserved, GoodState
  <2>. QED BY <2>1, GoodInvariant
<1>. QED BY <1>1, <1>2, Zenon DEF EndFunction

LEMMA InvNext ==
  ASSUME IInv, [Next]_vars
  PROVE  IInv'
<1>1. CASE UNCHANGED vars
  <2>1. elements' = elements /\ current' = current /\ blocks' = blocks /\ verdict' = verdict
    BY <1>1 DEF vars
  <2>. QED BY <2>1, Zenon DEF IInv, TypeOK, ListOK, AnyOnlyWhereUnreachable, CompileStackAgrees
<1>2. CASE Next
  <2>1. verdict = "valid" /\ Len(elements') <= MaxElements
    BY <1>2 DEF Next
  <2>2. PICK i \in Instruction : Handle(i)
    BY <1>2, Zenon DEF Next
  <2>3. GoodState
    <3>1. verdict # "done"
      BY <2>1
    <3>. QED BY <3>1, InvariantGood, Zenon DEF GoodState, StateGood
  <2>4. CASE EndFunction(i)
    BY <2>3, <2>4, EndFunctionKeeps
  <2>5. CASE PlainInstruction(i) \/ Drop(i) \/ Select(i)
    <3>1. Preserved
      BY <2>1, <2>3, <2>5, PlainKeeps, DropKeeps, SelectKeeps, Zenon
    <3>. QED BY <3>1, GoodInvariant
  <2>6. CASE EnterBlock(i) \/ EnterIf(i) \/ Else(i) \/ EndBlock(i)
    <3>1. Preserved
      BY <2>1, <2>3, <2>6, EnterBlockKeeps, EnterIfKeeps, ElseKeeps, EndBlockKeeps, Zenon
    <3>. QED BY <3>1, GoodInvariant
  <2>7. CASE BranchAlways(i) \/ BranchIf(i) \/ BranchTable(i) \/ Unreachable(i) \/ Return(i) \/ ReturnCallInstruction(i)
    <3>1. Preserved
      BY <2>1, <2>3, <2>7, BranchIfKeeps, LeavesKeep, Zenon
    <3>. QED BY <3>1, GoodInvariant
  <2>. QED BY <2>2, <2>4, <2>5, <2>6, <2>7, Zenon DEF Handle
<1>. QED BY <1>1, <1>2, Zenon

\* IInv is inductive: it holds at the start of a body and every instruction that
\* the frontend handles keeps it.
THEOREM InvariantHolds == Spec => []IInv
<1>1. Init => IInv
  BY InvInit
<1>2. IInv /\ [Next]_vars => IInv'
  BY InvNext
<1>. QED BY <1>1, <1>2, PTL DEF Spec

\* Whatever sequence of instructions Frontend::parseCodeSection is given, the
\* validation stack and the blocks of the compile-time stack hold elements of their
\* kinds, and until the function has ended the current block is among them.
THEOREM TypeCorrect == Spec => []TypeOK
<1>1. IInv => TypeOK
  BY DEF IInv
<1>. QED BY <1>1, InvariantHolds, PTL

\* An operand whose type ValidationStack made up stays in a block that
\* markCurrentBlockUnreachable has marked, at any nesting and for any signatures:
\* no check in code that can execute is ever met by it.
THEOREM NoAnyOutside == Spec => []AnyOnlyWhereUnreachable
<1>1. IInv => AnyOnlyWhereUnreachable
  BY DEF IInv, AnyOnlyWhereUnreachable
<1>. QED BY <1>1, InvariantHolds, PTL

\* The ValidationStack and the compile-time stack describe the same blocks with the
\* same signatures, code is dead for the compiler wherever it is for the validation,
\* and in live code both hold as many operands in every block, for any body.
THEOREM StacksAgree == Spec => []CompileStackAgrees
<1>1. IInv => CompileStackAgrees
  BY DEF IInv
<1>. QED BY <1>1, InvariantHolds, PTL
=============================================================================
