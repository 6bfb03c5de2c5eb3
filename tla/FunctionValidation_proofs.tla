------------------------- MODULE FunctionValidation_proofs -------------------------
EXTENDS FunctionBody_proofs

(***************************************************************************)
(* FunctionBody implements WasmValidation, for all instructions, types and *)
(* nesting.  The flat list of ValidationStack stands for the control       *)
(* frames of the specification: the frame of a structural element holds    *)
(* what lies between it, or the fence of its if, and the next one.  The    *)
(* list that a recursive function of the frames depends on is unfolded by  *)
(* an induction over the set of positions where a fact holds; then every   *)
(* action of FunctionBody is one of WasmValidation (the lemmas named       *)
(* ...Specified), given what an if has put aside (Saved).                  *)
(***************************************************************************)

(***************************************************************************)
(* The frames around an element, from the one before.                      *)
(***************************************************************************)
Framed(list, j) == ControlFrame(Keep(list, j - 1), list[j].prev)
Enclosed(g, list, j) ==
  IF list[j].prev \in 1 .. j - 1 THEN Append(g[list[j].prev], Framed(list, j)) ELSE <<>>
IsAround(g, list, n) == g = [j \in 1 .. n |-> Enclosed(g, list, j)]

\* The recursive definition looks at positions further down only.
LEMMA AroundExists ==
  ASSUME NEW list, NEW n \in Nat
  PROVE  \E g : IsAround(g, list, n)
<1>. DEFINE S == {m \in Nat : \E g : IsAround(g, list, m)}
<1>1. 0 \in S
  <2>1. \A g : [j \in 1 .. 0 |-> 0] = [j \in 1 .. 0 |-> Enclosed(g, list, j)]
    OBVIOUS
  <2>2. IsAround([j \in 1 .. 0 |-> 0], list, 0)
    BY <2>1, Zenon DEF IsAround
  <2>. QED BY <2>2
<1>2. ASSUME NEW m \in S PROVE m + 1 \in S
  <2>1. PICK g : IsAround(g, list, m)
    OBVIOUS
  <2>. DEFINE h == [j \in 1 .. m + 1 |-> IF j = m + 1 THEN Enclosed(g, list, j) ELSE g[j]]
  <2>2. \A j \in 1 .. m : g[j] = Enclosed(g, list, j)
    BY <2>1, Zenon DEF IsAround
  <2>3. \A j \in 1 .. m : h[j] = g[j]
    OBVIOUS
  <2>4. \A j \in 1 .. m + 1 : h[j] = Enclosed(h, list, j)
    <3>. TAKE j \in 1 .. m + 1
    <3>1. h[j] = Enclosed(g, list, j)
      <4>1. CASE j = m + 1
        BY <4>1
      <4>2. CASE j # m + 1
        <5>1. j \in 1 .. m
          BY <4>2
        <5>2. h[j] = g[j]
          BY <5>1, <2>3
        <5>. QED BY <5>1, <5>2, <2>2
      <4>. QED BY <4>1, <4>2
    <3>2. list[j].prev \in 1 .. j - 1 => list[j].prev \in 1 .. m
      OBVIOUS
    <3>. HIDE DEF h
    <3>3. Enclosed(h, list, j) = Enclosed(g, list, j)
      BY <3>2, <2>3, Zenon DEF Enclosed
    <3>. QED BY <3>1, <3>3
  <2>5. h = [j \in 1 .. m + 1 |-> h[j]]
    OBVIOUS
  <2>6. IsAround(h, list, m + 1)
    <3>. HIDE DEF h
    <3>1. [j \in 1 .. m + 1 |-> h[j]] = [j \in 1 .. m + 1 |-> Enclosed(h, list, j)]
      BY <2>4, Zenon
    <3>. QED BY <2>5, <3>1, Zenon DEF IsAround
  <2>. HIDE DEF h
  <2>. QED BY <2>6
<1>3. S = Nat
  <2>. HIDE DEF S
  <2>1. S \in SUBSET Nat
    BY DEF S
  <2>. QED BY <1>1, <1>2, <2>1, Induction
<1>. QED BY <1>3

LEMMA AroundUnfold ==
  ASSUME NEW list, NEW n, NEW g, IsAround(g, list, n)
  PROVE  \E h : IsAround(h, list, n) /\ FramesAround(list, n) = h[n]
<1>. DEFINE h == CHOOSE h : IsAround(h, list, n)
<1>1. IsAround(h, list, n)
  BY Zenon
<1>2. FramesAround(list, n) = h[n]
  BY Zenon DEF FramesAround, IsAround, Enclosed, Framed
<1>. QED BY <1>1, <1>2, Zenon

\* What holds of every position whenever it holds of those below holds of all.
LEMMA StrongInduction ==
  ASSUME NEW S \in SUBSET Nat, NEW n \in Nat, \A k \in 1 .. n : (1 .. k - 1 \subseteq S => k \in S)
  PROVE  1 .. n \subseteq S
<1>. DEFINE T == {m \in Nat : m <= n => 1 .. m \subseteq S}
<1>1. 0 \in T
  OBVIOUS
<1>2. ASSUME NEW m \in T PROVE m + 1 \in T
  <2>. SUFFICES ASSUME m + 1 <= n PROVE 1 .. m + 1 \subseteq S
    OBVIOUS
  <2>1. 1 .. m \subseteq S /\ m + 1 \in 1 .. n /\ (m + 1) - 1 = m
    OBVIOUS
  <2>2. m + 1 \in S
    BY <2>1
  <2>3. 1 .. m + 1 = 1 .. m \union {m + 1}
    OBVIOUS
  <2>. QED BY <2>1, <2>2, <2>3
<1>3. T = Nat
  <2>. HIDE DEF T
  <2>1. T \in SUBSET Nat
    BY DEF T
  <2>. QED BY <1>1, <1>2, <2>1, Induction
<1>. QED BY <1>3

\* Functions for different lengths agree where both are defined.
LEMMA AroundAgrees ==
  ASSUME NEW list, NEW m \in Nat, NEW n \in Nat, m <= n, NEW g, IsAround(g, list, m), NEW h, IsAround(h, list, n)
  PROVE  \A k \in 1 .. m : g[k] = h[k]
<1>. DEFINE S == {k \in Nat : g[k] = h[k]}
<1>1. \A k \in 1 .. m : g[k] = Enclosed(g, list, k)
  BY Zenon DEF IsAround
<1>2. \A k \in 1 .. n : h[k] = Enclosed(h, list, k)
  BY Zenon DEF IsAround
<1>3. ASSUME NEW k \in 1 .. m, 1 .. k - 1 \subseteq S PROVE k \in S
  <2>1. \A l \in 1 .. k - 1 : g[l] = h[l]
    BY <1>3
  <2>2. Enclosed(g, list, k) = Enclosed(h, list, k)
    BY <2>1, Zenon DEF Enclosed
  <2>3. k \in 1 .. n /\ k \in Nat
    OBVIOUS
  <2>. QED BY <1>1, <1>2, <2>2, <2>3
<1>4. 1 .. m \subseteq S
  <2>. HIDE DEF S
  <2>1. S \in SUBSET Nat
    BY DEF S
  <2>. QED BY <1>3, <2>1, StrongInduction
<1>. QED BY <1>4

LEMMA AroundFacts ==
  ASSUME NEW list, NEW n \in Nat \ {0}
  PROVE  FramesAround(list, n) =
           IF list[n].prev \in 1 .. n - 1
           THEN Append(FramesAround(list, list[n].prev), Framed(list, n)) ELSE <<>>
<1>1. PICK h : IsAround(h, list, n) /\ FramesAround(list, n) = h[n]
  BY AroundExists, AroundUnfold
<1>2. n \in 1 .. n
  OBVIOUS
<1>3. h[n] = Enclosed(h, list, n)
  BY <1>1, <1>2, Zenon DEF IsAround
<1>4. ASSUME NEW k \in 1 .. n - 1 PROVE h[k] = FramesAround(list, k)
  <2>1. k \in Nat /\ k <= n /\ k \in 1 .. k /\ n \in Nat
    OBVIOUS
  <2>2. PICK g : IsAround(g, list, k) /\ FramesAround(list, k) = g[k]
    BY <2>1, AroundExists, AroundUnfold
  <2>. QED BY <1>1, <2>1, <2>2, AroundAgrees
<1>. QED BY <1>1, <1>3, <1>4, Zenon DEF Enclosed

\* What appending to a sequence makes of it, whatever the elements are.
Appended(s, e, t) ==
  /\ Front(t) = s /\ Last(t) = e /\ t # <<>>
  /\ Len(s) \in Nat /\ Len(t) = Len(s) + 1 /\ t[Len(s) + 1] = e
  /\ \A k \in 1 .. Len(s) : t[k] = s[k]

LEMMA AppendParts ==
  ASSUME NEW S, NEW s \in Seq(S), NEW e \in S
  PROVE  Appended(s, e, Append(s, e))
<1>. DEFINE t == Append(s, e)
<1>1. t \in Seq(S) /\ Len(t) = Len(s) + 1 /\ (\A k \in 1 .. Len(s) : t[k] = s[k]) /\ t[Len(s) + 1] = e
  BY AppendFacts
<1>2. Len(s) \in Nat
  BY SeqFacts
<1>. HIDE DEF t
<1>3. t # <<>>
  BY <1>1, <1>2, SeqFacts
<1>4. Last(t) = e
  BY <1>1 DEF Last
<1>5. Front(t) \in Seq(S) /\ Len(Front(t)) = Len(t) - 1 /\ \A k \in 1 .. Len(t) - 1 : Front(t)[k] = t[k]
  BY <1>1, <1>3, FrontFacts
<1>6. Front(t) = s
  <2>1. Len(Front(t)) = Len(s) /\ \A k \in 1 .. Len(s) : Front(t)[k] = s[k]
    BY <1>1, <1>2, <1>5
  <2>. QED BY <1>5, <2>1, SeqEqual
<1>7. Appended(s, e, t)
  BY <1>1, <1>2, <1>3, <1>4, <1>6 DEF Appended
<1>. QED BY <1>7 DEF t

\* The frames are a sequence: its last frame is the current one.
FrameSet(list, last) ==
  {Framed(list, j) : j \in Nat} \union {ControlFrame(list, last)}

LEMMA AroundTyped ==
  ASSUME NEW list, NEW last \in Nat \ {0}
  PROVE  FramesAround(list, last) \in Seq(FrameSet(list, last))
<1>. DEFINE Q == FrameSet(list, last)
            S == {k \in Nat : FramesAround(list, k) \in Seq(Q)}
<1>. HIDE DEF Q
<1>1. ASSUME NEW k \in 1 .. last, 1 .. k - 1 \subseteq S PROVE k \in S
  <2>1. Framed(list, k) \in Q
    BY DEF Q, FrameSet
  <2>2. <<>> \in Seq(Q)
    OBVIOUS
  <2>3. \A j \in 1 .. k - 1 : FramesAround(list, j) \in Seq(Q)
    BY <1>1
  <2>4. \A j \in 1 .. k - 1 : Append(FramesAround(list, j), Framed(list, k)) \in Seq(Q)
    BY <2>1, <2>3, AppendFacts
  <2>5. k \in Nat \ {0}
    OBVIOUS
  <2>6. FramesAround(list, k) \in Seq(Q)
    BY <2>2, <2>4, <2>5, AroundFacts, Zenon
  <2>. QED BY <2>5, <2>6
<1>2. 1 .. last \subseteq S
  <2>. HIDE DEF S
  <2>1. S \in SUBSET Nat
    BY DEF S
  <2>. QED BY <1>1, <2>1, StrongInduction
<1>. QED BY <1>2 DEF Q

LEMMA FrameParts ==
  ASSUME NEW list, list # <<>>, NEW last \in Nat \ {0}
  PROVE  Appended(FramesAround(list, last), ControlFrame(list, last), ControlFrames(list, last))
<1>1. FramesAround(list, last) \in Seq(FrameSet(list, last))
  BY AroundTyped
<1>2. ControlFrame(list, last) \in FrameSet(list, last)
  BY Zenon DEF FrameSet
<1>. QED BY <1>1, <1>2, AppendParts, Zenon DEF ControlFrames

\* Lists with the same kinds hold the same operands.
LEMMA HeldSame ==
  ASSUME NEW s \in Seq(ElementType), NEW t \in Seq(ElementType), NEW n \in Nat \ {0}, Len(s) = n, Len(t) = n,
         ~IsNumber(s[1]), \A k \in 1 .. n : t[k].kind = s[k].kind
  PROVE  Held(t) = Held(s) /\ Floor(t) = Floor(s)
<1>1. Floor(t) = Floor(s)
  BY FloorSame
<1>2. Floor(s) \in 1 .. n
  BY FloorExists
<1>3. PICK f \in 1 .. n : f = Floor(s) /\ f = Floor(t)
  BY <1>1, <1>2
<1>4. Held(s) \in Seq(Kinds) /\ Len(Held(s)) = n - f /\ \A k \in 1 .. n - f : Held(s)[k] = s[f + k].kind
  <2>1. f \in 1 .. Len(s) /\ f = Floor(s)
    BY <1>3
  <2>2. Held(s) \in Seq(Kinds) /\ Len(Held(s)) = Len(s) - f /\ \A k \in 1 .. Len(s) - f : Held(s)[k] = s[f + k].kind
    BY <2>1, HeldFacts, Zenon
  <2>. QED BY <2>2, SMTT(60)
<1>5. Held(t) \in Seq(Kinds) /\ Len(Held(t)) = n - f /\ \A k \in 1 .. n - f : Held(t)[k] = t[f + k].kind
  <2>1. f \in 1 .. Len(t) /\ f = Floor(t)
    BY <1>3
  <2>2. Held(t) \in Seq(Kinds) /\ Len(Held(t)) = Len(t) - f /\ \A k \in 1 .. Len(t) - f : Held(t)[k] = t[f + k].kind
    BY <2>1, HeldFacts, Zenon
  <2>. QED BY <2>2, SMTT(60)
<1>6. \A k \in 1 .. n - f : Held(t)[k] = Held(s)[k]
  <2>1. \A k \in 1 .. n - f : f + k \in 1 .. n
    OBVIOUS
  <2>. QED BY <1>4, <1>5, <2>1
<1>7. Held(t) = Held(s)
  BY <1>4, <1>5, <1>6, SeqEqual
<1>. QED BY <1>1, <1>7

\* Lists with the same elements up to n, the flag of the last of them excepted.
SameUpTo(s, t, n) ==
  /\ n <= Len(s) /\ n <= Len(t)
  /\ \A k \in 1 .. n : t[k].kind = s[k].kind /\ t[k].type = s[k].type /\ t[k].prev = s[k].prev
  /\ \A k \in 1 .. n - 1 : t[k].formallyUnreachable = s[k].formallyUnreachable

\* The frame of an element depends on what the list says up to there.
LEMMA FrameSame ==
  ASSUME NEW s \in Seq(ElementType), NEW t \in Seq(ElementType), Len(s) = Len(t), NEW j \in 1 .. Len(s),
         s[1].kind = "FUNC", \A k \in 1 .. Len(s) : t[k].kind = s[k].kind,
         t[j].type = s[j].type, t[j].formallyUnreachable = s[j].formallyUnreachable
  PROVE  ControlFrame(t, j) = ControlFrame(s, j)
<1>1. Len(s) \in Nat
  BY SeqFacts
<1>2. ~IsNumber(s[1])
  <2>1. "FUNC" \notin Number \union {"any"}
    BY KindFacts DEF Structural
  <2>. QED BY <2>1 DEF IsNumber
<1>3. Len(s) \in Nat \ {0}
  BY <1>1
<1>4. Held(t) = Held(s) /\ Floor(t) = Floor(s)
  BY <1>2, <1>3, HeldSame
<1>5. t[j].kind = s[j].kind
  OBVIOUS
<1>. QED BY <1>4, <1>5, Zenon DEF ControlFrame

LEMMA FramedSame ==
  ASSUME NEW s \in Seq(ElementType), NEW t \in Seq(ElementType), NEW n \in Nat, SameUpTo(s, t, n),
         s[1].kind = "FUNC", NEW k \in 1 .. n, s[k].prev \in 1 .. k - 1
  PROVE  Framed(t, k) = Framed(s, k)
<1>1. n <= Len(s) /\ n <= Len(t) /\ Len(s) \in Nat /\ Len(t) \in Nat
  BY SeqFacts DEF SameUpTo
<1>2. k - 1 \in 0 .. Len(s) /\ k - 1 \in 0 .. Len(t) /\ 1 \in 1 .. k - 1 /\ k - 1 \in Nat
  BY <1>1
<1>3. /\ Keep(s, k - 1) \in Seq(ElementType) /\ Len(Keep(s, k - 1)) = k - 1
      /\ \A l \in 1 .. k - 1 : Keep(s, k - 1)[l] = s[l]
  BY <1>2, KeepFacts
<1>4. /\ Keep(t, k - 1) \in Seq(ElementType) /\ Len(Keep(t, k - 1)) = k - 1
      /\ \A l \in 1 .. k - 1 : Keep(t, k - 1)[l] = t[l]
  BY <1>2, KeepFacts
<1>5. /\ \A l \in 1 .. k - 1 : t[l].kind = s[l].kind /\ t[l].type = s[l].type
                               /\ t[l].formallyUnreachable = s[l].formallyUnreachable
      /\ t[k].prev = s[k].prev
  BY DEF SameUpTo
<1>6. PICK a \in Seq(ElementType) : a = Keep(s, k - 1)
  BY <1>3
<1>7. PICK b \in Seq(ElementType) : b = Keep(t, k - 1)
  BY <1>4
<1>8. /\ Len(a) = k - 1 /\ Len(b) = k - 1 /\ a[1].kind = "FUNC"
      /\ \A l \in 1 .. k - 1 : b[l].kind = a[l].kind /\ b[l].type = a[l].type
                               /\ b[l].formallyUnreachable = a[l].formallyUnreachable
  BY <1>2, <1>3, <1>4, <1>5, <1>6, <1>7, Zenon
<1>9. ControlFrame(b, s[k].prev) = ControlFrame(a, s[k].prev)
  <2>1. PICK j \in 1 .. k - 1 : j = s[k].prev
    OBVIOUS
  <2>2. /\ Len(a) = Len(b) /\ j \in 1 .. Len(a) /\ b[j].type = a[j].type
        /\ b[j].formallyUnreachable = a[j].formallyUnreachable
        /\ \A l \in 1 .. Len(a) : b[l].kind = a[l].kind
    BY <1>8, Zenon
  <2>3. ControlFrame(b, j) = ControlFrame(a, j)
    BY <1>8, <2>2, FrameSame, Zenon
  <2>. QED BY <2>1, <2>3, Zenon
<1>. QED BY <1>5, <1>6, <1>7, <1>9, Zenon DEF Framed

\* So do the frames around it.
LEMMA AroundSame ==
  ASSUME NEW s \in Seq(ElementType), NEW t \in Seq(ElementType), NEW n \in Nat \ {0}, SameUpTo(s, t, n),
         s[1].kind = "FUNC"
  PROVE  FramesAround(t, n) = FramesAround(s, n)
<1>. DEFINE S == {k \in Nat : FramesAround(t, k) = FramesAround(s, k)}
<1>1. ASSUME NEW k \in 1 .. n, 1 .. k - 1 \subseteq S PROVE k \in S
  <2>1. k \in Nat \ {0} /\ n \in Nat
    OBVIOUS
  <2>2. t[k].prev = s[k].prev
    BY DEF SameUpTo
  <2>3. s[k].prev \in 1 .. k - 1 => Framed(t, k) = Framed(s, k)
    BY <2>1, FramedSame
  <2>4. \A j \in 1 .. k - 1 : FramesAround(t, j) = FramesAround(s, j)
    BY <1>1
  <2>5. FramesAround(s, k) = IF s[k].prev \in 1 .. k - 1
                             THEN Append(FramesAround(s, s[k].prev), Framed(s, k)) ELSE <<>>
    BY <2>1, AroundFacts, Zenon
  <2>6. FramesAround(t, k) = IF t[k].prev \in 1 .. k - 1
                             THEN Append(FramesAround(t, t[k].prev), Framed(t, k)) ELSE <<>>
    BY <2>1, AroundFacts, Zenon
  <2>7. FramesAround(t, k) = FramesAround(s, k)
    BY <2>2, <2>3, <2>4, <2>5, <2>6, Zenon
  <2>. QED BY <2>1, <2>7
<1>2. 1 .. n \subseteq S
  <2>. HIDE DEF S
  <2>1. S \in SUBSET Nat
    BY DEF S
  <2>. QED BY <1>1, <2>1, StrongInduction
<1>. QED BY <1>2

\* What encloses the current element of a good list.
LEMMA PrevFacts ==
  ASSUME NEW list, NEW last, ListGood(list, last)
  PROVE  /\ list \in Seq(ElementType) /\ Len(list) \in Nat \ {0} /\ last \in 1 .. Len(list)
         /\ list[1].kind = "FUNC" /\ list # <<>>
         /\ list[last].kind = "FUNC" <=> last = 1
         /\ last # 1 => list[last].prev \in 1 .. last - 1 /\ Encloses(list, list[last].prev, last)
         /\ last = 1 => list[last].prev = 0
<1>1. /\ list \in Seq(ElementType) /\ last \in 1 .. Len(list) /\ list[1].kind = "FUNC" /\ list[1].prev = 0
      /\ Encloses(list, last, Len(list) + 1) /\ \A k \in 2 .. Len(list) : WellPlaced(list, k)
  BY Zenon DEF ListGood
<1>2. Len(list) \in Nat /\ (list = <<>> <=> Len(list) = 0)
  BY <1>1, SeqFacts
<1>3. Len(list) \in Nat \ {0}
  BY <1>1, <1>2
<1>4. list[last].kind \in Structural
  BY <1>1 DEF Encloses
<1>5. ASSUME last # 1
      PROVE  list[last].kind # "FUNC" /\ list[last].prev \in 1 .. last - 1 /\ Encloses(list, list[last].prev, last)
  <2>1. last \in 2 .. Len(list)
    BY <1>1, <1>3, <1>5
  <2>2. WellPlaced(list, last)
    BY <1>1, <2>1
  <2>3. list[last].kind # "FUNC" /\ Encloses(list, list[last].prev, last)
    BY <1>4, <2>2, Zenon DEF WellPlaced
  <2>. QED BY <2>3 DEF Encloses
<1>. QED BY <1>1, <1>2, <1>3, <1>5

\* The frames around an element are those of the list that ends before it.
LEMMA AroundCut ==
  ASSUME NEW list, NEW last, ListGood(list, last), last # 1, NEW low, low = Keep(list, last - 1)
  PROVE  FramesAround(list, last) = ControlFrames(low, list[last].prev)
<1>1. /\ list \in Seq(ElementType) /\ Len(list) \in Nat \ {0} /\ last \in 1 .. Len(list)
      /\ list[1].kind = "FUNC" /\ list[last].prev \in 1 .. last - 1
  BY PrevFacts
<1>2. last - 1 \in 0 .. Len(list) /\ last - 1 \in Nat \ {0} /\ last \in Nat \ {0}
  BY <1>1
<1>3. low \in Seq(ElementType) /\ Len(low) = last - 1 /\ \A k \in 1 .. last - 1 : low[k] = list[k]
  BY <1>1, <1>2, KeepFacts
<1>4. low # <<>>
  BY <1>2, <1>3, SeqFacts
<1>5. PICK j \in 1 .. last - 1 : j = list[last].prev
  BY <1>1
<1>6. j \in Nat \ {0}
  BY <1>2
<1>7. SameUpTo(list, low, j)
  <2>1. j <= Len(list) /\ j <= Len(low) /\ \A k \in 1 .. j : k \in 1 .. last - 1
    BY <1>1, <1>3
  <2>2. \A k \in 1 .. j - 1 : k \in 1 .. last - 1
    BY <1>1
  <2>. QED BY <1>3, <2>1, <2>2, Zenon DEF SameUpTo
<1>8. FramesAround(low, j) = FramesAround(list, j)
  BY <1>1, <1>3, <1>6, <1>7, AroundSame
<1>9. FramesAround(list, last) = Append(FramesAround(list, j), Framed(list, last))
  BY <1>1, <1>2, <1>5, AroundFacts, Zenon
<1>10. Framed(list, last) = ControlFrame(low, j)
  BY <1>5, Zenon DEF Framed
<1>. QED BY <1>4, <1>5, <1>8, <1>9, <1>10, Zenon DEF ControlFrames

LEMMA AroundFirst ==
  ASSUME NEW list, NEW last, ListGood(list, last)
  PROVE  FramesAround(list, last) = <<>> <=> last = 1
<1>1. /\ list \in Seq(ElementType) /\ Len(list) \in Nat \ {0} /\ last \in 1 .. Len(list) /\ list # <<>>
      /\ last # 1 => list[last].prev \in 1 .. last - 1
      /\ last = 1 => list[last].prev = 0
  BY PrevFacts
<1>2. CASE last = 1
  <2>1. 0 \notin 1 .. 1 - 1 /\ 1 \in Nat \ {0}
    OBVIOUS
  <2>2. FramesAround(list, 1) = <<>>
    BY <1>1, <1>2, <2>1, AroundFacts, Zenon
  <2>. QED BY <1>2, <2>2
<1>3. CASE last # 1
  <2>1. PICK low : low = Keep(list, last - 1)
    OBVIOUS
  <2>2. FramesAround(list, last) = ControlFrames(low, list[last].prev)
    BY <1>3, <2>1, AroundCut
  <2>3. last - 1 \in 0 .. Len(list) /\ last - 1 # 0
    BY <1>1, <1>3
  <2>4. low \in Seq(ElementType) /\ Len(low) = last - 1
    BY <1>1, <2>1, <2>3, KeepFacts
  <2>5. low # <<>>
    BY <2>3, <2>4, SeqFacts
  <2>6. list[last].prev \in Nat \ {0}
    BY <1>1, <1>3
  <2>7. Appended(FramesAround(low, list[last].prev), ControlFrame(low, list[last].prev), ControlFrames(low, list[last].prev))
    BY <2>5, <2>6, FrameParts
  <2>. QED BY <1>3, <2>2, <2>7, Zenon DEF Appended
<1>. QED BY <1>2, <1>3

(***************************************************************************)
(* The state as the specification sees it.                                 *)
(***************************************************************************)
LEMMA FrameFields ==
  ASSUME NEW list, NEW j
  PROVE  /\ ControlFrame(list, j).type = list[j].type
         /\ ControlFrame(list, j).operands = Held(list)
         /\ ControlFrame(list, j).unreachable = list[j].formallyUnreachable
  BY DEF ControlFrame

LEMMA OpFacts ==
  ASSUME NEW list, NEW j, list[j].kind \in Structural
  PROVE  /\ ControlFrame(list, j).op = "loop" <=> list[j].kind = "LOOP"
         /\ ControlFrame(list, j).op = "if" <=> list[j].kind = "IF" /\ Floor(list) # j
<1>1. list[j].kind \in {"FUNC", "BLOCK", "LOOP", "IF"}
  BY DEF Structural
<1>2. ControlFrame(list, j).op =
        CASE list[j].kind = "FUNC" -> "function"
          [] list[j].kind = "BLOCK" -> "block"
          [] list[j].kind = "LOOP" -> "loop"
          [] list[j].kind = "IF" -> IF Floor(list) = j THEN "else" ELSE "if"
  BY DEF ControlFrame
<1>. QED BY <1>1, <1>2

LEMMA SameOp ==
  ASSUME NEW s, NEW t, NEW j, t[j].kind = s[j].kind, t[j].type = s[j].type, Floor(t) = Floor(s)
  PROVE  ControlFrame(t, j) = [op |-> ControlFrame(s, j).op, type |-> s[j].type,
                               operands |-> Held(t), unreachable |-> t[j].formallyUnreachable]
<1>1. ControlFrame(s, j).op = CASE s[j].kind = "FUNC" -> "function"
                                [] s[j].kind = "BLOCK" -> "block"
                                [] s[j].kind = "LOOP" -> "loop"
                                [] s[j].kind = "IF" -> IF Floor(s) = j THEN "else" ELSE "if"
  BY DEF ControlFrame
<1>2. ControlFrame(t, j) =
        [op |-> CASE s[j].kind = "FUNC" -> "function"
                  [] s[j].kind = "BLOCK" -> "block"
                  [] s[j].kind = "LOOP" -> "loop"
                  [] s[j].kind = "IF" -> IF Floor(s) = j THEN "else" ELSE "if",
         type |-> s[j].type, operands |-> Held(t), unreachable |-> t[j].formallyUnreachable]
  BY DEF ControlFrame
<1>. QED BY <1>1, <1>2, Zenon

\* The state's two lists of frames: what is around, and the current one.
LEMMA InnermostFacts ==
  ASSUME ListGood(elements, current)
  PROVE  /\ WasmSpecification!Innermost = ControlFrame(elements, current)
         /\ WasmSpecification!Outer = FramesAround(elements, current)
         /\ WasmSpecification!Operands = Held(elements)
<1>1. elements # <<>> /\ current \in Nat \ {0}
  BY PrevFacts
<1>2. Appended(FramesAround(elements, current), ControlFrame(elements, current), ControlFrames(elements, current))
  BY <1>1, FrameParts
<1>3. WasmSpecification!Innermost = ControlFrame(elements, current)
  BY <1>2 DEF Appended, WasmSpecification!Innermost, WasmSpecification!Last, Last
<1>4. WasmSpecification!Outer = FramesAround(elements, current)
  BY <1>2 DEF Appended, WasmSpecification!Outer, WasmSpecification!Front, Front
<1>5. WasmSpecification!Operands = Held(elements)
  BY <1>3, FrameFields DEF WasmSpecification!Operands
<1>. QED BY <1>3, <1>4, <1>5

LEMMA HasFacts ==
  ASSUME ListGood(elements, current), NEW types
  PROVE  WasmSpecification!Has(types) <=> Holds(elements, types)
<1>1. /\ WasmSpecification!Innermost = ControlFrame(elements, current)
      /\ WasmSpecification!Operands = Held(elements)
  BY InnermostFacts
<1>2. ControlFrame(elements, current).unreachable = FormallyUnreachable
  BY FrameFields DEF FormallyUnreachable
<1>. QED BY <1>1, <1>2, Zenon DEF WasmSpecification!Has, WasmSpecification!FitsAtEnd, WasmSpecification!Fits,
                                   Holds, FitsAtEnd, Fits

\* The current frame with other operands, or another flag.
Changed(operands, unreachable) ==
  Append(FramesAround(elements, current),
         [op |-> ControlFrame(elements, current).op, type |-> elements[current].type,
          operands |-> operands, unreachable |-> unreachable])

LEMMA ChangedFacts ==
  ASSUME ListGood(elements, current), NEW operands
  PROVE  /\ WasmSpecification!Now(operands) = Changed(operands, FormallyUnreachable)
         /\ WasmSpecification!Unreachable = Changed(<<>>, TRUE)
<1>1. elements # <<>> /\ current \in Nat \ {0}
  BY PrevFacts
<1>2. Appended(FramesAround(elements, current), ControlFrame(elements, current), ControlFrames(elements, current))
  BY <1>1, FrameParts
<1>3. Last(ControlFrames(elements, current)) = ControlFrame(elements, current)
      /\ Front(ControlFrames(elements, current)) = FramesAround(elements, current)
  BY <1>2 DEF Appended
<1>4. ControlFrame(elements, current).type = elements[current].type
      /\ ControlFrame(elements, current).unreachable = FormallyUnreachable
  BY FrameFields DEF FormallyUnreachable
<1>5. WasmSpecification!Now(operands) = Changed(operands, FormallyUnreachable)
  BY <1>3, <1>4 DEF WasmSpecification!Now, WasmSpecification!Holding, WasmSpecification!Frame,
                    WasmSpecification!Front, WasmSpecification!Last, Front, Last, Changed
<1>6. WasmSpecification!Unreachable = Changed(<<>>, TRUE)
  BY <1>4, InnermostFacts DEF WasmSpecification!Unreachable, WasmSpecification!Frame, Changed
<1>. QED BY <1>5, <1>6

\* Whatever leaves the structure as it is only changes the last frame.
LEMMA ChangedFrames ==
  ASSUME NEW list, NEW last, ListGood(list, last), NEW f, f = Floor(list), NEW after, Replaces(list, last, f, after)
  PROVE  ControlFrames(after, last) =
           Append(FramesAround(list, last),
                  [op |-> ControlFrame(list, last).op, type |-> list[last].type,
                   operands |-> Held(after), unreachable |-> after[last].formallyUnreachable])
<1>1. /\ list \in Seq(ElementType) /\ last \in 1 .. Len(list) /\ last \in Nat \ {0}
      /\ list[1].kind = "FUNC" /\ Len(list) \in Nat
  BY PrevFacts
<1>2. f \in last .. Len(list)
  BY ShapeFacts
<1>3. /\ after \in Seq(ElementType) /\ f <= Len(after) /\ Alike(list, after, f)
      /\ \A k \in 1 .. f : k # last => after[k].formallyUnreachable = list[k].formallyUnreachable
  BY DEF Replaces
<1>4. Len(after) \in Nat
  BY <1>3, SeqFacts
<1>5. SameUpTo(list, after, last)
  <2>1. \A k \in 1 .. last : k \in 1 .. f
    BY <1>1, <1>2
  <2>2. \A k \in 1 .. last : after[k].kind = list[k].kind /\ after[k].type = list[k].type
                                /\ after[k].prev = list[k].prev
    BY <1>3, <2>1 DEF Alike
  <2>3. \A k \in 1 .. last - 1 : k \in 1 .. f /\ k # last
    BY <1>1, <1>2
  <2>4. \A k \in 1 .. last - 1 : after[k].formallyUnreachable = list[k].formallyUnreachable
    BY <1>3, <2>3
  <2>5. last <= Len(list) /\ last <= Len(after)
    BY <1>1, <1>2, <1>3, <1>4
  <2>. QED BY <2>2, <2>4, <2>5 DEF SameUpTo
<1>6. FramesAround(after, last) = FramesAround(list, last)
  BY <1>1, <1>3, <1>5, AroundSame
<1>7. Floor(after) = f
  BY SameBlockList
<1>8. after[last].kind = list[last].kind /\ after[last].type = list[last].type
  BY <1>1, <1>5 DEF SameUpTo
<1>9. ControlFrame(after, last) =
        [op |-> ControlFrame(list, last).op, type |-> list[last].type,
         operands |-> Held(after), unreachable |-> after[last].formallyUnreachable]
  <2>1. Floor(after) = Floor(list)
    BY <1>7
  <2>. QED BY <2>1, <1>8, SameOp, Zenon
<1>10. after # <<>>
  <2>1. Len(after) # 0
    BY <1>1, <1>2, <1>3, <1>4
  <2>. QED BY <1>3, <2>1, SeqFacts
<1>. QED BY <1>6, <1>9, <1>10, Zenon DEF ControlFrames

LEMMA StaysFrames ==
  ASSUME ListGood(elements, current), NEW f, f = Floor(elements), NEW after, Replaces(elements, current, f, after)
  PROVE  ControlFrames(after, current) = Changed(Held(after), after[current].formallyUnreachable)
  BY ChangedFrames DEF Changed

LEMMA StaysNow ==
  ASSUME ListGood(elements, current), NEW f, f = Floor(elements), NEW after, Replaces(elements, current, f, after),
         after[current] = elements[current]
  PROVE  ControlFrames(after, current) = WasmSpecification!Now(Held(after))
<1>1. ControlFrames(after, current) = Changed(Held(after), after[current].formallyUnreachable)
  BY StaysFrames
<1>. QED BY <1>1, ChangedFacts, Zenon DEF FormallyUnreachable

LEMMA StaysDead ==
  ASSUME ListGood(elements, current)
  PROVE  ControlFrames(MarkedUnreachable, current) = WasmSpecification!Unreachable
<1>1. PICK f : f = Floor(elements)
  OBVIOUS
<1>2. f \in current .. Len(elements) /\ current \in Nat \ {0} /\ Len(elements) \in Nat /\ elements \in Seq(ElementType)
      /\ current \in 1 .. Len(elements)
  BY <1>1, PrevFacts, ShapeFacts
<1>3. PICK after : after = MarkedUnreachable
  OBVIOUS
<1>4. Replaces(elements, current, f, after) /\ Len(after) = f
  BY <1>1, <1>3, MarkedFacts
<1>5. Floor(after) = f
  BY <1>1, <1>4, SameBlockList
<1>6. after \in Seq(ElementType) /\ f \in 1 .. Len(after)
  BY <1>2, <1>4 DEF Replaces
<1>7. Held(after) \in Seq(Kinds) /\ Len(Held(after)) = Len(after) - f
  BY <1>5, <1>6, HeldFacts
<1>8. Held(after) = <<>>
  <2>1. Len(Held(after)) = 0
    BY <1>2, <1>4, <1>7
  <2>. QED BY <1>7, <2>1, SeqFacts
<1>9. after[current].formallyUnreachable = TRUE
  <2>1. f \in 0 .. Len(elements) /\ current \in 1 .. f
    BY <1>2
  <2>2. Keep(elements, f) \in Seq(ElementType) /\ Len(Keep(elements, f)) = f
    BY <1>2, <2>1, KeepFacts
  <2>3. Flagged(Keep(elements, f), current, TRUE)[current].formallyUnreachable = TRUE
    BY <2>1, <2>2, FlaggedFacts
  <2>. QED BY <1>1, <1>3, <2>3, Zenon DEF MarkedUnreachable, Flagged
<1>10. ControlFrames(after, current) = Changed(Held(after), after[current].formallyUnreachable)
  BY <1>1, <1>4, StaysFrames
<1>. QED BY <1>3, <1>8, <1>9, <1>10, ChangedFacts

(***************************************************************************)
(* What is decided for an instruction is what the specification decides.   *)
(***************************************************************************)
LEMMA DecidedAsSpecified ==
  ASSUME NEW valid \in BOOLEAN, NEW after, NEW last, NEW opened, Decide(valid, after, last, opened),
         NEW asSpecified, asSpecified <=> valid,
         NEW framesAfter, valid => ControlFrames(after, last) = framesAfter
  PROVE  WasmSpecification!Decide(asSpecified, framesAfter)
<1>1. CASE valid
  <2>1. /\ elements' = after /\ current' = last /\ verdict' = "valid"
    BY <1>1 DEF Decide, Accept
  <2>2. ControlFrames(elements', current') = framesAfter
    BY <1>1, <2>1
  <2>. QED BY <1>1, <2>1, <2>2 DEF WasmSpecification!Decide
<1>2. CASE ~valid
  <2>1. /\ elements' = elements /\ current' = current /\ verdict' = "rejected"
    BY <1>2 DEF Decide, Reject
  <2>2. ControlFrames(elements', current') = ControlFrames(elements, current)
    BY <2>1
  <2>. QED BY <1>2, <2>1, <2>2 DEF WasmSpecification!Decide
<1>. QED BY <1>1, <1>2

SavedKept == verdict' # "done" => Saved(elements')

LEMMA DecidedSaved ==
  ASSUME NEW valid \in BOOLEAN, NEW after, NEW last, NEW opened, Decide(valid, after, last, opened),
         Saved(elements), valid => Saved(after)
  PROVE  SavedKept
<1>1. CASE valid
  BY <1>1 DEF Decide, Accept, SavedKept
<1>2. CASE ~valid
  BY <1>2 DEF Decide, Reject, SavedKept
<1>. QED BY <1>1, <1>2

\* What is saved in a list stays so up to where it is not changed.
LEMMA SavedAlike ==
  ASSUME NEW s, Saved(s), NEW n \in Nat \ {0}, n <= Len(s), Len(s) \in Nat, NEW t, Alike(s, t, n)
  PROVE  t[1].type = FunctionType /\ \A k \in 1 .. n : IfTypes(t, k) /\ ParamsSaved(t, k)
<1>1. /\ s[1].type = FunctionType
      /\ \A k \in 1 .. n : IfTypes(s, k) /\ ParamsSaved(s, k)
  BY DEF Saved
<1>2. \A k \in 1 .. n : t[k].kind = s[k].kind /\ t[k].type = s[k].type
  BY DEF Alike
<1>3. t[1].type = FunctionType
  <2>1. 1 \in 1 .. n
    OBVIOUS
  <2>. QED BY <1>1, <1>2, <2>1
<1>4. ASSUME NEW k \in 1 .. n PROVE IfTypes(t, k)
  <2>1. IfTypes(s, k)
    BY <1>1
  <2>. QED BY <1>2, <2>1, Zenon DEF IfTypes
<1>5. ASSUME NEW k \in 1 .. n PROVE ParamsSaved(t, k)
  <2>1. ParamsSaved(s, k)
    BY <1>1
  <2>. SUFFICES ASSUME t[k].kind = "ELSE_FENCE", NEW j \in 1 .. k - 1, Encloses(t, j, k), NEW q \in j + 1 .. k - 1
                PROVE  t[q].kind = t[j].type.params[q - j]
    BY Zenon DEF ParamsSaved
  <2>2. n \in Nat /\ k \in 1 .. n + 1 /\ j \in 1 .. n /\ q \in 1 .. n
    OBVIOUS
  <2>3. Encloses(s, j, k)
    BY <2>2, EnclosesAlike
  <2>4. s[k].kind = "ELSE_FENCE"
    BY <1>2
  <2>5. s[q].kind = s[j].type.params[q - j]
    BY <2>1, <2>3, <2>4, Zenon DEF ParamsSaved
  <2>. QED BY <1>2, <2>2, <2>5
<1>. QED BY <1>3, <1>4, <1>5

LEMMA SavedReplaces ==
  ASSUME NEW list, NEW last, ListGood(list, last), Saved(list), NEW f, f = Floor(list),
         NEW after, Replaces(list, last, f, after)
  PROVE  Saved(after)
<1>1. Len(list) \in Nat \ {0} /\ last \in 1 .. Len(list) /\ f \in last .. Len(list)
  BY ShapeFacts
<1>2. /\ after \in Seq(ElementType) /\ f <= Len(after) /\ Alike(list, after, f)
      /\ \A k \in f + 1 .. Len(after) : IsNumber(after[k])
  BY DEF Replaces
<1>3. Len(after) \in Nat /\ f \in Nat \ {0} /\ f <= Len(list) /\ Len(list) \in Nat
  BY <1>1, <1>2, SeqFacts
<1>4. after[1].type = FunctionType /\ \A k \in 1 .. f : IfTypes(after, k) /\ ParamsSaved(after, k)
  BY <1>2, <1>3, SavedAlike
<1>5. ASSUME NEW k \in f + 1 .. Len(after) PROVE IfTypes(after, k) /\ ParamsSaved(after, k)
  <2>1. after[k].kind # "IF" /\ after[k].kind # "ELSE_FENCE"
    <3>1. after[k].kind \in Number \union {"any"}
      BY <1>2 DEF IsNumber
    <3>. QED BY <3>1, KindFacts DEF Structural
  <2>. QED BY <2>1, Zenon DEF IfTypes, ParamsSaved
<1>6. \A k \in 1 .. Len(after) : k \in 1 .. f \/ k \in f + 1 .. Len(after)
  BY <1>3
<1>. QED BY <1>4, <1>5, <1>6, Zenon DEF Saved

LEMMA SavedOpens ==
  ASSUME NEW list, NEW last, ListGood(list, last), Saved(list), NEW f, f = Floor(list), NEW low, LowPart(list, f, low),
         NEW after, Opens(list, last, low, after), NEW c, c = Len(low) + 1,
         IfTypes(after, c),
         \A q \in c + 1 .. c + Len(after[c].type.params) : after[c].kind = "IF" => after[q].kind = after[c].type.params[q - c]
  PROVE  Saved(after)
<1>1. Len(list) \in Nat \ {0} /\ last \in 1 .. Len(list) /\ f \in last .. Len(list)
  BY ShapeFacts
<1>2. low \in Seq(ElementType) /\ Len(low) \in f .. Len(list) /\ \A k \in 1 .. Len(low) : low[k] = list[k]
  BY DEF LowPart
<1>3. PICK l \in Nat \ {0} : l = Len(low)
  BY <1>1, <1>2
<1>4. /\ after \in Seq(ElementType) /\ c <= Len(after)
      /\ \A k \in 1 .. l : after[k] = list[k]
      /\ after[c].kind \in Structural \ {"FUNC"}
      /\ \A k \in c + 1 .. Len(after) :
           \/ after[k].kind \in Number
           \/ after[k] = ElseFence /\ after[c].kind = "IF" /\ k = c + Len(after[c].type.params) + 1
  BY <1>3, Zenon DEF Opens
<1>5. Len(after) \in Nat /\ c \in Nat /\ c = l + 1 /\ l <= Len(list) /\ Len(list) \in Nat
  BY <1>1, <1>2, <1>3, <1>4, SeqFacts
<1>6. Alike(list, after, l)
  BY <1>4, Zenon DEF Alike
<1>7. after[1].type = FunctionType /\ \A k \in 1 .. l : IfTypes(after, k) /\ ParamsSaved(after, k)
  BY <1>3, <1>5, <1>6, SavedAlike
<1>8. ParamsSaved(after, c)
  <2>1. after[c].kind # "ELSE_FENCE"
    BY <1>4, KindFacts
  <2>. QED BY <2>1 DEF ParamsSaved
<1>9. ASSUME NEW k \in c + 1 .. Len(after) PROVE IfTypes(after, k) /\ ParamsSaved(after, k)
  <2>1. CASE after[k].kind \in Number
    <3>1. after[k].kind # "IF" /\ after[k].kind # "ELSE_FENCE"
      BY <2>1, KindFacts DEF Structural
    <3>. QED BY <3>1, Zenon DEF IfTypes, ParamsSaved
  <2>2. CASE after[k] = ElseFence /\ after[c].kind = "IF" /\ k = c + Len(after[c].type.params) + 1
    <3>1. after[k].kind = "ELSE_FENCE"
      BY <2>2 DEF ElseFence, Element
    <3>2. IfTypes(after, k)
      BY <3>1 DEF IfTypes
    <3>3. ASSUME NEW j \in 1 .. k - 1, Encloses(after, j, k) PROVE j = c
      <4>1. after[j].kind \in Structural /\ \A m \in j + 1 .. k - 1 : after[m].kind \notin Structural
        BY <3>3 DEF Encloses
      <4>2. ~(j < c)
        <5>1. j < c => c \in j + 1 .. k - 1
          BY <1>5
        <5>. QED BY <1>4, <4>1, <5>1
      <4>3. ~(j > c)
        <5>1. SUFFICES ASSUME j > c PROVE FALSE
          OBVIOUS
        <5>2. j \in c + 1 .. Len(after) /\ j # k
          BY <1>5, <5>1
        <5>3. after[j].kind \in Number
          BY <1>4, <2>2, <5>2
        <5>. QED BY <4>1, <5>3, KindFacts
      <4>. QED BY <1>5, <4>2, <4>3
    <3>4. ParamsSaved(after, k)
      <4>1. \A q \in c + 1 .. k - 1 : after[q].kind = after[c].type.params[q - c]
        <5>0. Len(after[c].type.params) \in Nat
          <6>1. after[c] \in ElementType
            BY <1>4, <1>5, SeqFacts
          <6>2. after[c].type \in SignatureType
            BY <6>1, ElementFacts, TypeFacts
          <6>. QED BY <6>2, SignatureFacts
        <5>1. k - 1 = c + Len(after[c].type.params)
          <6>1. \A u, v, w \in Int : u = v + w + 1 => u - 1 = v + w
            OBVIOUS
          <6>2. k \in Int /\ c \in Int /\ Len(after[c].type.params) \in Int
            BY <1>5, <5>0
          <6>. QED BY <2>2, <6>1, <6>2, Zenon
        <5>2. \A q \in c + 1 .. c + Len(after[c].type.params) : after[q].kind = after[c].type.params[q - c]
          BY <2>2, Zenon
        <5>. QED BY <5>1, <5>2, Zenon
      <4>. QED BY <3>3, <4>1, Zenon DEF ParamsSaved
    <3>. QED BY <3>2, <3>4
  <2>. QED BY <1>4, <2>1, <2>2
<1>10. \A k \in 1 .. Len(after) : k \in 1 .. l \/ k = c \/ k \in c + 1 .. Len(after)
  BY <1>5
<1>. QED BY <1>7, <1>8, <1>9, <1>10, Zenon DEF Saved

(***************************************************************************)
(* The operands of the current frame.                                      *)
(***************************************************************************)
LEMMA KeepNone ==
  ASSUME NEW s, NEW n \in Int, n < 1
  PROVE  Keep(s, n) = <<>>
  BY SubSeqEmpty DEF Keep

LEMMA KeepAll ==
  ASSUME NEW S, NEW s \in Seq(S)
  PROVE  Keep(s, Len(s)) = s
<1>1. Len(s) \in Nat /\ Len(s) \in 0 .. Len(s)
  BY SeqFacts
<1>2. Keep(s, Len(s)) \in Seq(S) /\ Len(Keep(s, Len(s))) = Len(s) /\ \A k \in 1 .. Len(s) : Keep(s, Len(s))[k] = s[k]
  BY <1>1, KeepFacts
<1>. QED BY <1>2, SeqEqual

\* A list that is cut above its floor holds the first of its operands.
LEMMA LowHeld ==
  ASSUME NEW list, NEW last, ListGood(list, last), NEW f, f = Floor(list), NEW low, LowPart(list, f, low)
  PROVE  /\ Held(low) = Keep(Held(list), Len(low) - f) /\ Held(low) \in Seq(Kinds) /\ Held(list) \in Seq(Kinds)
         /\ Len(Held(list)) = Len(list) - f /\ Len(Held(low)) = Len(low) - f /\ Floor(low) = f
<1>1. /\ Replaces(list, last, f, low) /\ f \in last .. Len(low) /\ last \in 1 .. Len(low)
      /\ Len(low) \in Nat /\ Len(list) \in Nat
  BY LowOperands
<1>2. Floor(low) = f
  BY <1>1, SameBlockList
<1>3. low \in Seq(ElementType) /\ Len(low) \in f .. Len(list) /\ \A k \in 1 .. Len(low) : low[k] = list[k]
  BY DEF LowPart
<1>4. list \in Seq(ElementType)
  BY DEF ListGood
<1>5. f \in 1 .. Len(list) /\ f \in 1 .. Len(low)
  BY <1>1, <1>3
<1>6. PICK n, m : n = Len(low) - f /\ m = Len(list) - f
  OBVIOUS
<1>7. Held(low) \in Seq(Kinds) /\ Len(Held(low)) = n /\ \A k \in 1 .. n : Held(low)[k] = low[f + k].kind
  BY <1>2, <1>3, <1>5, <1>6, HeldFacts
<1>8. Held(list) \in Seq(Kinds) /\ Len(Held(list)) = m /\ \A k \in 1 .. m : Held(list)[k] = list[f + k].kind
  BY <1>4, <1>5, <1>6, HeldFacts
<1>9. n \in 0 .. m /\ m \in Nat
  BY <1>1, <1>3, <1>5, <1>6
<1>10. /\ Keep(Held(list), n) \in Seq(Kinds) /\ Len(Keep(Held(list), n)) = n
       /\ \A k \in 1 .. n : Keep(Held(list), n)[k] = Held(list)[k]
  BY <1>8, <1>9, KeepFacts
<1>11. \A k \in 1 .. n : Keep(Held(list), n)[k] = Held(low)[k]
  <2>1. \A k \in 1 .. n : k \in 1 .. m /\ f + k \in 1 .. Len(low)
    BY <1>3, <1>5, <1>6, <1>9
  <2>. QED BY <1>3, <1>7, <1>8, <1>10, <2>1
<1>12. Held(low) = Keep(Held(list), n)
  BY <1>7, <1>10, <1>11, SeqEqual
<1>. QED BY <1>2, <1>6, <1>7, <1>8, <1>12

\* What remains when operands of types are popped.
LEMMA BelowHeld ==
  ASSUME ListGood(elements, current), NEW types, Len(types) \in Nat
  PROVE  /\ Held(Below(types)) = WasmSpecification!Without(types)
         /\ LowPart(elements, Floor(elements), Below(types))
         /\ Base(elements, types) = Floor(elements) <=> Len(Held(elements)) <= Len(types)
<1>1. PICK f : f = Floor(elements)
  OBVIOUS
<1>2. /\ elements \in Seq(ElementType) /\ Len(elements) \in Nat \ {0} /\ current \in 1 .. Len(elements)
      /\ f \in current .. Len(elements)
  BY <1>1, PrevFacts, ShapeFacts
<1>3. f \in 1 .. Len(elements) /\ f \in Nat
  BY <1>2
<1>4. PICK b : b = Base(elements, types)
  OBVIOUS
<1>5. b = IF Len(elements) - Len(types) < f THEN f ELSE Len(elements) - Len(types)
  BY <1>1, <1>4, Zenon DEF Base
<1>6. b \in f .. Len(elements) /\ b \in 0 .. Len(elements) /\ b \in Nat
  BY <1>2, <1>3, <1>5
<1>7. PICK low : low = Below(types)
  OBVIOUS
<1>8. low \in Seq(ElementType) /\ Len(low) = b /\ \A k \in 1 .. b : low[k] = elements[k]
  BY <1>2, <1>4, <1>6, <1>7, KeepFacts DEF Below
<1>9. LowPart(elements, f, low)
  BY <1>6, <1>8 DEF LowPart
<1>10. Held(low) = Keep(Held(elements), Len(low) - f) /\ Len(Held(elements)) = Len(elements) - f /\ Held(low) \in Seq(Kinds)
  BY <1>1, <1>9, LowHeld
<1>11. WasmSpecification!Without(types) = Keep(Held(elements), Len(Held(elements)) - Len(types))
  BY InnermostFacts DEF WasmSpecification!Without, WasmSpecification!Keep, Keep
<1>12. Held(low) = WasmSpecification!Without(types)
  <2>1. CASE Len(elements) - Len(types) < f
    <3>1. Len(low) - f < 1 /\ Len(low) - f \in Int
      BY <1>3, <1>5, <1>8, <2>1
    <3>2. Len(Held(elements)) - Len(types) < 1 /\ Len(Held(elements)) - Len(types) \in Int
      BY <1>2, <1>3, <1>10, <2>1
    <3>. QED BY <1>10, <1>11, <3>1, <3>2, KeepNone
  <2>2. CASE ~(Len(elements) - Len(types) < f)
    <3>1. Len(low) - f = Len(Held(elements)) - Len(types)
      BY <1>2, <1>3, <1>5, <1>8, <1>10, <2>2
    <3>. QED BY <1>10, <1>11, <3>1
  <2>. QED BY <2>1, <2>2
<1>13. b = f <=> Len(Held(elements)) <= Len(types)
  BY <1>2, <1>3, <1>5, <1>10
<1>. QED BY <1>1, <1>4, <1>7, <1>9, <1>12, <1>13

\* Operands on top of it.
KindsOf(new, kinds) ==
  /\ new \in Seq(ElementType) /\ kinds \in Seq(Kinds) /\ Len(new) = Len(kinds)
  /\ \A k \in 1 .. Len(kinds) : new[k].kind = kinds[k]

OnTop(list, last, f, low, new, kinds, after) ==
  /\ ListGood(list, last) /\ f = Floor(list) /\ LowPart(list, f, low)
  /\ KindsOf(new, kinds) /\ after = low \o new /\ Floor(after) = f

LEMMA StackedHeld ==
  ASSUME NEW list, NEW last, NEW f, NEW low, NEW new, NEW kinds, NEW after,
         OnTop(list, last, f, low, new, kinds, after)
  PROVE  Held(after) = Held(low) \o kinds
<1>0. /\ ListGood(list, last) /\ f = Floor(list) /\ LowPart(list, f, low)
      /\ KindsOf(new, kinds) /\ after = low \o new /\ Floor(after) = f
  BY DEF OnTop
<1>1. /\ f \in last .. Len(low) /\ last \in 1 .. Len(low) /\ Len(low) \in Nat
  BY <1>0, LowOperands
<1>2. low \in Seq(ElementType)
  BY <1>0 DEF LowPart
<1>3. Held(low) \in Seq(Kinds) /\ Floor(low) = f
  BY <1>0, LowHeld
<1>4. f \in 1 .. Len(low)
  BY <1>1
<1>5. Len(Held(low)) = Len(low) - f /\ \A k \in 1 .. Len(low) - f : Held(low)[k] = low[f + k].kind
  BY <1>2, <1>3, <1>4, HeldFacts
<1>6. /\ new \in Seq(ElementType) /\ kinds \in Seq(Kinds) /\ Len(new) = Len(kinds)
      /\ \A k \in 1 .. Len(kinds) : new[k].kind = kinds[k]
  BY <1>0 DEF KindsOf
<1>7. Len(kinds) \in Nat
  BY <1>6, SeqFacts
<1>8. /\ after \in Seq(ElementType) /\ Len(after) = Len(low) + Len(new)
      /\ \A k \in 1 .. Len(low) : after[k] = low[k]
      /\ \A k \in Len(low) + 1 .. Len(low) + Len(new) : after[k] = new[k - Len(low)]
  <2>1. new \in Seq(ElementType)
    BY <1>6
  <2>. QED BY <1>0, <1>2, <2>1, ConcatFacts, Zenon
<1>9. f \in 1 .. Len(after)
  BY <1>4, <1>6, <1>7, <1>8
<1>10. Held(after) \in Seq(Kinds) /\ Len(Held(after)) = Len(after) - f /\ \A k \in 1 .. Len(after) - f : Held(after)[k] = after[f + k].kind
  BY <1>0, <1>8, <1>9, HeldFacts
<1>11. PICK both : both = Held(low) \o kinds
  OBVIOUS
<1>12. /\ both \in Seq(Kinds) /\ Len(both) = Len(Held(low)) + Len(kinds)
       /\ \A k \in 1 .. Len(Held(low)) : both[k] = Held(low)[k]
       /\ \A k \in Len(Held(low)) + 1 .. Len(Held(low)) + Len(kinds) : both[k] = kinds[k - Len(Held(low))]
  BY <1>3, <1>6, <1>11, ConcatFacts
<1>13. PICK a, n : a = Len(low) - f /\ n = Len(kinds)
  OBVIOUS
<1>14. a \in Nat /\ n \in Nat /\ Len(after) - f = a + n /\ Len(low) = f + a
  BY <1>1, <1>4, <1>6, <1>7, <1>8, <1>13
<1>15. \A k \in 1 .. a + n : Held(after)[k] = both[k]
  <2>. TAKE k \in 1 .. a + n
  <2>1. Held(after)[k] = after[f + k].kind
    BY <1>10, <1>14
  <2>2. CASE k \in 1 .. a
    <3>1. f + k \in 1 .. Len(low)
      BY <1>4, <1>14, <2>2
    <3>2. Held(low)[k] = low[f + k].kind /\ both[k] = Held(low)[k]
      BY <1>5, <1>12, <1>13, <2>2
    <3>. QED BY <1>8, <2>1, <3>1, <3>2
  <2>3. CASE k \notin 1 .. a
    <3>1. k - a \in 1 .. n /\ f + k \in Len(low) + 1 .. Len(low) + n /\ (f + k) - Len(low) = k - a /\ k \in a + 1 .. a + n
      <4>1. k \in Nat /\ k > a /\ k <= a + n /\ f \in Nat
        BY <1>1, <1>4, <1>14, <2>3
      <4>. QED BY <1>14, <4>1
    <3>2. after[f + k] = new[k - a]
      BY <1>6, <1>8, <1>13, <3>1
    <3>3. both[k] = kinds[k - a]
      BY <1>5, <1>12, <1>13, <3>1
    <3>4. new[k - a].kind = kinds[k - a]
      BY <1>6, <1>13, <3>1
    <3>. QED BY <2>1, <3>2, <3>3, <3>4
  <2>. QED BY <2>2, <2>3
<1>16. Len(Held(after)) = a + n /\ Len(both) = a + n
  BY <1>5, <1>10, <1>12, <1>13, <1>14
<1>17. Held(after) = both
  BY <1>10, <1>12, <1>15, <1>16, SeqEqual
<1>. QED BY <1>11, <1>17

(***************************************************************************)
(* Instructions that leave the structure as it is.                         *)
(***************************************************************************)
LEMMA ValuesOf ==
  ASSUME NEW types \in Seq(Number \union {"any"})
  PROVE  KindsOf(Values(types), types)
<1>1. /\ Values(types) \in Seq(ElementType) /\ Len(Values(types)) = Len(types) /\ Len(types) \in Nat
      /\ \A k \in 1 .. Len(types) : Values(types)[k].kind = types[k] /\ types[k] \in Number \union {"any"}
  BY ValuesFacts
<1>2. \A k \in 1 .. Len(types) : types[k] \in Kinds
  BY <1>1, KindFacts
<1>3. types \in Seq(Kinds)
  <2>1. DOMAIN types = 1 .. Len(types) /\ types = [k \in DOMAIN types |-> types[k]]
    BY SeqFacts
  <2>. QED BY <1>1, <1>2, <2>1
<1>. QED BY <1>1, <1>3 DEF KindsOf

LEMMA NumberTypes ==
  ASSUME NEW types \in Seq(Number)
  PROVE  types \in Seq(Number \union {"any"}) /\ Len(types) \in Nat
<1>1. Len(types) \in Nat /\ DOMAIN types = 1 .. Len(types) /\ \A k \in 1 .. Len(types) : types[k] \in Number
  BY SeqFacts
<1>. QED BY <1>1

\* Operands on top of what is left of the operands.
LEMMA PushedFrames ==
  ASSUME ListGood(elements, current), NEW low, LowPart(elements, Floor(elements), low),
         NEW new, Operands(new, elements[current]), NEW kinds, KindsOf(new, kinds), NEW after, after = low \o new
  PROVE  /\ ControlFrames(after, current) = WasmSpecification!Now(Held(low) \o kinds)
         /\ Saved(elements) => Saved(after)
<1>1. PICK f : f = Floor(elements)
  OBVIOUS
<1>2. LowPart(elements, f, low)
  BY <1>1
<1>3. Stacked(elements, current, f, low, new, after)
  BY <1>1, <1>2, NewOperands
<1>4. Replaces(elements, current, f, after) /\ after[current] = elements[current]
  BY <1>3 DEF Stacked
<1>5. Floor(after) = f
  BY <1>1, <1>4, SameBlockList
<1>6. Held(after) = Held(low) \o kinds
  <2>1. OnTop(elements, current, f, low, new, kinds, after)
    BY <1>1, <1>2, <1>5, Zenon DEF OnTop
  <2>. QED BY <2>1, StackedHeld
<1>7. ControlFrames(after, current) = WasmSpecification!Now(Held(after))
  BY <1>1, <1>4, StaysNow
<1>8. Saved(elements) => Saved(after)
  BY <1>1, <1>4, SavedReplaces
<1>. QED BY <1>6, <1>7, <1>8

LEMMA LowFrames ==
  ASSUME ListGood(elements, current), NEW low, LowPart(elements, Floor(elements), low)
  PROVE  /\ ControlFrames(low, current) = WasmSpecification!Now(Held(low))
         /\ Saved(elements) => Saved(low)
<1>1. PICK f : f = Floor(elements)
  OBVIOUS
<1>2. LowPart(elements, f, low)
  BY <1>1
<1>3. Replaces(elements, current, f, low) /\ low[current] = elements[current]
  BY <1>1, <1>2, LowOperands
<1>4. ControlFrames(low, current) = WasmSpecification!Now(Held(low))
  BY <1>1, <1>3, StaysNow
<1>5. Saved(elements) => Saved(low)
  BY <1>1, <1>3, SavedReplaces
<1>. QED BY <1>4, <1>5

LEMMA PoppedPushed ==
  ASSUME ListGood(elements, current), NEW types, Len(types) \in Nat, NEW results \in Seq(Number),
         NEW after, after = Below(types) \o Values(results)
  PROVE  /\ ControlFrames(after, current) = WasmSpecification!Now(WasmSpecification!Without(types) \o results)
         /\ Saved(elements) => Saved(after)
<1>1. PICK low : low = Below(types)
  OBVIOUS
<1>2. Held(low) = WasmSpecification!Without(types) /\ LowPart(elements, Floor(elements), low)
  BY <1>1, BelowHeld
<1>3. PICK new : new = Values(results)
  OBVIOUS
<1>4. KindsOf(new, results)
  BY <1>3, NumberTypes, ValuesOf
<1>5. Operands(new, elements[current])
  BY <1>3, MadeOperands
<1>6. after = low \o new
  BY <1>1, <1>3
<1>7. /\ ControlFrames(after, current) = WasmSpecification!Now(Held(low) \o results)
      /\ Saved(elements) => Saved(after)
  BY <1>2, <1>4, <1>5, <1>6, PushedFrames
<1>. QED BY <1>2, <1>7

LEMMA BooleanFacts ==
  ASSUME ListGood(elements, current)
  PROVE  FormallyUnreachable \in BOOLEAN /\ \A types : Holds(elements, types) \in BOOLEAN
<1>1. elements[current] \in ElementType
  <2>1. elements \in Seq(ElementType) /\ current \in 1 .. Len(elements)
    BY PrevFacts
  <2>. QED BY <2>1, SeqFacts
<1>2. FormallyUnreachable \in BOOLEAN
  BY <1>1, ElementFacts DEF FormallyUnreachable
<1>3. \A types : Holds(elements, types) \in BOOLEAN
  BY <1>2 DEF Holds, FitsAtEnd
<1>. QED BY <1>2, <1>3

LEMMA PlainSpecified ==
  ASSUME ListGood(elements, current), NEW i \in Instruction, PlainInstruction(i)
  PROVE  WasmSpecification!PlainInstruction(i) /\ (Saved(elements) => SavedKept)
<1>1. i.type.params \in Seq(Number) /\ i.type.results \in Seq(Number) /\ Len(i.type.params) \in Nat
  BY InstructionAssumption, SignatureFacts
<1>2. PICK after : after = Below(i.type.params) \o Values(i.type.results)
  OBVIOUS
<1>3. PICK opened : opened = Moved(Len(i.type.params), Len(i.type.results))
  OBVIOUS
<1>4. PICK valid \in BOOLEAN : valid = Holds(elements, i.type.params)
  BY BooleanFacts
<1>5. i.op = "plain" /\ Decide(valid, after, current, opened)
  BY <1>2, <1>3, <1>4, Zenon DEF PlainInstruction
<1>6. /\ ControlFrames(after, current) =
           WasmSpecification!Now(WasmSpecification!Without(i.type.params) \o i.type.results)
      /\ Saved(elements) => Saved(after)
  BY <1>1, <1>2, PoppedPushed
<1>7. WasmSpecification!Has(i.type.params) <=> valid
  BY <1>4, HasFacts
<1>8. WasmSpecification!Decide(WasmSpecification!Has(i.type.params),
        WasmSpecification!Now(WasmSpecification!Without(i.type.params) \o i.type.results))
  BY <1>5, <1>6, <1>7, DecidedAsSpecified
<1>9. Saved(elements) => SavedKept
  BY <1>5, <1>6, DecidedSaved
<1>. QED BY <1>5, <1>8, <1>9 DEF WasmSpecification!PlainInstruction

LEMMA DropSpecified ==
  ASSUME ListGood(elements, current), NEW i \in Instruction, Drop(i)
  PROVE  WasmSpecification!Drop(i) /\ (Saved(elements) => SavedKept)
<1>1. PICK f : f = Floor(elements)
  OBVIOUS
<1>2. /\ elements \in Seq(ElementType) /\ Len(elements) \in Nat \ {0} /\ f \in current .. Len(elements) /\ f \in Nat
      /\ current \in 1 .. Len(elements) /\ elements # <<>>
  BY <1>1, PrevFacts, ShapeFacts
<1>3. f \in 1 .. Len(elements)
  BY <1>2
<1>4. Held(elements) \in Seq(Kinds) /\ Len(Held(elements)) = Len(elements) - f
  BY <1>1, <1>2, <1>3, HeldFacts
<1>5. Held(elements) = <<>> <=> Len(Held(elements)) = 0
  BY <1>4, SeqFacts
<1>6. PICK after : after = IF Held(elements) = <<>> THEN elements ELSE Front(elements)
  OBVIOUS
<1>7. LowPart(elements, f, after) /\ Len(after) - f = IF Held(elements) = <<>> THEN 0 ELSE Len(Held(elements)) - 1
  <2>1. CASE Held(elements) = <<>>
    <3>1. after = elements
      BY <1>6, <2>1
    <3>. QED BY <1>2, <1>4, <1>5, <2>1, <3>1 DEF LowPart
  <2>2. CASE Held(elements) # <<>>
    <3>1. after = Front(elements)
      BY <1>6, <2>2
    <3>2. /\ after \in Seq(ElementType) /\ Len(after) = Len(elements) - 1
          /\ \A k \in 1 .. Len(elements) - 1 : after[k] = elements[k]
      BY <1>2, <3>1, FrontFacts
    <3>3. Len(elements) - 1 \in f .. Len(elements)
      BY <1>2, <1>4, <1>5, <2>2
    <3>. QED BY <1>2, <1>4, <2>2, <3>2, <3>3 DEF LowPart
  <2>. QED BY <2>1, <2>2
<1>8. Held(after) = Keep(Held(elements), Len(after) - f)
  BY <1>1, <1>7, LowHeld
<1>9. Held(after) = WasmSpecification!Keep(Held(elements), Len(Held(elements)) - 1)
  <2>1. CASE Held(elements) = <<>>
    <3>1. Len(Held(elements)) - 1 < 1 /\ Len(Held(elements)) - 1 \in Int /\ Len(after) - f < 1 /\ Len(after) - f \in Int
      BY <1>5, <1>7, <2>1
    <3>2. Keep(Held(elements), Len(Held(elements)) - 1) = <<>> /\ Keep(Held(elements), Len(after) - f) = <<>>
      BY <3>1, KeepNone
    <3>. QED BY <1>8, <3>2 DEF WasmSpecification!Keep, Keep
  <2>2. CASE Held(elements) # <<>>
    BY <1>7, <1>8, <2>2 DEF WasmSpecification!Keep, Keep
  <2>. QED BY <2>1, <2>2
<1>10. ControlFrames(after, current) = WasmSpecification!Now(Held(after)) /\ (Saved(elements) => Saved(after))
  <2>1. LowPart(elements, Floor(elements), after)
    BY <1>1, <1>7
  <2>. QED BY <2>1, LowFrames
<1>11. PICK valid \in BOOLEAN : valid = (Held(elements) # <<>> \/ FormallyUnreachable)
  OBVIOUS
<1>12. PICK opened : opened = Moved(1, 0)
  OBVIOUS
<1>13. i.op = "drop" /\ Decide(valid, after, current, opened)
  BY <1>6, <1>11, <1>12, Zenon DEF Drop
<1>14. WasmSpecification!Operands = Held(elements) /\ WasmSpecification!Innermost.unreachable = FormallyUnreachable
  BY InnermostFacts, FrameFields DEF FormallyUnreachable
<1>15. PICK asSpecified : asSpecified = (WasmSpecification!Operands # <<>> \/ WasmSpecification!Innermost.unreachable)
  OBVIOUS
<1>16. asSpecified <=> valid
  BY <1>11, <1>14, <1>15
<1>17. WasmSpecification!Decide(asSpecified, WasmSpecification!Now(Held(after)))
  BY <1>10, <1>13, <1>16, DecidedAsSpecified
<1>18. Saved(elements) => SavedKept
  BY <1>10, <1>13, DecidedSaved
<1>. QED BY <1>9, <1>13, <1>14, <1>15, <1>17, <1>18, Zenon DEF WasmSpecification!Drop

\* Behind an unconditional branch the frame is marked, and its operands are gone.
LEMMA LeftSpecified ==
  ASSUME ListGood(elements, current), NEW valid \in BOOLEAN,
         Decide(valid, MarkedUnreachable, current, FrameUnreachable), NEW asSpecified, asSpecified <=> valid
  PROVE  /\ WasmSpecification!Decide(asSpecified, WasmSpecification!Unreachable)
         /\ Saved(elements) => SavedKept
<1>1. PICK after, f : after = MarkedUnreachable /\ f = Floor(elements)
  OBVIOUS
<1>2. ControlFrames(after, current) = WasmSpecification!Unreachable
  BY <1>1, StaysDead
<1>3. Replaces(elements, current, f, after)
  BY <1>1, MarkedFacts
<1>4. Saved(elements) => Saved(after)
  BY <1>1, <1>3, SavedReplaces
<1>5. PICK opened : opened = FrameUnreachable
  OBVIOUS
<1>6. Decide(valid, after, current, opened)
  BY <1>1, <1>5
<1>7. WasmSpecification!Decide(asSpecified, WasmSpecification!Unreachable)
  BY <1>2, <1>6, DecidedAsSpecified
<1>8. Saved(elements) => SavedKept
  BY <1>4, <1>6, DecidedSaved
<1>. QED BY <1>7, <1>8

LEMMA LeaveSpecified ==
  ASSUME ListGood(elements, current), Saved(elements), NEW i \in Instruction,
         Unreachable(i) \/ Return(i) \/ ReturnCallInstruction(i)
  PROVE  WasmSpecification!Leave(i) /\ SavedKept
<1>1. elements[1].type = FunctionType
  BY DEF Saved
<1>2. CASE Unreachable(i)
  <2>1. i.op = "unreachable" /\ Decide(TRUE, MarkedUnreachable, current, FrameUnreachable)
    BY <1>2, Zenon DEF Unreachable, Decide
  <2>2. WasmSpecification!Decide(TRUE, WasmSpecification!Unreachable) /\ SavedKept
    BY <2>1, LeftSpecified
  <2>. QED BY <2>1, <2>2 DEF WasmSpecification!Leave
<1>3. CASE Return(i)
  <2>1. PICK valid \in BOOLEAN : valid = Holds(elements, FunctionType.results)
    BY BooleanFacts
  <2>2. i.op = "return" /\ Decide(valid, MarkedUnreachable, current, FrameUnreachable)
    BY <1>1, <1>3, <2>1, Zenon DEF Return
  <2>3. WasmSpecification!Has(FunctionType.results) <=> valid
    BY <2>1, HasFacts
  <2>4. WasmSpecification!Decide(WasmSpecification!Has(FunctionType.results), WasmSpecification!Unreachable) /\ SavedKept
    BY <2>2, <2>3, LeftSpecified
  <2>. QED BY <2>2, <2>4 DEF WasmSpecification!Leave
<1>4. CASE ReturnCallInstruction(i)
  <2>1. PICK valid \in BOOLEAN : valid = (i.type.results = FunctionType.results /\ Holds(elements, i.type.params))
    OBVIOUS
  <2>2. i.op = "return_call" /\ Decide(valid, MarkedUnreachable, current, FrameUnreachable)
    BY <1>1, <1>4, <2>1, Zenon DEF ReturnCallInstruction
  <2>3. (WasmSpecification!Has(i.type.params) /\ i.type.results = FunctionType.results) <=> valid
    BY <2>1, HasFacts
  <2>4. WasmSpecification!Decide(WasmSpecification!Has(i.type.params) /\ i.type.results = FunctionType.results,
                                 WasmSpecification!Unreachable) /\ SavedKept
    BY <2>2, <2>3, LeftSpecified
  <2>. QED BY <2>2, <2>4 DEF WasmSpecification!Leave
<1>. QED BY <1>2, <1>3, <1>4

(***************************************************************************)
(* The operand that a select leaves.                                       *)
(***************************************************************************)
LastBut(h, k) == IF k < Len(h) THEN h[Len(h) - k] ELSE "any"
Selected(h) == IF LastBut(h, 0) = "any" THEN LastBut(h, 1) ELSE LastBut(h, 0)
Selectable(h, u) ==
  /\ Len(h) >= 2 \/ u
  /\ Fits(LastBut(h, 0), LastBut(h, 1)) \/ Fits(LastBut(h, 1), LastBut(h, 0))

\* What the code asks of the operands, of which there are n, and what it leaves.
SelectChecks(h, n, u) ==
  IF n >= 2 THEN h[n - 1] = h[n] \/ (u /\ "any" \in {h[n - 1], h[n]}) ELSE u
SelectLeaves(h, n) == IF h[n - 1] = "any" THEN h[n] ELSE h[n - 1]

LEMMA SelectedFacts ==
  ASSUME NEW h \in Seq(Kinds), NEW u \in BOOLEAN, \A k \in 1 .. Len(h) : h[k] = "any" => u, NEW n, n = Len(h)
  PROVE  /\ Selectable(h, u) <=> SelectChecks(h, n, u)
         /\ n >= 2 /\ SelectChecks(h, n, u) => Selected(h) = SelectLeaves(h, n)
         /\ n = 1 => Selected(h) = h[1]
         /\ n = 0 => Selected(h) = "any"
<1>1. n \in Nat
  BY SeqFacts
<1>2. CASE n = 0
  <2>1. LastBut(h, 0) = "any" /\ LastBut(h, 1) = "any"
    BY <1>2 DEF LastBut
  <2>. QED BY <1>2, <2>1 DEF Selected, Selectable, SelectChecks, Fits
<1>3. CASE n = 1
  <2>1. LastBut(h, 0) = h[1] /\ LastBut(h, 1) = "any"
    BY <1>3 DEF LastBut
  <2>. QED BY <1>3, <2>1 DEF Selected, Selectable, SelectChecks, Fits
<1>4. CASE n >= 2
  <2>1. LastBut(h, 0) = h[n] /\ LastBut(h, 1) = h[n - 1]
    BY <1>1, <1>4 DEF LastBut
  <2>2. n \in 1 .. Len(h) /\ n - 1 \in 1 .. Len(h)
    BY <1>1, <1>4
  <2>3. (h[n] = "any" => u) /\ (h[n - 1] = "any" => u)
    BY <2>2
  <2>4. PICK a, b : a = h[n] /\ b = h[n - 1]
    OBVIOUS
  <2>5. Selectable(h, u) <=> SelectChecks(h, n, u)
    BY <1>1, <1>4, <2>1, <2>3, <2>4 DEF Selectable, SelectChecks, Fits
  <2>6. SelectChecks(h, n, u) => Selected(h) = SelectLeaves(h, n)
    BY <1>1, <1>4, <2>1, <2>3, <2>4 DEF Selected, SelectLeaves, SelectChecks
  <2>. QED BY <1>4, <2>5, <2>6
<1>. QED BY <1>1, <1>2, <1>3, <1>4

\* An operand on top of what is left.
LEMMA OnePushed ==
  ASSUME ListGood(elements, current), NEW low, LowPart(elements, Floor(elements), low),
         NEW kind \in Number \union {"any"}, kind = "any" => elements[current].formallyUnreachable,
         NEW after, after = low \o Values(<<kind>>)
  PROVE  /\ ControlFrames(after, current) = WasmSpecification!Now(Append(Held(low), kind))
         /\ Saved(elements) => Saved(after)
<1>1. PICK new, kinds : new = Values(kinds) /\ kinds = <<kind>>
  OBVIOUS
<1>2. kinds \in Seq(Number \union {"any"})
  BY <1>1
<1>3. KindsOf(new, kinds)
  BY <1>1, <1>2, ValuesOf
<1>4. new \in Seq(ElementType) /\ Len(new) = 1 /\ new[1].kind = kind
  BY <1>1, OneOperand
<1>5. Operands(new, elements[current])
  BY <1>4 DEF Operands, IsNumber
<1>6. after = low \o new
  BY <1>1
<1>7. /\ ControlFrames(after, current) = WasmSpecification!Now(Held(low) \o kinds)
      /\ Saved(elements) => Saved(after)
  BY <1>3, <1>5, <1>6, PushedFrames
<1>8. Held(low) \in Seq(Kinds)
  BY LowHeld
<1>9. kind \in Kinds
  BY KindFacts
<1>10. Held(low) \o kinds = Append(Held(low), kind)
  BY <1>1, <1>8, <1>9, AppendIsConcat
<1>. QED BY <1>7, <1>10

SelectCase(low, h, n, after) ==
  /\ LowPart(elements, Floor(elements), low) /\ h = Held(low) /\ n = Len(h)
  /\ SelectChecks(h, n, FormallyUnreachable) /\ after = SelectResult(low, n, h)

LEMMA SelectFrames ==
  ASSUME ListGood(elements, current), NEW low, NEW h, NEW n, NEW after, SelectCase(low, h, n, after)
  PROVE  /\ ControlFrames(after, current) = WasmSpecification!Now(Append(Keep(h, n - 2), Selected(h)))
         /\ Saved(elements) => Saved(after)
<1>0. /\ LowPart(elements, Floor(elements), low) /\ h = Held(low) /\ n = Len(h)
      /\ SelectChecks(h, n, FormallyUnreachable) /\ after = SelectResult(low, n, h)
  BY DEF SelectCase
<1>1. PICK f : f = Floor(elements)
  OBVIOUS
<1>2. /\ Replaces(elements, current, f, low) /\ f \in current .. Len(low) /\ Len(low) \in Nat /\ low[current] = elements[current]
      /\ current \in 1 .. Len(low)
  BY <1>0, <1>1, LowOperands
<1>3. ListGood(low, current) /\ Floor(low) = f
  BY <1>0, <1>1, <1>2, SameBlockList
<1>4. h \in Seq(Kinds) /\ n = Len(low) - f /\ n \in Nat /\ f \in 1 .. Len(low)
  <2>1. h \in Seq(Kinds) /\ n = Len(low) - f
    BY <1>0, <1>1, LowHeld
  <2>. QED BY <1>0, <1>2, <2>1
<1>5. low \in Seq(ElementType)
  BY <1>0 DEF LowPart
<1>6. \A k \in 1 .. n : h[k] = low[f + k].kind
  BY <1>0, <1>3, <1>4, <1>5, HeldFacts
<1>7. \A k \in 1 .. n : h[k] \in Number \union {"any"} /\ (h[k] = "any" => FormallyUnreachable)
  <2>1. \A k \in f + 1 .. Len(low) : IsNumber(low[k]) /\ (low[k].kind = "any" => low[current].formallyUnreachable)
    BY <1>0, <1>2 DEF Replaces
  <2>2. \A k \in 1 .. n : f + k \in f + 1 .. Len(low)
    BY <1>0, <1>2, <1>4
  <2>. QED BY <1>0, <1>2, <1>6, <2>1, <2>2 DEF IsNumber, FormallyUnreachable
<1>8. FormallyUnreachable \in BOOLEAN
  BY <1>0, BooleanFacts
<1>9. /\ n >= 2 => Selected(h) = SelectLeaves(h, n)
      /\ n = 1 => Selected(h) = h[1]
      /\ n = 0 => Selected(h) = "any"
  BY <1>0, <1>4, <1>7, <1>8, SelectedFacts
<1>10. CASE n = 0
  <2>1. after = low \o Values(<<"any">>)
    BY <1>0, <1>10 DEF SelectResult
  <2>2. FormallyUnreachable
    BY <1>0, <1>10 DEF SelectChecks
  <2>3. elements[current].formallyUnreachable
    BY <1>0, <2>2 DEF FormallyUnreachable
  <2>4. PICK kind \in Number \union {"any"} : kind = "any"
    OBVIOUS
  <2>5. /\ ControlFrames(after, current) = WasmSpecification!Now(Append(Held(low), kind))
        /\ Saved(elements) => Saved(after)
    BY <1>0, <2>1, <2>3, <2>4, OnePushed
  <2>6. h = <<>>
    BY <1>0, <1>4, <1>10, SeqFacts
  <2>7. n - 2 \in Int /\ n - 2 < 1
    BY <1>0, <1>10
  <2>8. Keep(h, n - 2) = <<>>
    BY <1>0, <2>7, KeepNone
  <2>9. Append(Keep(h, n - 2), Selected(h)) = Append(Held(low), kind)
    BY <1>0, <1>9, <1>10, <2>4, <2>6, <2>8
  <2>. QED BY <1>0, <2>5, <2>9
<1>11. CASE n = 1
  <2>1. after = low
    BY <1>0, <1>11 DEF SelectResult
  <2>2. ControlFrames(low, current) = WasmSpecification!Now(Held(low)) /\ (Saved(elements) => Saved(low))
    BY <1>0, LowFrames
  <2>3. n - 2 \in Int /\ n - 2 < 1
    BY <1>0, <1>11
  <2>4. Keep(h, n - 2) = <<>>
    BY <1>0, <2>3, KeepNone
  <2>5. PICK x \in Kinds : x = h[1]
    BY <1>7, <1>11, KindFacts
  <2>6. Append(<<>>, x) = h
    <3>1. <<>> \in Seq(Kinds) /\ Len(<<>>) = 0
      OBVIOUS
    <3>2. Append(<<>>, x) \in Seq(Kinds) /\ Len(Append(<<>>, x)) = 1 /\ Append(<<>>, x)[1] = x
      BY <1>0, <3>1, AppendFacts
    <3>3. Len(Append(<<>>, x)) = Len(h) /\ \A k \in 1 .. Len(Append(<<>>, x)) : Append(<<>>, x)[k] = h[k]
      BY <1>0, <1>11, <2>5, <3>2
    <3>. QED BY <1>0, <1>4, <3>2, <3>3, SeqEqual
  <2>7. Append(Keep(h, n - 2), Selected(h)) = h
    BY <1>0, <1>9, <1>11, <2>4, <2>5, <2>6
  <2>. QED BY <1>0, <2>1, <2>2, <2>7
<1>12. CASE n >= 2
  <2>1. PICK low2, kind : low2 = Keep(low, Len(low) - 2) /\ kind = SelectLeaves(h, n)
    OBVIOUS
  <2>2. after = low2 \o Values(<<kind>>)
    <3>1. n # 0 /\ n # 1
      BY <1>0, <1>12
    <3>. QED BY <1>0, <2>1, <3>1 DEF SelectResult, SelectLeaves
  <2>3. Len(low) - 2 \in 0 .. Len(low) /\ Len(low) - 2 \in f .. Len(low)
    BY <1>0, <1>2, <1>4, <1>12
  <2>4. low2 \in Seq(ElementType) /\ Len(low2) = Len(low) - 2 /\ \A k \in 1 .. Len(low) - 2 : low2[k] = low[k]
    BY <1>0, <1>5, <2>1, <2>3, KeepFacts
  <2>5. LowPart(low, f, low2)
    BY <1>0, <2>3, <2>4 DEF LowPart
  <2>6. Held(low2) = Keep(h, n - 2)
    <3>1. Held(low2) = Keep(Held(low), Len(low2) - f)
      BY <1>0, <1>3, <2>5, LowHeld
    <3>2. Len(low2) - f = n - 2
      BY <1>0, <1>2, <1>4, <2>4
    <3>. QED BY <1>0, <3>1, <3>2
  <2>7. LowPart(elements, Floor(elements), low2)
    <3>1. Len(low) \in f .. Len(elements) /\ \A k \in 1 .. Len(low) : low[k] = elements[k]
      BY <1>0, <1>1 DEF LowPart
    <3>2. \A k \in 1 .. Len(low) - 2 : k \in 1 .. Len(low)
      BY <1>0, <1>2
    <3>3. Len(low2) \in f .. Len(elements)
      BY <1>0, <1>2, <2>3, <2>4, <3>1
    <3>. QED BY <1>0, <1>1, <2>4, <3>1, <3>2, <3>3 DEF LowPart
  <2>8. kind \in Number \union {"any"} /\ (kind = "any" => elements[current].formallyUnreachable)
    <3>1. n - 1 \in 1 .. n /\ n \in 1 .. n
      BY <1>0, <1>4, <1>12
    <3>. QED BY <1>0, <1>7, <2>1, <3>1 DEF SelectLeaves, FormallyUnreachable
  <2>9. /\ ControlFrames(after, current) = WasmSpecification!Now(Append(Held(low2), kind))
        /\ Saved(elements) => Saved(after)
    BY <1>0, <2>2, <2>7, <2>8, OnePushed
  <2>10. Append(Keep(h, n - 2), Selected(h)) = Append(Held(low2), kind)
    BY <1>0, <1>9, <1>12, <2>1, <2>6
  <2>. QED BY <1>0, <2>9, <2>10
<1>. QED BY <1>0, <1>4, <1>10, <1>11, <1>12

\* What the specification asks of a select, with the operands it is left with.
LEMMA SelectUnfolded ==
  ASSUME NEW i, i.op = "select", NEW rest, rest = WasmSpecification!Without(<<"i32">>),
         WasmSpecification!Decide(
           WasmSpecification!Has(<<"i32">>) /\ Selectable(rest, WasmSpecification!Innermost.unreachable),
           WasmSpecification!Now(Append(Keep(rest, Len(rest) - 2), Selected(rest))))
  PROVE  WasmSpecification!Select(i)
<1>1. (WasmSpecification!Has(<<"i32">>) /\ Selectable(rest, WasmSpecification!Innermost.unreachable))
        <=> /\ WasmSpecification!Has(<<"i32">>)
            /\ Len(rest) >= 2 \/ WasmSpecification!Innermost.unreachable
            /\ \/ WasmSpecification!Fits(LastBut(rest, 0), LastBut(rest, 1))
               \/ WasmSpecification!Fits(LastBut(rest, 1), LastBut(rest, 0))
  BY DEF Selectable, WasmSpecification!Fits, Fits
<1>. QED BY <1>1 DEF WasmSpecification!Select, WasmSpecification!Decide, WasmSpecification!Keep, Keep, Selected, LastBut

LEMMA SelectSpecified ==
  ASSUME ListGood(elements, current), NEW i \in Instruction, Select(i)
  PROVE  WasmSpecification!Select(i) /\ (Saved(elements) => SavedKept)
<1>1. PICK types, low, h, n : types = <<"i32">> /\ low = Below(types) /\ h = Held(low) /\ n = Len(h)
  OBVIOUS
<1>2. Len(types) \in Nat
  BY <1>1
<1>3. h = WasmSpecification!Without(types) /\ LowPart(elements, Floor(elements), low)
  BY <1>1, <1>2, BelowHeld
<1>4. FormallyUnreachable \in BOOLEAN /\ Holds(elements, types) \in BOOLEAN
  BY BooleanFacts
<1>5. PICK valid \in BOOLEAN : valid = (Holds(elements, types) /\ SelectChecks(h, n, FormallyUnreachable))
  BY <1>4
<1>6. PICK after, opened : after = SelectResult(low, n, h) /\ opened = Moved(3, 1)
  OBVIOUS
<1>7. i.op = "select" /\ Decide(valid, after, current, opened)
  <2>1. i.op = "select" /\ Decide(Holds(elements, <<"i32">>) /\ SelectChecks(h, n, FormallyUnreachable),
                                  SelectResult(low, n, h), current, Moved(3, 1))
    BY <1>1 DEF Select, SelectResult, SelectChecks
  <2>. QED BY <1>1, <1>5, <1>6, <2>1, Zenon
<1>8. h \in Seq(Kinds) /\ \A k \in 1 .. Len(h) : h[k] = "any" => FormallyUnreachable
  <2>1. PICK f : f = Floor(elements)
    OBVIOUS
  <2>2. LowPart(elements, f, low)
    BY <1>3, <2>1
  <2>3. Replaces(elements, current, f, low) /\ low[current] = elements[current] /\ f \in current .. Len(low) /\ current \in 1 .. Len(low)
        /\ Len(low) \in Nat
    BY <2>1, <2>2, LowOperands
  <2>4. Held(low) \in Seq(Kinds) /\ Floor(low) = f
    BY <2>1, <2>2, LowHeld
  <2>5. low \in Seq(ElementType) /\ f \in 1 .. Len(low)
    BY <2>2, <2>3 DEF LowPart
  <2>6. Len(Held(low)) = Len(low) - f /\ \A k \in 1 .. Len(low) - f : Held(low)[k] = low[f + k].kind
    BY <2>4, <2>5, HeldFacts
  <2>7. \A k \in f + 1 .. Len(low) : low[k].kind = "any" => low[current].formallyUnreachable
    BY <2>3 DEF Replaces
  <2>8. \A k \in 1 .. Len(low) - f : f + k \in f + 1 .. Len(low)
    BY <2>3, <2>5
  <2>9. \A k \in 1 .. Len(Held(low)) : Held(low)[k] = "any" => FormallyUnreachable
    BY <2>3, <2>6, <2>7, <2>8 DEF FormallyUnreachable
  <2>. QED BY <1>1, <2>4, <2>9, Zenon
<1>9. Selectable(h, FormallyUnreachable) <=> SelectChecks(h, n, FormallyUnreachable)
  BY <1>1, <1>4, <1>8, SelectedFacts
<1>10. valid => /\ ControlFrames(after, current) = WasmSpecification!Now(Append(Keep(h, n - 2), Selected(h)))
                /\ Saved(elements) => Saved(after)
  <2>. SUFFICES ASSUME valid
                PROVE  /\ ControlFrames(after, current) = WasmSpecification!Now(Append(Keep(h, n - 2), Selected(h)))
                       /\ Saved(elements) => Saved(after)
    OBVIOUS
  <2>1. SelectChecks(h, n, FormallyUnreachable)
    BY <1>5
  <2>2. SelectCase(low, h, n, after)
    BY <1>1, <1>3, <1>6, <2>1, Zenon DEF SelectCase
  <2>. QED BY <2>2, SelectFrames
<1>11. PICK asSpecified : asSpecified = (WasmSpecification!Has(types) /\ Selectable(h, WasmSpecification!Innermost.unreachable))
  OBVIOUS
<1>12. asSpecified <=> valid
  <2>1. WasmSpecification!Has(types) <=> Holds(elements, types)
    BY HasFacts
  <2>2. WasmSpecification!Innermost.unreachable = FormallyUnreachable
    BY InnermostFacts, FrameFields DEF FormallyUnreachable
  <2>. QED BY <1>5, <1>9, <1>11, <2>1, <2>2
<1>13. WasmSpecification!Decide(asSpecified, WasmSpecification!Now(Append(Keep(h, n - 2), Selected(h))))
  BY <1>7, <1>10, <1>12, DecidedAsSpecified
<1>14. WasmSpecification!Select(i)
  BY <1>1, <1>3, <1>7, <1>11, <1>13, SelectUnfolded, Zenon
<1>15. Saved(elements) => SavedKept
  BY <1>7, <1>10, DecidedSaved
<1>. QED BY <1>14, <1>15

(***************************************************************************)
(* Labels: the frame that a depth counts to is that of the element found.  *)
(***************************************************************************)
LEMMA OuterOf ==
  ASSUME NEW list, NEW last, ListGood(list, last), NEW j \in 1 .. Len(list), list[j].kind \in Structural
  PROVE  /\ j = 1 => list[j].prev = 0
         /\ j # 1 => list[j].prev \in 1 .. j - 1 /\ list[list[j].prev].kind \in Structural
<1>1. Len(list) \in Nat \ {0}
  BY PrevFacts
<1>2. CASE j = 1
  BY <1>2 DEF ListGood
<1>3. CASE j # 1
  <2>1. j \in 2 .. Len(list)
    BY <1>1, <1>3
  <2>2. WellPlaced(list, j)
    BY <2>1 DEF ListGood
  <2>3. Encloses(list, list[j].prev, j)
    BY <2>2 DEF WellPlaced
  <2>. QED BY <1>3, <2>3 DEF Encloses
<1>. QED BY <1>2, <1>3

IsLabel(list, around, d, j) ==
  /\ j # 0 <=> d < Len(around)
  /\ j # 0 =>
       /\ j \in 1 .. Len(list) /\ list[j].kind \in Structural
       /\ Len(FramesAround(list, j)) = Len(around) - 1 - d
       /\ \A k \in 1 .. Len(around) - 1 - d : around[k] = FramesAround(list, j)[k]
       /\ around[Len(around) - d].type = list[j].type
       /\ around[Len(around) - d].op = "loop" <=> list[j].kind = "LOOP"

LEMMA FirstLabel ==
  ASSUME NEW list, NEW last, ListGood(list, last), NEW around, around = ControlFrames(list, last)
  PROVE  IsLabel(list, around, 0, last) /\ Len(around) \in Nat
<1>1. list # <<>> /\ last \in Nat \ {0} /\ last \in 1 .. Len(list)
  BY PrevFacts
<1>2. Appended(FramesAround(list, last), ControlFrame(list, last), around)
  BY <1>1, FrameParts
<1>3. PICK n \in Nat : n = Len(FramesAround(list, last))
  BY <1>2 DEF Appended
<1>4. /\ Len(around) = n + 1 /\ around[n + 1] = ControlFrame(list, last)
      /\ \A k \in 1 .. n : around[k] = FramesAround(list, last)[k]
  BY <1>2, <1>3 DEF Appended
<1>5. last # 0 /\ 0 < Len(around) /\ Len(around) - 1 - 0 = n /\ Len(around) - 0 = n + 1
  BY <1>1, <1>4
<1>6. list[last].kind \in Structural
  BY ShapeFacts
<1>7. ControlFrame(list, last).type = list[last].type /\ (ControlFrame(list, last).op = "loop" <=> list[last].kind = "LOOP")
  BY <1>6, FrameFields, OpFacts
<1>8. IsLabel(list, around, 0, last)
  BY <1>1, <1>3, <1>4, <1>5, <1>6, <1>7, Zenon DEF IsLabel
<1>9. Len(around) \in Nat
  BY <1>4
<1>. QED BY <1>8, <1>9

LEMMA NextLabel ==
  ASSUME NEW list, NEW last, ListGood(list, last), NEW around, Len(around) \in Nat, NEW d \in Nat, NEW j,
         IsLabel(list, around, d, j)
  PROVE  IsLabel(list, around, d + 1, Step(list, j))
<1>0. PICK n \in Nat : n = Len(around)
  OBVIOUS
<1>1. CASE j = 0
  <2>1. ~(d < n)
    BY <1>0, <1>1 DEF IsLabel
  <2>2. ~(d + 1 < n)
    BY <2>1
  <2>3. Step(list, j) = 0
    BY <1>1 DEF Step
  <2>. QED BY <1>0, <2>2, <2>3 DEF IsLabel
<1>2. CASE j # 0
  <2>1. /\ j \in 1 .. Len(list) /\ list[j].kind \in Structural /\ d < n
        /\ Len(FramesAround(list, j)) = n - 1 - d
        /\ \A k \in 1 .. n - 1 - d : around[k] = FramesAround(list, j)[k]
    BY <1>0, <1>2, Zenon DEF IsLabel
  <2>2. Step(list, j) = list[j].prev
    BY <1>2 DEF Step
  <2>3. j \in Nat \ {0} /\ Len(list) \in Nat /\ list \in Seq(ElementType)
    BY <2>1, PrevFacts
  <2>4. FramesAround(list, j) = IF list[j].prev \in 1 .. j - 1
                                THEN Append(FramesAround(list, list[j].prev), Framed(list, j)) ELSE <<>>
    BY <2>3, AroundFacts, Zenon
  <2>5. CASE j = 1
    <3>1. list[j].prev = 0
      BY <2>1, <2>5, OuterOf
    <3>2. list[j].prev \notin 1 .. j - 1
      BY <3>1
    <3>3. FramesAround(list, j) = <<>>
      BY <2>4, <3>2, Zenon
    <3>4. n - 1 - d = 0
      BY <2>1, <3>3
    <3>5. ~(d + 1 < n)
      BY <3>4
    <3>. QED BY <1>0, <2>2, <3>1, <3>5 DEF IsLabel
  <2>6. CASE j # 1
    <3>1. PICK o \in 1 .. j - 1 : o = list[j].prev
      BY <2>1, <2>6, OuterOf
    <3>2. list[o].kind \in Structural
      BY <2>1, <2>6, <3>1, OuterOf
    <3>3. o \in Nat \ {0} /\ o \in 1 .. Len(list) /\ j - 1 \in 0 .. Len(list)
      BY <2>1, <2>3
    <3>4. FramesAround(list, j) = Append(FramesAround(list, o), Framed(list, j))
      BY <2>4, <3>1, Zenon
    <3>5. FramesAround(list, o) \in Seq(FrameSet(list, o)) /\ Framed(list, j) \in FrameSet(list, o)
      BY <2>3, <3>3, AroundTyped DEF FrameSet
    <3>6. Appended(FramesAround(list, o), Framed(list, j), FramesAround(list, j))
      BY <3>4, <3>5, AppendParts
    <3>7. PICK a \in Nat : a = Len(FramesAround(list, o))
      BY <3>6 DEF Appended
    <3>8. /\ Len(FramesAround(list, j)) = a + 1 /\ FramesAround(list, j)[a + 1] = Framed(list, j)
          /\ \A k \in 1 .. a : FramesAround(list, j)[k] = FramesAround(list, o)[k]
      BY <3>6, <3>7 DEF Appended
    <3>9. a + 1 = n - 1 - d /\ n - 1 - (d + 1) = a /\ n - (d + 1) = a + 1 /\ d + 1 < n
      <4>1. a + 1 = n - 1 - d
        BY <2>1, <3>8
      <4>. QED BY <4>1
    <3>10. around[a + 1] = Framed(list, j)
      <4>1. a + 1 \in 1 .. a + 1
        OBVIOUS
      <4>. QED BY <2>1, <3>8, <3>9, <4>1, Zenon
    <3>11. \A k \in 1 .. a : around[k] = FramesAround(list, o)[k]
      <4>1. \A k \in 1 .. a : k \in 1 .. a + 1
        OBVIOUS
      <4>. QED BY <2>1, <3>8, <3>9, <4>1, Zenon
    <3>12. PICK low : low = Keep(list, j - 1)
      OBVIOUS
    <3>13. low[o] = list[o]
      BY <2>3, <3>3, <3>12, KeepFacts
    <3>14. Framed(list, j) = ControlFrame(low, o)
      BY <3>1, <3>12, Zenon DEF Framed
    <3>15. around[a + 1].type = list[o].type /\ (around[a + 1].op = "loop" <=> list[o].kind = "LOOP")
      <4>1. low[o].kind \in Structural
        BY <3>2, <3>13
      <4>. QED BY <3>10, <3>13, <3>14, <4>1, FrameFields, OpFacts
    <3>16. o # 0 /\ Step(list, j) = o
      BY <2>2, <3>1
    <3>. QED BY <1>0, <3>2, <3>3, <3>7, <3>9, <3>11, <3>15, <3>16, Zenon DEF IsLabel
  <2>. QED BY <2>5, <2>6
<1>. QED BY <1>1, <1>2

\* A label exists for the code when it does for the specification, and expects
\* the same types.
LEMMA LabelsAgree ==
  ASSUME ListGood(elements, current), NEW depth \in Nat
  PROVE  /\ WasmSpecification!LabelExists(depth) <=> Target(depth) # 0
         /\ Target(depth) # 0 => WasmSpecification!LabelTypes(depth) = TargetTypes(depth)
<1>1. PICK around : around = ControlFrames(elements, current)
  OBVIOUS
<1>2. PICK g : IsEnclosing(g, elements, current, depth) /\ Target(depth) = g[depth]
  BY EnclosingExists, TargetUnfold
<1>3. \A d \in 0 .. depth : g[d] = IF d = 0 THEN current ELSE Step(elements, g[d - 1])
  BY <1>2, Zenon DEF IsEnclosing, Step
<1>4. IsLabel(elements, around, 0, current) /\ Len(around) \in Nat
  BY <1>1, FirstLabel
<1>. DEFINE S == {d \in Nat : d <= depth => IsLabel(elements, around, d, g[d])}
<1>5. 0 \in S
  <2>1. g[0] = current
    BY <1>3
  <2>. QED BY <1>4, <2>1
<1>6. ASSUME NEW d \in S PROVE d + 1 \in S
  <2>. SUFFICES ASSUME d + 1 <= depth PROVE IsLabel(elements, around, d + 1, g[d + 1])
    OBVIOUS
  <2>1. PICK k \in 1 .. depth : k = d + 1 /\ k - 1 = d
    OBVIOUS
  <2>2. g[k] = Step(elements, g[k - 1])
    BY <1>3
  <2>3. IsLabel(elements, around, d, g[d]) /\ d \in Nat
    OBVIOUS
  <2>4. IsLabel(elements, around, d + 1, Step(elements, g[d]))
    BY <1>4, <2>3, NextLabel
  <2>. QED BY <2>1, <2>2, <2>4, Zenon
<1>7. S = Nat
  <2>. HIDE DEF S
  <2>1. S \in SUBSET Nat
    BY DEF S
  <2>. QED BY <1>5, <1>6, <2>1, Induction
<1>8. IsLabel(elements, around, depth, Target(depth))
  BY <1>2, <1>7
<1>9. WasmSpecification!LabelExists(depth) <=> Target(depth) # 0
  BY <1>1, <1>8 DEF IsLabel, WasmSpecification!LabelExists
<1>10. Target(depth) # 0 => WasmSpecification!LabelTypes(depth) = TargetTypes(depth)
  BY <1>1, <1>8 DEF IsLabel, WasmSpecification!LabelTypes, TargetTypes, BranchTypes
<1>. QED BY <1>9, <1>10

LEMMA BranchAlwaysSpecified ==
  ASSUME ListGood(elements, current), NEW i \in Instruction, BranchAlways(i)
  PROVE  WasmSpecification!Branch(i) /\ (Saved(elements) => SavedKept)
<1>0. i.op = "br"
  BY DEF BranchAlways
<1>1. i.labels[1] \in Nat
  BY <1>0, LabelFacts
<1>2. PICK depth \in Nat : depth = i.labels[1]
  BY <1>1
<1>3. PICK valid \in BOOLEAN : valid = (Target(depth) # 0 /\ Holds(elements, TargetTypes(depth)))
  BY BooleanFacts
<1>4. i.op = "br" /\ Decide(valid, MarkedUnreachable, current, FrameUnreachable)
  BY <1>2, <1>3, Zenon DEF BranchAlways
<1>5. (WasmSpecification!LabelExists(depth) /\ WasmSpecification!Has(WasmSpecification!LabelTypes(depth))) <=> valid
  BY <1>3, LabelsAgree, HasFacts
<1>6. /\ WasmSpecification!Decide(
           WasmSpecification!LabelExists(depth) /\ WasmSpecification!Has(WasmSpecification!LabelTypes(depth)),
           WasmSpecification!Unreachable)
      /\ Saved(elements) => SavedKept
  BY <1>4, <1>5, LeftSpecified
<1>. QED BY <1>2, <1>4, <1>6, Zenon DEF WasmSpecification!Branch

\* Of the types and the condition above them the types stay.
LEMMA FrontKept ==
  ASSUME NEW types \in Seq(Number)
  PROVE  /\ Front(Kept(Append(types, "i32"))) = Values(types)
         /\ Append(types, "i32") \in Seq(Number) /\ Len(Append(types, "i32")) = Len(types) + 1 /\ Len(types) \in Nat
<1>1. "i32" \in Number
  BY KindFacts
<1>2. PICK n \in Nat : n = Len(types)
  BY SeqFacts
<1>3. PICK all : all = Append(types, "i32")
  OBVIOUS
<1>4. all \in Seq(Number) /\ Len(all) = n + 1 /\ \A k \in 1 .. n : all[k] = types[k]
  BY <1>1, <1>2, <1>3, AppendFacts
<1>5. all \in Seq(Number \union {"any"}) /\ types \in Seq(Number \union {"any"})
  BY <1>4, NumberTypes
<1>6. Values(all) \in Seq(ElementType) /\ Len(Values(all)) = n + 1
  BY <1>4, <1>5, ValuesFacts
<1>7. Values(types) \in Seq(ElementType) /\ Len(Values(types)) = n
  BY <1>2, <1>5, ValuesFacts
<1>8. \A k \in 1 .. n + 1 : Values(all)[k] = Element(all[k], NoType, 0)
  <2>1. DOMAIN all = 1 .. n + 1
    BY <1>4, SeqFacts
  <2>. QED BY <2>1, Zenon DEF Values
<1>9. \A k \in 1 .. n : Values(types)[k] = Element(types[k], NoType, 0)
  <2>1. DOMAIN types = 1 .. n
    BY <1>2, SeqFacts
  <2>. QED BY <2>1, Zenon DEF Values
<1>10. Values(all) # <<>>
  BY <1>6, SeqFacts
<1>11. PICK front : front = Front(Values(all))
  OBVIOUS
<1>12. front \in Seq(ElementType) /\ Len(front) = n /\ \A k \in 1 .. n : front[k] = Values(all)[k]
  <2>1. front \in Seq(ElementType) /\ Len(front) = (n + 1) - 1 /\ \A k \in 1 .. (n + 1) - 1 : front[k] = Values(all)[k]
    BY <1>6, <1>10, <1>11, FrontFacts
  <2>2. (n + 1) - 1 = n
    OBVIOUS
  <2>. QED BY <2>1, <2>2
<1>13. \A k \in 1 .. n : front[k] = Values(types)[k]
  <2>1. \A k \in 1 .. n : k \in 1 .. n + 1
    OBVIOUS
  <2>. QED BY <1>4, <1>8, <1>9, <1>12, <2>1
<1>14. front = Values(types)
  BY <1>7, <1>12, <1>13, SeqEqual
<1>. QED BY <1>2, <1>3, <1>4, <1>11, <1>14, Zenon DEF Kept

LEMMA BranchIfSpecified ==
  ASSUME ListGood(elements, current), NEW i \in Instruction, BranchIf(i)
  PROVE  WasmSpecification!Branch(i) /\ (Saved(elements) => SavedKept)
<1>0. i.op = "br_if"
  BY DEF BranchIf
<1>1. i.labels[1] \in Nat
  BY <1>0, LabelFacts
<1>2. PICK depth \in Nat : depth = i.labels[1]
  BY <1>1
<1>3. PICK types, needed : types = TargetTypes(depth) /\ needed = Append(types, "i32")
  OBVIOUS
<1>4. PICK valid \in BOOLEAN : valid = (Target(depth) # 0 /\ Holds(elements, needed))
  BY BooleanFacts
<1>5. PICK after, opened :
        /\ after = Below(needed) \o Front(Kept(needed))
        /\ opened = IF i.known = "true" /\ ~CurrentFrameIsUnreachable THEN FrameUnreachable ELSE Moved(1, 0)
  OBVIOUS
<1>6. Decide(valid, after, current, opened)
  BY <1>2, <1>3, <1>4, <1>5, Zenon DEF BranchIf
<1>7. PICK framesAfter : framesAfter = WasmSpecification!Now(WasmSpecification!Without(needed) \o types)
  OBVIOUS
<1>8. Target(depth) # 0 => ControlFrames(after, current) = framesAfter /\ (Saved(elements) => Saved(after))
  <2>. SUFFICES ASSUME Target(depth) # 0
                PROVE  ControlFrames(after, current) = framesAfter /\ (Saved(elements) => Saved(after))
    OBVIOUS
  <2>1. types \in Seq(Number)
    BY <1>3, TargetTypesFacts
  <2>2. Front(Kept(needed)) = Values(types) /\ Len(needed) \in Nat
    BY <1>3, <2>1, FrontKept
  <2>3. after = Below(needed) \o Values(types)
    BY <1>5, <2>2
  <2>. QED BY <1>7, <2>1, <2>2, <2>3, PoppedPushed
<1>9. valid => ControlFrames(after, current) = framesAfter /\ (Saved(elements) => Saved(after))
  BY <1>4, <1>8
<1>10. PICK asSpecified, specified :
         /\ asSpecified = (WasmSpecification!LabelExists(depth) /\ WasmSpecification!Has(Append(specified, "i32")))
         /\ specified = WasmSpecification!LabelTypes(depth)
  OBVIOUS
<1>11. asSpecified <=> valid
  BY <1>3, <1>4, <1>10, LabelsAgree, HasFacts
<1>12. WasmSpecification!Decide(asSpecified, framesAfter)
  BY <1>6, <1>9, <1>11, DecidedAsSpecified
<1>13. PICK framesSpecified :
         framesSpecified = WasmSpecification!Now(WasmSpecification!Without(Append(specified, "i32")) \o specified)
  OBVIOUS
<1>14. WasmSpecification!Decide(asSpecified, framesSpecified)
  <2>1. CASE valid
    <3>1. specified = types
      BY <1>3, <1>4, <1>10, <2>1, LabelsAgree
    <3>. QED BY <1>3, <1>7, <1>12, <1>13, <3>1
  <2>2. CASE ~valid
    BY <1>11, <1>12, <2>2 DEF WasmSpecification!Decide
  <2>. QED BY <2>1, <2>2
<1>15. WasmSpecification!Branch(i)
  BY <1>0, <1>2, <1>10, <1>13, <1>14, Zenon DEF WasmSpecification!Branch
<1>16. Saved(elements) => SavedKept
  BY <1>6, <1>9, DecidedSaved
<1>. QED BY <1>15, <1>16

(***************************************************************************)
(* The frontend finds a label's block on the compile-time stack.           *)
(***************************************************************************)
Outwards(v) == IF v = 0 THEN 0 ELSE BeyondIf(v - 1)

IsWalk(g, depth) ==
  g = [d \in 0 .. depth |-> IF d = 0 THEN BeyondIf(Len(blocks))
                            ELSE IF g[d - 1] = 0 THEN 0 ELSE BeyondIf(g[d - 1] - 1)]

\* The recursive function that walks outwards from block to block is well-defined.
LEMMA WalkExists ==
  ASSUME NEW depth \in Nat
  PROVE  \E g : IsWalk(g, depth)
<1>. DEFINE From(m, g) == g = [d \in 0 .. m |-> IF d = 0 THEN BeyondIf(Len(blocks)) ELSE Outwards(g[d - 1])]
            S == {m \in Nat : \E g : From(m, g)}
<1>. HIDE DEF Outwards
<1>1. 0 \in S
  <2>. DEFINE g == [d \in 0 .. 0 |-> BeyondIf(Len(blocks))]
  <2>1. \A d \in 0 .. 0 : d = 0
    OBVIOUS
  <2>2. g = [d \in 0 .. 0 |-> IF d = 0 THEN BeyondIf(Len(blocks)) ELSE Outwards(g[d - 1])]
    BY <2>1
  <2>. QED BY <2>2
<1>2. ASSUME NEW m \in S PROVE m + 1 \in S
  <2>1. PICK g : From(m, g)
    OBVIOUS
  <2>. DEFINE h == [d \in 0 .. m + 1 |-> IF d = m + 1 THEN Outwards(g[m]) ELSE g[d]]
  <2>2. \A d \in 0 .. m : g[d] = IF d = 0 THEN BeyondIf(Len(blocks)) ELSE Outwards(g[d - 1])
    BY <2>1, Zenon
  <2>3. \A d \in 0 .. m : h[d] = g[d]
    OBVIOUS
  <2>4. \A d \in 0 .. m + 1 : h[d] = IF d = 0 THEN BeyondIf(Len(blocks)) ELSE Outwards(h[d - 1])
    <3>. TAKE d \in 0 .. m + 1
    <3>1. CASE d = m + 1
      <4>1. d # 0 /\ d - 1 = m /\ m \in 0 .. m /\ h[d] = Outwards(g[m])
        BY <3>1
      <4>. QED BY <4>1, <2>3
    <3>2. CASE d # m + 1
      <4>1. d \in 0 .. m
        BY <3>2
      <4>2. PICK c : c = d - 1
        OBVIOUS
      <4>3. d # 0 => c \in 0 .. m
        BY <4>1, <4>2
      <4>4. h[d] = g[d] /\ (d # 0 => h[c] = g[c])
        BY <2>3, <4>1, <4>3
      <4>. QED BY <4>1, <4>2, <4>4, <2>2, Zenon
    <3>. QED BY <3>1, <3>2
  <2>5. h = [d \in 0 .. m + 1 |-> IF d = 0 THEN BeyondIf(Len(blocks)) ELSE Outwards(h[d - 1])]
    BY <2>4
  <2>. HIDE DEF h
  <2>6. \E x : From(m + 1, x)
    BY <2>5
  <2>. QED BY <2>6
<1>3. S = Nat
  <2>. HIDE DEF S
  <2>1. S \in SUBSET Nat
    BY DEF S
  <2>. QED BY <1>1, <1>2, <2>1, Induction
<1>4. PICK g : From(depth, g)
  BY <1>3
<1>. QED BY <1>4 DEF IsWalk, Outwards

LEMMA WalkUnfold ==
  ASSUME NEW depth \in Nat
  PROVE  \E h : IsWalk(h, depth) /\ BranchTarget(depth) = h[depth]
<1>. DEFINE Walks(x) == x = [d \in 0 .. depth |-> IF d = 0 THEN BeyondIf(Len(blocks))
                                ELSE IF x[d - 1] = 0 THEN 0 ELSE BeyondIf(x[d - 1] - 1)]
<1>1. \E g : Walks(g)
  BY WalkExists DEF IsWalk
<1>2. Walks(CHOOSE x : Walks(x))
  BY <1>1
<1>3. BranchTarget(depth) = (CHOOSE x : Walks(x))[depth]
  BY DEF BranchTarget
<1>. QED BY <1>2, <1>3 DEF IsWalk

\* The block found stands for the same element as the block it was found from.
LEMMA BeyondPlace ==
  ASSUME GoodState, NEW p, Placed(elements, current, blocks, p), NEW k \in 1 .. Len(blocks)
  PROVE  /\ BeyondIf(k) \in 1 .. Len(blocks) /\ p[BeyondIf(k)] = p[k] /\ blocks[BeyondIf(k)].kind # "IFBLOCK"
         /\ p[k] \in 1 .. Len(elements)
<1>1. PICK m \in Nat \ {0} : m = Len(blocks)
  BY StateFacts
<1>2. current \in 1 .. Len(elements) /\ Len(elements) \in Nat
  BY StateFacts
<1>3. /\ p[m] = current /\ p[1] = 1
      /\ \A l \in 1 .. m - 1 : p[l] = Around(elements, blocks, l, p[l + 1])
      /\ \A l \in 1 .. m : Agrees(elements, blocks, p, l)
  BY <1>1, Zenon DEF Placed
<1>4. \A l \in 1 .. m : p[l] \in 1 .. current
  <2>1. current \in Nat \ {0}
    BY <1>2
  <2>2. p[m] \in Nat \ {0} /\ Len(blocks) = m
    BY <1>1, <1>3, <2>1
  <2>3. \A l \in 1 .. m : p[l] \in 1 .. p[m]
    BY <1>3, <2>2, PlacesGrow
  <2>. QED BY <1>3, <2>3
<1>5. p[k] \in 1 .. Len(elements)
  BY <1>1, <1>2, <1>4
<1>6. CASE blocks[k].kind # "IFBLOCK"
  <2>1. BeyondIf(k) = k
    BY <1>6 DEF BeyondIf
  <2>. QED BY <1>5, <1>6, <2>1
<1>7. CASE blocks[k].kind = "IFBLOCK"
  <2>1. elements[1].kind = "FUNC"
    BY DEF GoodState, StateGood, ListGood
  <2>2. 1 \in 1 .. m
    BY <1>1
  <2>3. Agrees(elements, blocks, p, 1)
    BY <1>3, <2>2
  <2>4. blocks[1].kind = "FUNC"
    <3>1. blocks[1].kind = IF elements[p[1]].kind # "IF" THEN elements[p[1]].kind
                           ELSE IF blocks[1].kind = "IFBLOCK" THEN "IFBLOCK" ELSE "BLOCK"
      BY <2>3, Zenon DEF Agrees, Matches
    <3>. QED BY <1>3, <2>1, <3>1
  <2>5. k # 1
    BY <1>7, <2>4
  <2>6. PICK l \in 1 .. m - 1 : k = l + 1 /\ l = k - 1
    BY <1>1, <2>5
  <2>7. l \in 1 .. m /\ l < m /\ k # 0
    BY <2>6
  <2>8. BeyondIf(k) = l
    BY <1>7, <2>6, <2>7 DEF BeyondIf
  <2>9. p[l] = p[k]
    <3>1. p[l] = Around(elements, blocks, l, p[l + 1])
      BY <1>3
    <3>. QED BY <1>7, <2>6, <3>1, Zenon DEF Around
  <2>10. Agrees(elements, blocks, p, l)
    BY <1>3, <2>7
  <2>11. Waits(blocks, l)
    BY <1>1, <1>7, <2>6, <2>7 DEF Waits
  <2>12. blocks[l].kind = "BLOCK"
    BY <2>10, <2>11, Zenon DEF Agrees, Matches
  <2>. QED BY <1>1, <1>5, <2>7, <2>8, <2>9, <2>12
<1>. QED BY <1>6, <1>7

PlaceAt(p, b, j) ==
  /\ b = 0 <=> j = 0
  /\ b # 0 => b \in 1 .. Len(blocks) /\ p[b] = j /\ blocks[b].kind # "IFBLOCK"

LEMMA NextPlace ==
  ASSUME GoodState, NEW p, Placed(elements, current, blocks, p), NEW b, NEW j, PlaceAt(p, b, j)
  PROVE  PlaceAt(p, Outwards(b), Step(elements, j))
<1>1. CASE b = 0
  BY <1>1 DEF PlaceAt, Outwards, Step
<1>2. CASE b # 0
  <2>1. PICK m \in Nat \ {0} : m = Len(blocks)
    BY StateFacts
  <2>2. b \in 1 .. m /\ p[b] = j /\ blocks[b].kind # "IFBLOCK" /\ j # 0
    BY <1>2, <2>1, Zenon DEF PlaceAt
  <2>3. Outwards(b) = BeyondIf(b - 1) /\ Step(elements, j) = elements[j].prev
    BY <1>2, <2>2 DEF Outwards, Step
  <2>4. CASE b = 1
    <3>1. j = 1
      BY <2>2, <2>4 DEF Placed
    <3>2. elements[1].prev = 0
      BY DEF GoodState, StateGood, ListGood
    <3>3. BeyondIf(0) = 0
      BY DEF BeyondIf
    <3>. QED BY <2>3, <2>4, <3>1, <3>2, <3>3 DEF PlaceAt
  <2>5. CASE b # 1
    <3>1. PICK l \in 1 .. m - 1 : b = l + 1 /\ l = b - 1
      BY <2>1, <2>2, <2>5
    <3>2. p[l] = Around(elements, blocks, l, p[l + 1])
      BY <2>1, Zenon DEF Placed
    <3>3. p[l] = elements[j].prev
      BY <2>2, <3>1, <3>2, Zenon DEF Around
    <3>4. l \in 1 .. m
      BY <3>1
    <3>5. /\ BeyondIf(l) \in 1 .. m /\ p[BeyondIf(l)] = p[l] /\ blocks[BeyondIf(l)].kind # "IFBLOCK"
          /\ p[l] \in 1 .. Len(elements)
      BY <2>1, <3>4, BeyondPlace
    <3>6. BeyondIf(l) # 0 /\ p[l] # 0
      BY <3>5
    <3>. QED BY <2>1, <2>3, <3>1, <3>3, <3>5, <3>6, Zenon DEF PlaceAt
  <2>. QED BY <2>4, <2>5
<1>. QED BY <1>1, <1>2

\* Both walks lead to the same label.
LEMMA TargetsAgree ==
  ASSUME GoodState, NEW depth \in Nat
  PROVE  /\ BranchTarget(depth) = 0 <=> Target(depth) = 0
         /\ Target(depth) # 0 =>
              BranchTypes(blocks[BranchTarget(depth)].kind = "LOOP", blocks[BranchTarget(depth)].type)
                = TargetTypes(depth)
<1>1. PICK p : Placed(elements, current, blocks, p)
  BY DEF GoodState, StateGood, BlocksGood
<1>2. PICK m \in Nat \ {0} : m = Len(blocks)
  BY StateFacts
<1>3. PICK g : IsEnclosing(g, elements, current, depth) /\ Target(depth) = g[depth]
  BY EnclosingExists, TargetUnfold
<1>4. \A d \in 0 .. depth : g[d] = IF d = 0 THEN current ELSE Step(elements, g[d - 1])
  BY <1>3, Zenon DEF IsEnclosing, Step
<1>5. PICK h : IsWalk(h, depth) /\ BranchTarget(depth) = h[depth]
  BY WalkUnfold
<1>6. \A d \in 0 .. depth : h[d] = IF d = 0 THEN BeyondIf(Len(blocks)) ELSE Outwards(h[d - 1])
  BY <1>5, Zenon DEF IsWalk, Outwards
<1>. DEFINE S == {d \in Nat : d <= depth => PlaceAt(p, h[d], g[d])}
<1>7. 0 \in S
  <2>1. h[0] = BeyondIf(m) /\ g[0] = current /\ m \in 1 .. Len(blocks)
    BY <1>2, <1>4, <1>6
  <2>2. p[m] = current
    BY <1>1, <1>2 DEF Placed
  <2>3. /\ BeyondIf(m) \in 1 .. Len(blocks) /\ p[BeyondIf(m)] = current /\ blocks[BeyondIf(m)].kind # "IFBLOCK"
        /\ current \in 1 .. Len(elements)
    BY <1>1, <2>1, <2>2, BeyondPlace
  <2>4. BeyondIf(m) # 0 /\ current # 0
    BY <2>3
  <2>5. PlaceAt(p, h[0], g[0])
    BY <2>1, <2>3, <2>4, Zenon DEF PlaceAt
  <2>. QED BY <2>5
<1>8. ASSUME NEW d \in S PROVE d + 1 \in S
  <2>. SUFFICES ASSUME d + 1 <= depth PROVE PlaceAt(p, h[d + 1], g[d + 1])
    OBVIOUS
  <2>1. PICK k \in 1 .. depth : k = d + 1 /\ k - 1 = d
    OBVIOUS
  <2>2. g[k] = Step(elements, g[k - 1]) /\ h[k] = Outwards(h[k - 1])
    BY <1>4, <1>6
  <2>3. PlaceAt(p, h[d], g[d])
    OBVIOUS
  <2>4. PlaceAt(p, Outwards(h[d]), Step(elements, g[d]))
    BY <1>1, <2>3, NextPlace
  <2>. QED BY <2>1, <2>2, <2>4, Zenon
<1>9. S = Nat
  <2>. HIDE DEF S
  <2>1. S \in SUBSET Nat
    BY DEF S
  <2>. QED BY <1>7, <1>8, <2>1, Induction
<1>10. PICK b, j : b = BranchTarget(depth) /\ j = Target(depth)
  OBVIOUS
<1>11. PlaceAt(p, b, j)
  BY <1>3, <1>5, <1>9, <1>10
<1>12. ASSUME j # 0
       PROVE  BranchTypes(blocks[b].kind = "LOOP", blocks[b].type) = BranchTypes(elements[j].kind = "LOOP", elements[j].type)
  <2>1. b \in 1 .. m /\ p[b] = j /\ blocks[b].kind # "IFBLOCK"
    BY <1>2, <1>11, <1>12, Zenon DEF PlaceAt
  <2>2. Agrees(elements, blocks, p, b)
    BY <1>1, <1>2, <2>1 DEF Placed
  <2>3. /\ blocks[b].type = elements[j].type
        /\ blocks[b].kind = IF elements[j].kind # "IF" THEN elements[j].kind ELSE "BLOCK"
    BY <2>1, <2>2 DEF Agrees, Matches
  <2>. QED BY <2>3
<1>13. b = 0 <=> j = 0
  BY <1>11 DEF PlaceAt
<1>. QED BY <1>10, <1>12, <1>13 DEF TargetTypes

\* In a frame that the validation has not marked, the operands have their types.
LEMMA HeldTyped ==
  ASSUME ListGood(elements, current), ~FormallyUnreachable
  PROVE  /\ Held(elements) \in Seq(Kinds) /\ Len(Held(elements)) \in Nat
         /\ \A k \in 1 .. Len(Held(elements)) : Held(elements)[k] # "any"
<1>1. PICK f : f = Floor(elements)
  OBVIOUS
<1>2. /\ elements \in Seq(ElementType) /\ Len(elements) \in Nat \ {0} /\ current \in 1 .. Len(elements)
      /\ f \in current .. Len(elements)
  BY <1>1, ShapeFacts DEF ListGood
<1>3. f \in 1 .. Len(elements)
  BY <1>2
<1>4. /\ Held(elements) \in Seq(Kinds) /\ Len(Held(elements)) = Len(elements) - f
      /\ \A k \in 1 .. Len(elements) - f : Held(elements)[k] = elements[f + k].kind
  BY <1>1, <1>2, <1>3, HeldFacts
<1>5. ASSUME NEW k \in 1 .. Len(elements) - f PROVE elements[f + k].kind # "any"
  <2>1. PICK l \in 1 .. Len(elements) : l = f + k /\ l \in current + 1 .. Len(elements)
    BY <1>2
  <2>2. Encloses(elements, current, l)
    <3>1. Encloses(elements, current, Len(elements) + 1)
      BY DEF ListGood
    <3>. QED BY <1>2, <2>1, <3>1 DEF Encloses
  <2>3. elements[l].kind = "any" => elements[current].formallyUnreachable
    BY <1>2, <2>1, <2>2, Zenon DEF ListGood
  <2>. QED BY <2>1, <2>3 DEF FormallyUnreachable
<1>. QED BY <1>2, <1>4, <1>5

\* There, operands that fit both of two lists of as many types say that they are equal.
LEMMA FitsBoth ==
  ASSUME NEW h, Len(h) \in Nat, \A k \in 1 .. Len(h) : h[k] # "any",
         NEW s \in Seq(Number), NEW t \in Seq(Number), Len(s) = Len(t),
         FitsAtEnd(h, Append(s, "i32"), FALSE), FitsAtEnd(h, Append(t, "i32"), FALSE)
  PROVE  s = t
<1>1. PICK n \in Nat : n = Len(s)
  BY SeqFacts
<1>2. PICK l \in Nat : l = Len(h)
  OBVIOUS
<1>3. PICK a, b : a = Append(s, "i32") /\ b = Append(t, "i32")
  OBVIOUS
<1>4. "i32" \in Number
  BY KindFacts
<1>5. /\ Len(a) = n + 1 /\ Len(b) = n + 1
      /\ \A k \in 1 .. n : a[k] = s[k] /\ b[k] = t[k]
  BY <1>1, <1>3, <1>4, AppendFacts
<1>6. /\ n + 1 <= l
      /\ \A k \in 0 .. n : k < l => h[l - k] \in {a[(n + 1) - k], "any"} /\ h[l - k] \in {b[(n + 1) - k], "any"}
  <2>1. \A m \in Nat : (m + 1) - 1 = m
    OBVIOUS
  <2>. QED BY <1>1, <1>2, <1>3, <1>5, <2>1 DEF FitsAtEnd, Fits
<1>7. ASSUME NEW k \in 1 .. n PROVE s[k] = t[k]
  <2>1. PICK q \in 0 .. n : q = (n + 1) - k /\ (n + 1) - q = k
    OBVIOUS
  <2>2. q < l /\ l - q \in 1 .. l
    BY <1>6
  <2>3. h[l - q] \in {a[k], "any"} /\ h[l - q] \in {b[k], "any"} /\ h[l - q] # "any"
    BY <1>2, <1>6, <2>1, <2>2
  <2>. QED BY <1>5, <2>3
<1>8. \A k \in 1 .. Len(s) : s[k] = t[k]
  BY <1>1, <1>7
<1>. QED BY <1>8, SeqEqual

\* A label is compared with the first one as the specification compares it.
LEMMA LabelCompared ==
  ASSUME GoodState, NEW depth \in Nat, NEW types \in Seq(Number), Holds(elements, Append(types, "i32"))
  PROVE  SameTypes(depth, types) <=>
           /\ WasmSpecification!LabelExists(depth)
           /\ Len(WasmSpecification!LabelTypes(depth)) = Len(types)
           /\ \/ CurrentFrameIsUnreachable
              \/ WasmSpecification!Has(Append(WasmSpecification!LabelTypes(depth), "i32"))
<1>0. ListGood(elements, current)
  BY DEF GoodState, StateGood
<1>1. CASE Target(depth) = 0
  <2>1. ~WasmSpecification!LabelExists(depth)
    BY <1>0, <1>1, LabelsAgree
  <2>2. BranchTarget(depth) = 0
    BY <1>1, TargetsAgree
  <2>. QED BY <2>1, <2>2 DEF SameTypes
<1>2. CASE Target(depth) # 0
  <2>1. PICK own : own = TargetTypes(depth)
    OBVIOUS
  <2>2. own \in Seq(Number)
    BY <1>0, <1>2, <2>1, TargetTypesFacts
  <2>3. WasmSpecification!LabelExists(depth) /\ WasmSpecification!LabelTypes(depth) = own
    BY <1>0, <1>2, <2>1, LabelsAgree
  <2>4. SameTypes(depth, types) <=> Len(own) = Len(types) /\ (CurrentFrameIsUnreachable \/ own = types)
    <3>1. /\ BranchTarget(depth) # 0
          /\ BranchTypes(blocks[BranchTarget(depth)].kind = "LOOP", blocks[BranchTarget(depth)].type) = own
      BY <1>2, <2>1, TargetsAgree
    <3>. QED BY <3>1 DEF SameTypes
  <2>5. WasmSpecification!Has(Append(own, "i32")) <=> Holds(elements, Append(own, "i32"))
    BY <1>0, HasFacts
  <2>6. ASSUME ~CurrentFrameIsUnreachable, Len(own) = Len(types)
        PROVE  Holds(elements, Append(own, "i32")) <=> own = types
    <3>1. ~FormallyUnreachable
      BY <2>6, StateFacts
    <3>2. /\ Len(Held(elements)) \in Nat
          /\ \A k \in 1 .. Len(Held(elements)) : Held(elements)[k] # "any"
      BY <1>0, <3>1, HeldTyped
    <3>3. FormallyUnreachable = FALSE
      BY <1>0, <3>1, BooleanFacts
    <3>4. Holds(elements, Append(own, "i32")) => own = types
      <4>1. FitsAtEnd(Held(elements), Append(types, "i32"), FALSE)
        BY <3>3 DEF Holds
      <4>2. SUFFICES ASSUME FitsAtEnd(Held(elements), Append(own, "i32"), FALSE) PROVE own = types
        BY <3>3 DEF Holds
      <4>. QED BY <2>2, <2>6, <3>2, <4>1, <4>2, FitsBoth
    <3>. QED BY <3>4
  <2>. QED BY <2>3, <2>4, <2>5, <2>6
<1>. QED BY <1>1, <1>2

TableChecked(i, types) ==
  /\ Target(i.labels[1]) # 0
  /\ Holds(elements, Append(types, "i32"))
  /\ \A k \in DOMAIN i.labels : SameTypes(i.labels[k], types)

TableSpecified(i, first) ==
  /\ \A depth \in WasmSpecification!Labels(i) : WasmSpecification!LabelExists(depth)
  /\ WasmSpecification!Has(Append(first, "i32"))
  /\ \A depth \in WasmSpecification!Labels(i) :
       /\ Len(WasmSpecification!LabelTypes(depth)) = Len(first)
       /\ \/ CurrentFrameIsUnreachable
          \/ WasmSpecification!Has(Append(WasmSpecification!LabelTypes(depth), "i32"))

LEMMA TableAgrees ==
  ASSUME GoodState, NEW i \in Instruction, i.op = "br_table"
  PROVE  TableSpecified(i, WasmSpecification!LabelTypes(i.labels[1])) <=> TableChecked(i, TargetTypes(i.labels[1]))
<1>0. ListGood(elements, current)
  BY DEF GoodState, StateGood
<1>1. PICK n \in Nat \ {0} : DOMAIN i.labels = 1 .. n /\ \A k \in 1 .. n : i.labels[k] \in Nat
  <2>1. i.labels \in Seq(Nat) /\ i.labels # <<>>
    BY InstructionAssumption
  <2>2. Len(i.labels) \in Nat /\ Len(i.labels) # 0 /\ DOMAIN i.labels = 1 .. Len(i.labels)
    BY <2>1, SeqFacts
  <2>3. \A k \in 1 .. Len(i.labels) : i.labels[k] \in Nat
    BY <2>1, SeqFacts
  <2>. QED BY <2>2, <2>3
<1>2. 1 \in DOMAIN i.labels /\ i.labels[1] \in Nat
  BY <1>1
<1>3. PICK d \in Nat : d = i.labels[1]
  BY <1>2
<1>4. CASE Target(d) = 0
  <2>1. ~WasmSpecification!LabelExists(d)
    BY <1>0, <1>4, LabelsAgree
  <2>2. d \in WasmSpecification!Labels(i)
    BY <1>2, <1>3 DEF WasmSpecification!Labels
  <2>3. ~TableSpecified(i, WasmSpecification!LabelTypes(i.labels[1]))
    BY <2>1, <2>2, Zenon DEF TableSpecified
  <2>4. ~TableChecked(i, TargetTypes(i.labels[1]))
    BY <1>3, <1>4, Zenon DEF TableChecked
  <2>. QED BY <2>3, <2>4
<1>5. CASE Target(d) # 0
  <2>1. PICK types : types = TargetTypes(d)
    OBVIOUS
  <2>2. types \in Seq(Number)
    BY <1>0, <1>5, <2>1, TargetTypesFacts
  <2>3. WasmSpecification!LabelTypes(d) = types
    BY <1>0, <1>5, <2>1, LabelsAgree
  <2>4. WasmSpecification!Has(Append(types, "i32")) <=> Holds(elements, Append(types, "i32"))
    BY <1>0, HasFacts
  <2>5. CASE ~Holds(elements, Append(types, "i32"))
    BY <1>3, <2>1, <2>3, <2>4, <2>5, Zenon DEF TableSpecified, TableChecked
  <2>6. CASE Holds(elements, Append(types, "i32"))
    <3>1. ASSUME NEW depth \in Nat
          PROVE  SameTypes(depth, types) <=>
                   /\ WasmSpecification!LabelExists(depth)
                   /\ Len(WasmSpecification!LabelTypes(depth)) = Len(types)
                   /\ \/ CurrentFrameIsUnreachable
                      \/ WasmSpecification!Has(Append(WasmSpecification!LabelTypes(depth), "i32"))
      BY <2>2, <2>6, LabelCompared, Zenon
    <3>2. TableSpecified(i, types) <=>
            \A depth \in WasmSpecification!Labels(i) :
              /\ WasmSpecification!LabelExists(depth)
              /\ Len(WasmSpecification!LabelTypes(depth)) = Len(types)
              /\ \/ CurrentFrameIsUnreachable
                 \/ WasmSpecification!Has(Append(WasmSpecification!LabelTypes(depth), "i32"))
      BY <2>4, <2>6, Zenon DEF TableSpecified
    <3>3. \A depth \in WasmSpecification!Labels(i) : depth \in Nat
      BY <1>1 DEF WasmSpecification!Labels
    <3>4. TableSpecified(i, types) <=> \A depth \in WasmSpecification!Labels(i) : SameTypes(depth, types)
      BY <3>1, <3>2, <3>3, Zenon
    <3>5. TableSpecified(i, types) <=> \A k \in DOMAIN i.labels : SameTypes(i.labels[k], types)
      BY <3>4, Zenon DEF WasmSpecification!Labels
    <3>6. TableChecked(i, types) <=> \A k \in DOMAIN i.labels : SameTypes(i.labels[k], types)
      BY <1>3, <1>5, <2>6, Zenon DEF TableChecked
    <3>. QED BY <1>3, <2>1, <2>3, <3>5, <3>6, Zenon
  <2>. QED BY <2>5, <2>6
<1>. QED BY <1>4, <1>5

LEMMA BranchTableSpecified ==
  ASSUME GoodState, NEW i \in Instruction, BranchTable(i)
  PROVE  WasmSpecification!BranchTable(i) /\ (Saved(elements) => SavedKept)
<1>0. ListGood(elements, current)
  BY DEF GoodState, StateGood
<1>1. i.op = "br_table"
  BY DEF BranchTable
<1>2. PICK valid \in BOOLEAN : valid <=> TableChecked(i, TargetTypes(i.labels[1]))
  OBVIOUS
<1>3. Decide(valid, MarkedUnreachable, current, FrameUnreachable)
  <2>1. Decide(TableChecked(i, TargetTypes(i.labels[1])), MarkedUnreachable, current, FrameUnreachable)
    BY DEF BranchTable, TableChecked
  <2>. QED BY <1>2, <2>1 DEF Decide
<1>4. PICK asSpecified : asSpecified = TableSpecified(i, WasmSpecification!LabelTypes(i.labels[1]))
  OBVIOUS
<1>5. asSpecified <=> valid
  BY <1>1, <1>2, <1>4, TableAgrees
<1>6. WasmSpecification!Decide(asSpecified, WasmSpecification!Unreachable) /\ (Saved(elements) => SavedKept)
  BY <1>0, <1>3, <1>5, LeftSpecified
<1>7. WasmSpecification!BranchTable(i)
  <2>1. WasmSpecification!Decide(TableSpecified(i, WasmSpecification!LabelTypes(i.labels[1])), WasmSpecification!Unreachable)
    BY <1>4, <1>6
  <2>. QED BY <1>1, <2>1 DEF WasmSpecification!BranchTable, TableSpecified
<1>. QED BY <1>6, <1>7

(***************************************************************************)
(* A block is opened: a frame more, with its parameters.                   *)
(***************************************************************************)
LEMMA OpenedAround ==
  ASSUME ListGood(elements, current), NEW types, Len(types) \in Nat, NEW low, low = Below(types),
         NEW after, Opens(elements, current, low, after), NEW c, c = Len(low) + 1
  PROVE  /\ ControlFrames(after, c) =
              Append(WasmSpecification!Now(WasmSpecification!Without(types)), ControlFrame(after, c))
         /\ ListGood(after, c) /\ after \in Seq(ElementType) /\ c \in 1 .. Len(after) /\ Len(after) \in Nat
<1>1. PICK f : f = Floor(elements)
  OBVIOUS
<1>2. Held(low) = WasmSpecification!Without(types) /\ LowPart(elements, f, low)
  BY <1>1, BelowHeld
<1>3. ListGood(after, c) /\ current \in 1 .. Len(low)
  BY <1>1, <1>2, OpenList
<1>4. /\ low \in Seq(ElementType) /\ Len(low) \in Nat \ {0} /\ \A k \in 1 .. Len(low) : low[k] = elements[k]
  <2>1. f \in current .. Len(low) /\ current \in 1 .. Len(low) /\ Len(low) \in Nat
    BY <1>1, <1>2, LowOperands
  <2>. QED BY <1>2, <2>1 DEF LowPart
<1>5. /\ after \in Seq(ElementType) /\ after # <<>> /\ c \in 1 .. Len(after) /\ Len(after) \in Nat
  BY <1>3, PrevFacts
<1>6. after[c].prev = current /\ \A k \in 1 .. Len(low) : after[k] = elements[k]
  BY DEF Opens
<1>7. c # 1 /\ c - 1 = Len(low) /\ c - 1 \in 0 .. Len(after)
  BY <1>4, <1>5
<1>8. PICK below : below = Keep(after, c - 1)
  OBVIOUS
<1>9. below \in Seq(ElementType) /\ Len(below) = c - 1 /\ \A k \in 1 .. c - 1 : below[k] = after[k]
  BY <1>5, <1>7, <1>8, KeepFacts
<1>10. below = low
  <2>1. Len(below) = Len(low) /\ \A k \in 1 .. Len(below) : below[k] = low[k]
    BY <1>4, <1>6, <1>7, <1>9
  <2>. QED BY <1>4, <1>9, <2>1, SeqEqual
<1>11. FramesAround(after, c) = ControlFrames(below, after[c].prev)
  BY <1>3, <1>7, <1>8, AroundCut
<1>12. ControlFrames(low, current) = WasmSpecification!Now(Held(low))
  BY <1>1, <1>2, LowFrames
<1>13. FramesAround(after, c) = WasmSpecification!Now(WasmSpecification!Without(types))
  BY <1>2, <1>6, <1>10, <1>11, <1>12
<1>14. ControlFrames(after, c) = Append(FramesAround(after, c), ControlFrame(after, c))
  BY <1>5, Zenon DEF ControlFrames
<1>. QED BY <1>3, <1>5, <1>13, <1>14

\* The frame whose operands are just the values of types.
HoldsJust(list, f, types) ==
  /\ list \in Seq(ElementType) /\ types \in Seq(Number)
  /\ f \in 1 .. Len(list) /\ ~IsNumber(list[f]) /\ Len(list) = f + Len(types)
  /\ \A k \in 1 .. Len(types) : list[f + k].kind = types[k]

LEMMA JustHeld ==
  ASSUME NEW list, NEW f, NEW types, HoldsJust(list, f, types)
  PROVE  Floor(list) = f /\ Held(list) = types
<1>1. PICK n \in Nat : n = Len(types)
  BY SeqFacts DEF HoldsJust
<1>2. PICK l \in Nat : l = Len(list)
  BY SeqFacts DEF HoldsJust
<1>3. /\ list \in Seq(ElementType) /\ types \in Seq(Number)
      /\ f \in 1 .. l /\ ~IsNumber(list[f]) /\ l = f + n
      /\ \A k \in 1 .. n : list[f + k].kind = types[k]
  BY <1>1, <1>2 DEF HoldsJust
<1>4. \A k \in 1 .. n : types[k] \in Number
  BY <1>1, <1>3, SeqFacts
<1>5. ASSUME NEW k \in f + 1 .. l PROVE IsNumber(list[k])
  <2>1. PICK q \in 1 .. n : k = f + q
    <3>1. k - f \in 1 .. n /\ k = f + (k - f)
      BY <1>3
    <3>. QED BY <3>1
  <2>. QED BY <1>3, <1>4, <2>1 DEF IsNumber
<1>6. Floor(list) = f
  BY <1>2, <1>3, <1>5, FloorIs
<1>7. f \in 1 .. Len(list) /\ f = Floor(list)
  BY <1>2, <1>3, <1>6
<1>8. /\ Held(list) \in Seq(Kinds) /\ Len(Held(list)) = Len(list) - f
      /\ \A k \in 1 .. Len(list) - f : Held(list)[k] = list[f + k].kind
  BY <1>3, <1>7, HeldFacts
<1>9. Len(list) - f = n
  BY <1>2, <1>3
<1>10. types \in Seq(Kinds)
  <2>1. \A k \in 1 .. n : types[k] \in Kinds
    BY <1>4, KindFacts
  <2>2. DOMAIN types = 1 .. n
    BY <1>1, <1>3, SeqFacts
  <2>. QED BY <1>1, <1>3, <2>1, <2>2
<1>11. Held(list) = types
  <2>1. Len(Held(list)) = Len(types) /\ \A k \in 1 .. Len(Held(list)) : Held(list)[k] = types[k]
    BY <1>1, <1>3, <1>8, <1>9
  <2>. QED BY <1>8, <1>10, <2>1, SeqEqual
<1>. QED BY <1>6, <1>11

\* The frame of a new element.
OpOf(kind) == CASE kind = "BLOCK" -> "block" [] kind = "LOOP" -> "loop" [] kind = "IF" -> "if"

IsNew(list, c, f) ==
  /\ list[c].kind \in {"BLOCK", "LOOP", "IF"} /\ list[c].formallyUnreachable = FALSE
  /\ HoldsJust(list, f, list[c].type.params)
  /\ IF list[c].kind = "IF" THEN f # c ELSE f = c

LEMMA NewFrame ==
  ASSUME NEW list, NEW c, NEW f, IsNew(list, c, f)
  PROVE  ControlFrame(list, c) = WasmSpecification!Opened(OpOf(list[c].kind), list[c].type)
<1>1. /\ list[c].kind \in {"BLOCK", "LOOP", "IF"} /\ list[c].formallyUnreachable = FALSE
      /\ HoldsJust(list, f, list[c].type.params)
      /\ list[c].kind = "IF" => f # c
  BY DEF IsNew
<1>2. Floor(list) = f /\ Held(list) = list[c].type.params
  BY <1>1, JustHeld
<1>. QED BY <1>1, <1>2 DEF ControlFrame, OpOf, WasmSpecification!Opened, WasmSpecification!Frame

\* The values made of types, one after the other.
LEMMA TypesMade ==
  ASSUME NEW types \in Seq(Number), NEW n, n = Len(types), NEW new, new = Values(types)
  PROVE  Numbers(new, n) /\ n \in Nat /\ new \in Seq(ElementType) /\ Len(new) = n /\ \A k \in 1 .. n : new[k].kind = types[k]
<1>1. types \in Seq(Number \union {"any"}) /\ Len(types) \in Nat
  BY NumberTypes
<1>2. new \in Seq(ElementType) /\ Len(new) = n /\ \A k \in 1 .. n : new[k].kind = types[k]
  BY <1>1, ValuesFacts
<1>3. Numbers(new, n)
  BY MadeNumbers
<1>. QED BY <1>1, <1>2, <1>3

\* What is pushed for a block is where it is expected, whatever its element is.
LEMMA HoldsInserted ==
  ASSUME NEW low \in Seq(ElementType), NEW a, a = Len(low), NEW e, NEW new \in Seq(ElementType), NEW n, n = Len(new),
         NEW after
  PROVE  /\ a \in Nat /\ n \in Nat
         /\ IsInserted(low, e, new, after) => Holding(low, a, e, new, n, after)
         /\ IsIfInserted(low, e, new, after) => HoldingIf(low, a, e, new, n, after)
<1>1. PICK S : S = ElementType \union {e}
  OBVIOUS
<1>2. low \in Seq(S) /\ new \in Seq(S) /\ e \in S /\ ElseFence \in S
  BY <1>1, FenceElement
<1>3. a \in Nat /\ n \in Nat
  BY SeqFacts
<1>4. Holding(low, a, e, new, n, Append(low, e) \o new)
  BY <1>2, <1>3, InsertedParts
<1>5. HoldingIf(low, a, e, new, n, Append(low, e) \o new \o <<ElseFence>> \o new)
  BY <1>2, <1>3, InsertedIfParts, Zenon
<1>. QED BY <1>3, <1>4, <1>5, Zenon DEF IsInserted, IsIfInserted

LEMMA BelowFacts ==
  ASSUME ListGood(elements, current), NEW types, Len(types) \in Nat
  PROVE  /\ Below(types) \in Seq(ElementType) /\ Len(Below(types)) = Base(elements, types)
         /\ Base(elements, types) \in Nat /\ Base(elements, types) \in Floor(elements) .. Len(elements)
<1>1. PICK f : f = Floor(elements)
  OBVIOUS
<1>2. elements \in Seq(ElementType) /\ Len(elements) \in Nat /\ current \in 1 .. Len(elements) /\ f \in current .. Len(elements)
  BY <1>1, ShapeFacts DEF ListGood
<1>3. f \in 1 .. Len(elements)
  BY <1>2
<1>4. Base(elements, types) \in f .. Len(elements)
  BY <1>1, <1>2, <1>3, BaseFacts
<1>5. Base(elements, types) \in 0 .. Len(elements) /\ Base(elements, types) \in Nat
  BY <1>3, <1>4
<1>6. Below(types) \in Seq(ElementType) /\ Len(Below(types)) = Base(elements, types)
  BY <1>2, <1>5, KeepFacts DEF Below
<1>. QED BY <1>1, <1>4, <1>5, <1>6

BlockEntry(kind, type, after, c) ==
  /\ kind \in {"BLOCK", "LOOP"} /\ type \in Type
  /\ after = BlockInserted(kind, type) /\ Len(after) <= MaxElements
  /\ c = Base(elements, type.params) + 1

LEMMA BlockEntered ==
  ASSUME ListGood(elements, current), NEW kind, NEW type, NEW after, NEW c, BlockEntry(kind, type, after, c)
  PROVE  /\ ControlFrames(after, c) =
              Append(WasmSpecification!Now(WasmSpecification!Without(type.params)),
                     WasmSpecification!Opened(OpOf(kind), type))
         /\ Saved(elements) => Saved(after)
<1>0. /\ kind \in {"BLOCK", "LOOP"} /\ type \in Type
      /\ after = BlockInserted(kind, type) /\ Len(after) <= MaxElements
      /\ c = Base(elements, type.params) + 1
  BY DEF BlockEntry
<1>1. PICK types : types = type.params
  OBVIOUS
<1>2. types \in Seq(Number) /\ Len(types) \in Nat
  BY <1>0, <1>1, TypeFacts, SignatureFacts
<1>3. PICK f, low, new, n, e : /\ f = Floor(elements) /\ low = Below(types) /\ new = Values(types) /\ n = Len(types)
                               /\ e = Element(kind, type, current)
  OBVIOUS
<1>4. LowPart(elements, f, low) /\ low \in Seq(ElementType) /\ Len(low) + 1 = c /\ Len(low) \in Nat
  BY <1>0, <1>1, <1>2, <1>3, BelowHeld, BelowFacts
<1>5. Numbers(new, n) /\ n \in Nat /\ new \in Seq(ElementType) /\ Len(new) = n /\ \A k \in 1 .. n : new[k].kind = types[k]
  BY <1>2, <1>3, TypesMade
<1>6. IsInserted(low, e, new, after)
  BY <1>0, <1>1, <1>3, Zenon DEF IsInserted, BlockInserted, Kept
<1>7. Opens(elements, current, low, after)
  <2>1. IsInserted(low, Element(kind, type, current), new, after)
    BY <1>3, <1>6, Zenon
  <2>. QED BY <1>0, <1>3, <1>4, <1>5, <2>1, Inserted, SMTT(60)
<1>8. /\ Len(after) = c + n /\ after[c] = e /\ \A k \in 1 .. n : after[c + k] = new[k]
  <2>1. PICK a : a = Len(low) /\ a + 1 = c
    BY <1>4
  <2>2. Holding(low, a, e, new, n, after)
    BY <1>4, <1>5, <1>6, <2>1, HoldsInserted
  <2>. QED BY <2>1, <2>2, Zenon DEF Holding
<1>9. e.kind = kind /\ e.type = type /\ e.formallyUnreachable = FALSE
  BY <1>3 DEF Element
<1>10. /\ ControlFrames(after, c) =
            Append(WasmSpecification!Now(WasmSpecification!Without(types)), ControlFrame(after, c))
       /\ ListGood(after, c) /\ after \in Seq(ElementType) /\ c \in 1 .. Len(after) /\ Len(after) \in Nat
  <2>1. low = Below(types) /\ c = Len(low) + 1 /\ Len(types) \in Nat
    BY <1>2, <1>3, <1>4
  <2>. QED BY <1>7, <2>1, OpenedAround
<1>11. HoldsJust(after, c, types)
  <2>1. ~IsNumber(after[c])
    <3>1. after[c].kind = kind /\ kind \in Structural
      BY <1>0, <1>8, <1>9 DEF Structural
    <3>2. kind \notin Number \union {"any"}
      BY <3>1, KindFacts
    <3>. QED BY <3>1, <3>2 DEF IsNumber
  <2>2. \A k \in 1 .. n : after[c + k].kind = types[k]
    BY <1>5, <1>8
  <2>. QED BY <1>2, <1>3, <1>8, <1>10, <2>1, <2>2, Zenon DEF HoldsJust
<1>12. ControlFrame(after, c) = WasmSpecification!Opened(OpOf(kind), type)
  <2>1. after[c].kind = kind /\ after[c].type = type /\ after[c].formallyUnreachable = FALSE
    BY <1>8, <1>9
  <2>2. HoldsJust(after, c, after[c].type.params)
    BY <1>1, <1>11, <2>1
  <2>3. after[c].kind # "IF" /\ after[c].kind \in {"BLOCK", "LOOP", "IF"}
    BY <1>0, <2>1
  <2>4. IsNew(after, c, c)
    BY <2>1, <2>2, <2>3 DEF IsNew
  <2>5. ControlFrame(after, c) = WasmSpecification!Opened(OpOf(after[c].kind), after[c].type)
    BY <2>4, NewFrame
  <2>. QED BY <2>1, <2>5
<1>13. Saved(elements) => Saved(after)
  <2>. SUFFICES ASSUME Saved(elements) PROVE Saved(after)
    OBVIOUS
  <2>1. after[c].kind # "IF"
    BY <1>0, <1>8, <1>9
  <2>2. IfTypes(after, c)
    BY <2>1 DEF IfTypes
  <2>3. \A q \in c + 1 .. c + Len(after[c].type.params) : after[c].kind = "IF" => after[q].kind = after[c].type.params[q - c]
    BY <2>1
  <2>4. c = Len(low) + 1
    BY <1>4
  <2>. QED BY <1>3, <1>4, <1>7, <2>2, <2>3, <2>4, SavedOpens
<1>. QED BY <1>1, <1>10, <1>12, <1>13

IfEntry(i, after, c) ==
  /\ i \in Instruction /\ i.op = "if"
  /\ after = IfInserted(i.type) /\ Len(after) <= MaxElements
  /\ c = Base(elements, Condition(i.type)) + 1

LEMMA IfEntered ==
  ASSUME ListGood(elements, current), NEW i, NEW after, NEW c, IfEntry(i, after, c)
  PROVE  /\ ControlFrames(after, c) =
              Append(WasmSpecification!Now(WasmSpecification!Without(Condition(i.type))),
                     WasmSpecification!Opened("if", i.type))
         /\ Saved(elements) => Saved(after)
<1>0. /\ i \in Instruction /\ i.op = "if"
      /\ after = IfInserted(i.type) /\ Len(after) <= MaxElements
      /\ c = Base(elements, Condition(i.type)) + 1
  BY DEF IfEntry
<1>1. PICK type, needed, types : type = i.type /\ needed = Condition(i.type) /\ types = type.params
  OBVIOUS
<1>2. type \in Type /\ types \in Seq(Number) /\ Len(types) \in Nat
  BY <1>0, <1>1, TypeFacts, SignatureFacts
<1>3. PICK f, low, new, n, e : /\ f = Floor(elements) /\ low = Below(needed) /\ new = Values(types) /\ n = Len(types)
                               /\ e = Element("IF", type, current)
  OBVIOUS
<1>4. Len(needed) \in Nat /\ Front(Kept(needed)) = new
  <2>1. needed = Append(types, "i32")
    BY <1>1 DEF Condition
  <2>2. Front(Kept(Append(types, "i32"))) = Values(types) /\ Append(types, "i32") \in Seq(Number)
    BY <1>2, FrontKept
  <2>. QED BY <1>3, <2>1, <2>2, SeqFacts
<1>5. LowPart(elements, f, low) /\ low \in Seq(ElementType) /\ Len(low) + 1 = c /\ Len(low) \in Nat
  BY <1>0, <1>1, <1>3, <1>4, BelowHeld, BelowFacts
<1>6. Numbers(new, n) /\ n \in Nat /\ new \in Seq(ElementType) /\ Len(new) = n /\ \A k \in 1 .. n : new[k].kind = types[k]
  BY <1>2, <1>3, TypesMade
<1>7. IsIfInserted(low, e, new, after)
  BY <1>0, <1>1, <1>3, <1>4, Zenon DEF IsIfInserted, IfInserted
<1>8. Opens(elements, current, low, after)
  <2>1. IsIfInserted(low, Element("IF", type, current), new, after) /\ n = Len(type.params)
    BY <1>1, <1>3, <1>7, Zenon
  <2>. QED BY <1>0, <1>2, <1>3, <1>5, <1>6, <2>1, InsertedIf, SMTT(60)
<1>9. PICK d : d = c + n + 1
  OBVIOUS
<1>10. /\ Len(after) = d + n /\ after[c] = e /\ after[d] = ElseFence
       /\ \A k \in 1 .. n : after[c + k] = new[k] /\ after[d + k] = new[k]
  <2>1. PICK a : a = Len(low) /\ a + 1 = c
    BY <1>5
  <2>2. HoldingIf(low, a, e, new, n, after)
    BY <1>5, <1>6, <1>7, <2>1, HoldsInserted
  <2>. QED BY <1>9, <2>1, <2>2, Zenon DEF HoldingIf
<1>11. e.kind = "IF" /\ e.type = type /\ e.formallyUnreachable = FALSE
  BY <1>3 DEF Element
<1>12. /\ ControlFrames(after, c) =
            Append(WasmSpecification!Now(WasmSpecification!Without(needed)), ControlFrame(after, c))
       /\ ListGood(after, c) /\ after \in Seq(ElementType) /\ c \in 1 .. Len(after) /\ Len(after) \in Nat
  <2>1. low = Below(needed) /\ c = Len(low) + 1 /\ Len(needed) \in Nat
    BY <1>3, <1>4, <1>5
  <2>. QED BY <1>8, <2>1, OpenedAround
<1>13. HoldsJust(after, d, types)
  <2>1. ~IsNumber(after[d])
    <3>1. after[d].kind = "ELSE_FENCE"
      BY <1>10, FenceElement
    <3>2. "ELSE_FENCE" \notin Number \union {"any"}
      BY KindFacts
    <3>. QED BY <3>1, <3>2 DEF IsNumber
  <2>2. \A k \in 1 .. n : after[d + k].kind = types[k]
    BY <1>6, <1>10
  <2>3. d \in 1 .. Len(after)
    BY <1>6, <1>9, <1>10, <1>12
  <2>. QED BY <1>2, <1>3, <1>10, <1>12, <2>1, <2>2, <2>3, Zenon DEF HoldsJust
<1>14. ControlFrame(after, c) = WasmSpecification!Opened("if", type)
  <2>1. after[c].kind = "IF" /\ after[c].type = type /\ after[c].formallyUnreachable = FALSE
    BY <1>10, <1>11
  <2>2. HoldsJust(after, d, after[c].type.params)
    BY <1>1, <1>13, <2>1
  <2>3. d # c
    BY <1>6, <1>9, <1>12
  <2>4. IsNew(after, c, d)
    BY <2>1, <2>2, <2>3 DEF IsNew
  <2>5. ControlFrame(after, c) = WasmSpecification!Opened(OpOf(after[c].kind), after[c].type)
    BY <2>4, NewFrame
  <2>6. OpOf("IF") = "if"
    BY DEF OpOf
  <2>. QED BY <2>1, <2>5, <2>6
<1>15. Saved(elements) => Saved(after)
  <2>. SUFFICES ASSUME Saved(elements) PROVE Saved(after)
    OBVIOUS
  <2>1. after[c].type = type /\ after[c].type.params = types
    BY <1>1, <1>10, <1>11
  <2>2. IfTypes(after, c)
    BY <1>0, <1>1, <2>1 DEF IfTypes
  <2>3. \A q \in c + 1 .. c + Len(after[c].type.params) : after[c].kind = "IF" => after[q].kind = after[c].type.params[q - c]
    <3>1. ASSUME NEW q \in c + 1 .. c + n PROVE after[q].kind = types[q - c]
      <4>1. PICK k \in 1 .. n : q - c = k /\ q = c + k
        <5>1. q - c \in 1 .. n /\ q = c + (q - c)
          BY <1>6, <1>12
        <5>. QED BY <5>1
      <4>. QED BY <1>6, <1>10, <4>1
    <3>. QED BY <1>3, <2>1, <3>1
  <2>4. c = Len(low) + 1
    BY <1>5
  <2>. QED BY <1>3, <1>5, <1>8, <2>2, <2>3, <2>4, SavedOpens
<1>. QED BY <1>1, <1>12, <1>14, <1>15

LEMMA EnterBlockSpecified ==
  ASSUME ListGood(elements, current), Len(elements') <= MaxElements, NEW i \in Instruction, EnterBlock(i)
  PROVE  WasmSpecification!Enter(i) /\ (Saved(elements) => SavedKept)
<1>1. i.op \in {"block", "loop"}
  BY DEF EnterBlock
<1>2. PICK kind : kind = IF i.op = "loop" THEN "LOOP" ELSE "BLOCK"
  OBVIOUS
<1>3. kind \in {"BLOCK", "LOOP"} /\ OpOf(kind) = i.op
  BY <1>1, <1>2 DEF OpOf
<1>4. PICK after, last, opened :
        /\ after = BlockInserted(kind, i.type) /\ last = Base(elements, i.type.params) + 1
        /\ opened = Append(Moved(Len(i.type.params), 0),
                           Block(kind, i.type, CurrentFrameIsUnreachable, Len(i.type.params)))
  OBVIOUS
<1>5. PICK valid \in BOOLEAN : valid = Holds(elements, i.type.params)
  BY BooleanFacts
<1>6. Decide(valid, after, last, opened)
  BY <1>2, <1>4, <1>5, Zenon DEF EnterBlock
<1>7. PICK framesAfter :
        framesAfter = Append(WasmSpecification!Now(WasmSpecification!Without(i.type.params)),
                             WasmSpecification!Opened(i.op, i.type))
  OBVIOUS
<1>8. valid => ControlFrames(after, last) = framesAfter /\ (Saved(elements) => Saved(after))
  <2>. SUFFICES ASSUME valid PROVE ControlFrames(after, last) = framesAfter /\ (Saved(elements) => Saved(after))
    OBVIOUS
  <2>1. Len(after) <= MaxElements
    BY <1>6 DEF Decide, Accept
  <2>2. BlockEntry(kind, i.type, after, last)
    <3>1. i.type \in Type
      BY TypeFacts
    <3>. QED BY <1>3, <1>4, <2>1, <3>1, Zenon DEF BlockEntry
  <2>. QED BY <1>3, <1>7, <2>2, BlockEntered
<1>9. PICK asSpecified : asSpecified = WasmSpecification!Has(i.type.params)
  OBVIOUS
<1>10. asSpecified <=> valid
  BY <1>5, <1>9, HasFacts
<1>11. WasmSpecification!Decide(asSpecified, framesAfter)
  BY <1>6, <1>8, <1>10, DecidedAsSpecified
<1>12. WasmSpecification!Enter(i)
  <2>1. i.op \in {"block", "loop", "if"} /\ i.op # "if"
    BY <1>1
  <2>. QED BY <1>7, <1>9, <1>11, <2>1, Zenon DEF WasmSpecification!Enter
<1>13. Saved(elements) => SavedKept
  BY <1>6, <1>8, DecidedSaved
<1>. QED BY <1>12, <1>13

LEMMA EnterIfSpecified ==
  ASSUME ListGood(elements, current), Len(elements') <= MaxElements, NEW i \in Instruction, EnterIf(i)
  PROVE  WasmSpecification!Enter(i) /\ (Saved(elements) => SavedKept)
<1>1. i.op = "if"
  BY DEF EnterIf
<1>2. PICK needed : needed = Condition(i.type)
  OBVIOUS
<1>3. PICK n, dead : n = Len(i.type.params) /\ dead = CurrentFrameIsUnreachable
  OBVIOUS
<1>4. PICK after, last, opened :
        /\ after = IfInserted(i.type) /\ last = Base(elements, Condition(i.type)) + 1
        /\ opened = Moved(n + 1, 0)
                      \o <<Block("BLOCK", i.type, dead \/ i.known = "true", n),
                           Block("IFBLOCK", i.type, dead \/ i.known = "false", n)>>
  OBVIOUS
<1>5. PICK valid \in BOOLEAN : valid = Holds(elements, needed)
  BY BooleanFacts
<1>6. Decide(valid, after, last, opened)
  BY <1>2, <1>3, <1>4, <1>5, Zenon DEF EnterIf
<1>7. PICK framesAfter :
        framesAfter = Append(WasmSpecification!Now(WasmSpecification!Without(needed)),
                             WasmSpecification!Opened(i.op, i.type))
  OBVIOUS
<1>8. valid => ControlFrames(after, last) = framesAfter /\ (Saved(elements) => Saved(after))
  <2>. SUFFICES ASSUME valid PROVE ControlFrames(after, last) = framesAfter /\ (Saved(elements) => Saved(after))
    OBVIOUS
  <2>1. Len(after) <= MaxElements
    BY <1>6 DEF Decide, Accept
  <2>2. IfEntry(i, after, last)
    BY <1>1, <1>4, <2>1, Zenon DEF IfEntry
  <2>. QED BY <1>1, <1>2, <1>7, <2>2, IfEntered
<1>9. PICK asSpecified : asSpecified = WasmSpecification!Has(needed)
  OBVIOUS
<1>10. asSpecified <=> valid
  BY <1>5, <1>9, HasFacts
<1>11. WasmSpecification!Decide(asSpecified, framesAfter)
  BY <1>6, <1>8, <1>10, DecidedAsSpecified
<1>12. WasmSpecification!Enter(i)
  <2>1. i.op \in {"block", "loop", "if"} /\ needed = Append(i.type.params, "i32")
    BY <1>1, <1>2 DEF Condition
  <2>. QED BY <1>1, <1>7, <1>9, <1>11, <2>1, Zenon DEF WasmSpecification!Enter
<1>13. Saved(elements) => SavedKept
  BY <1>6, <1>8, DecidedSaved
<1>. QED BY <1>12, <1>13

(***************************************************************************)
(* The second branch of an if.                                             *)
(***************************************************************************)
\* Popping the results of the current block ends at its floor: at its element, or at
\* the fence of an if.
LEMMA ResultsBase ==
  ASSUME ListGood(elements, current), NEW results, results = elements[current].type.results,
         NEW b, b = Base(elements, results), NEW f, f = Floor(elements)
  PROVE  /\ results \in Seq(Number) /\ Len(results) \in Nat
         /\ WasmSpecification!Innermost.type = elements[current].type
         /\ WasmSpecification!Innermost.op = "if" <=> f # current
         /\ WasmSpecification!HasExactly(results) <=> Holds(elements, results) /\ b = f
         /\ b = current <=> b = f /\ f = current
         /\ elements[current].kind = "IF" /\ elements[b] = ElseFence <=> b = f /\ f # current
         /\ Last(Below(results)) = elements[b]
<1>1. PICK low : low = Below(results)
  OBVIOUS
<1>2. /\ elements \in Seq(ElementType) /\ Len(elements) \in Nat /\ current \in 1 .. Len(elements)
      /\ f \in current .. Len(elements) /\ elements[current].kind \in Structural
      /\ f # current => elements[f] = ElseFence /\ elements[current].kind = "IF"
      /\ \A k \in f + 1 .. Len(elements) : IsNumber(elements[k])
  BY ShapeFacts DEF ListGood
<1>3. results \in Seq(Number) /\ Len(results) \in Nat
  <2>1. elements[current] \in ElementType
    BY <1>2, SeqFacts
  <2>. QED BY <2>1, ElementFacts, TypeFacts, SignatureFacts
<1>4. /\ WasmSpecification!Innermost.type = elements[current].type /\ WasmSpecification!Operands = Held(elements)
      /\ WasmSpecification!Innermost.op = "if" <=> f # current
  <2>1. ControlFrame(elements, current).type = elements[current].type
    BY FrameFields
  <2>2. ControlFrame(elements, current).op = "if" <=> f # current
    BY <1>2, OpFacts
  <2>. QED BY <2>1, <2>2, InnermostFacts
<1>5. WasmSpecification!HasExactly(results) <=> Holds(elements, results) /\ b = f
  <2>1. WasmSpecification!Has(results) <=> Holds(elements, results)
    BY HasFacts
  <2>2. Base(elements, results) = Floor(elements) <=> Len(Held(elements)) <= Len(results)
    BY <1>3, BelowHeld
  <2>. QED BY <1>4, <2>1, <2>2 DEF WasmSpecification!HasExactly
<1>6. /\ low \in Seq(ElementType) /\ Len(low) = b /\ b \in f .. Len(elements)
  BY <1>1, <1>3, BelowFacts
<1>7. \A k \in 1 .. b : low[k] = elements[k]
  <2>1. b \in 0 .. Len(elements)
    BY <1>2, <1>6
  <2>2. low = Keep(elements, b)
    BY <1>1 DEF Below
  <2>. QED BY <1>2, <2>1, <2>2, KeepFacts
<1>8. Last(low) = elements[b]
  <2>1. Last(low) = low[b]
    BY <1>6 DEF Last
  <2>2. b \in 1 .. b
    BY <1>2, <1>6
  <2>. QED BY <1>7, <2>1, <2>2
<1>9. elements[current].kind = "IF" /\ elements[b] = ElseFence <=> b = f /\ f # current
  <2>1. CASE b = f
    <3>1. CASE f = current
      <4>1. elements[b] # ElseFence
        BY <1>2, <2>1, <3>1, FenceElement, KindFacts
      <4>. QED BY <3>1, <4>1
    <3>2. CASE f # current
      BY <1>2, <2>1, <3>2
    <3>. QED BY <3>1, <3>2
  <2>2. CASE b # f
    <3>1. b \in f + 1 .. Len(elements)
      BY <1>2, <1>6, <2>2
    <3>2. IsNumber(elements[b])
      BY <1>2, <3>1
    <3>3. elements[b] # ElseFence
      <4>1. "ELSE_FENCE" \notin Number \union {"any"}
        BY KindFacts
      <4>. QED BY <3>2, <4>1, FenceElement DEF IsNumber
    <3>. QED BY <2>2, <3>3
  <2>. QED BY <2>1, <2>2
<1>10. b = current <=> b = f /\ f = current
  BY <1>2, <1>6
<1>. QED BY <1>1, <1>3, <1>4, <1>5, <1>8, <1>9, <1>10

LEMMA ElseAllowed ==
  ASSUME ListGood(elements, current)
  PROVE  ElseExpected <=>
           /\ WasmSpecification!Innermost.op = "if"
           /\ WasmSpecification!HasExactly(WasmSpecification!Innermost.type.results)
<1>1. PICK results, b, f : results = elements[current].type.results /\ b = Base(elements, results) /\ f = Floor(elements)
  OBVIOUS
<1>2. /\ WasmSpecification!Innermost.type.results = results
      /\ WasmSpecification!Innermost.op = "if" <=> f # current
      /\ WasmSpecification!HasExactly(results) <=> Holds(elements, results) /\ b = f
      /\ elements[current].kind = "IF" /\ elements[b] = ElseFence <=> b = f /\ f # current
      /\ Last(Below(results)) = elements[b]
  BY <1>1, ResultsBase
<1>3. ElseExpected <=> elements[current].kind = "IF" /\ Holds(elements, results) /\ elements[b] = ElseFence
  BY <1>1, <1>2, Zenon DEF ElseExpected
<1>. QED BY <1>2, <1>3

\* An end is where the specification allows it, but for the type of an if without
\* else.
LEMMA EndAllowed ==
  ASSUME ListGood(elements, current)
  PROVE  EndExpected <=> WasmSpecification!HasExactly(WasmSpecification!Innermost.type.results)
<1>1. PICK results, b, f : results = elements[current].type.results /\ b = Base(elements, results) /\ f = Floor(elements)
  OBVIOUS
<1>2. /\ WasmSpecification!Innermost.type.results = results
      /\ WasmSpecification!HasExactly(results) <=> Holds(elements, results) /\ b = f
      /\ b = current <=> b = f /\ f = current
      /\ elements[current].kind = "IF" /\ elements[b] = ElseFence <=> b = f /\ f # current
  BY <1>1, ResultsBase
<1>3. EndExpected <=>
        Holds(elements, results) /\ (b = current \/ (elements[current].kind = "IF" /\ elements[b] = ElseFence))
  BY <1>1, Zenon DEF EndExpected
<1>. QED BY <1>2, <1>3

\* What is left at an else is the list up to the fence, its block being reachable.
Resumed(list, last, f, after) ==
  /\ ListGood(list, last) /\ f = Floor(list) /\ f # last /\ Saved(list)
  /\ after \in Seq(ElementType) /\ Len(after) = f - 1
  /\ \A k \in 1 .. f - 1 : k # last => after[k] = list[k]
  /\ after[last].kind = list[last].kind /\ after[last].type = list[last].type /\ after[last].prev = list[last].prev
  /\ after[last].formallyUnreachable = FALSE

LEMMA ResumedFacts ==
  ASSUME NEW list, NEW last, NEW f, NEW after, Resumed(list, last, f, after)
  PROVE  /\ ControlFrames(after, last) =
              Append(FramesAround(list, last), WasmSpecification!Opened("else", list[last].type))
         /\ Saved(after)
<1>1. /\ ListGood(list, last) /\ f # last /\ Saved(list)
      /\ after \in Seq(ElementType) /\ Len(after) = f - 1
      /\ \A k \in 1 .. f - 1 : k # last => after[k] = list[k]
      /\ after[last].kind = list[last].kind /\ after[last].type = list[last].type /\ after[last].prev = list[last].prev
      /\ after[last].formallyUnreachable = FALSE
  BY Zenon DEF Resumed
<1>2. /\ list \in Seq(ElementType) /\ Len(list) \in Nat /\ last \in 1 .. Len(list) /\ f \in last .. Len(list)
      /\ list[last].kind = "IF" /\ list[f].kind = "ELSE_FENCE" /\ f = last + Len(list[last].type.params) + 1
      /\ list[1].kind = "FUNC"
  <2>1. f = Floor(list)
    BY DEF Resumed
  <2>. QED BY <1>1, <2>1, ShapeFacts DEF ListGood
<1>3. PICK type, types : type = list[last].type /\ types = type.params
  OBVIOUS
<1>4. types \in Seq(Number) /\ Len(types) \in Nat
  <2>1. list[last] \in ElementType
    BY <1>2, SeqFacts
  <2>. QED BY <1>3, <2>1, ElementFacts, TypeFacts, SignatureFacts
<1>5. PICK n \in Nat : n = Len(types)
  BY <1>4
<1>6. f = last + n + 1 /\ Len(after) = last + n /\ last \in Nat \ {0} /\ f \in Nat
  <2>1. f = last + n + 1 /\ last \in Nat \ {0}
    BY <1>2, <1>3, <1>5
  <2>. QED BY <1>1, <2>1
<1>7. Encloses(list, last, f)
  <2>1. Encloses(list, last, Len(list) + 1)
    BY <1>1 DEF ListGood
  <2>2. last \in 1 .. f - 1 /\ \A l \in last + 1 .. f - 1 : l \in last + 1 .. (Len(list) + 1) - 1
    BY <1>2, <1>6
  <2>. QED BY <2>1, <2>2 DEF Encloses
<1>8. \A q \in last + 1 .. f - 1 : list[q].kind = types[q - last]
  <2>1. ParamsSaved(list, f)
    BY <1>1, <1>2, <1>6 DEF Saved
  <2>2. last \in 1 .. f - 1
    BY <1>6
  <2>. QED BY <1>2, <1>3, <1>7, <2>1, <2>2 DEF ParamsSaved
<1>9. HoldsJust(after, last, types)
  <2>1. last \in 1 .. Len(after)
    BY <1>6
  <2>2. ~IsNumber(after[last])
    <3>1. "IF" \notin Number \union {"any"}
      BY KindFacts DEF Structural
    <3>. QED BY <1>1, <1>2, <3>1 DEF IsNumber
  <2>3. ASSUME NEW k \in 1 .. n PROVE after[last + k].kind = types[k]
    <3>1. PICK q \in last + 1 .. f - 1 : q = last + k /\ q - last = k
      <4>1. last + k \in last + 1 .. f - 1 /\ (last + k) - last = k
        BY <1>6
      <4>. QED BY <4>1
    <3>2. q \in 1 .. f - 1 /\ q # last
      BY <1>6
    <3>. QED BY <1>1, <1>8, <3>1, <3>2
  <2>. QED BY <1>1, <1>4, <1>5, <1>6, <2>1, <2>2, <2>3, Zenon DEF HoldsJust
<1>10. Floor(after) = last /\ Held(after) = types
  BY <1>9, JustHeld
<1>11. ControlFrame(after, last) = WasmSpecification!Opened("else", type)
  BY <1>1, <1>2, <1>3, <1>10 DEF ControlFrame, WasmSpecification!Opened, WasmSpecification!Frame
<1>12. FramesAround(after, last) = FramesAround(list, last)
  <2>1. SameUpTo(list, after, last)
    <3>1. last <= Len(list) /\ last <= Len(after)
      BY <1>2, <1>6
    <3>2. \A k \in 1 .. last : k \in 1 .. f - 1
      BY <1>6
    <3>3. \A k \in 1 .. last : after[k].kind = list[k].kind /\ after[k].type = list[k].type /\ after[k].prev = list[k].prev
      BY <1>1, <3>2
    <3>4. \A k \in 1 .. last - 1 : k \in 1 .. f - 1 /\ k # last
      BY <1>6
    <3>5. \A k \in 1 .. last - 1 : after[k].formallyUnreachable = list[k].formallyUnreachable
      BY <1>1, <3>4
    <3>. QED BY <3>1, <3>3, <3>5, Zenon DEF SameUpTo
  <2>. QED BY <1>1, <1>2, <1>6, <2>1, AroundSame
<1>13. ControlFrames(after, last) = Append(FramesAround(after, last), ControlFrame(after, last))
  <2>1. after # <<>>
    BY <1>1, <1>6, SeqFacts
  <2>. QED BY <2>1, Zenon DEF ControlFrames
<1>14. Saved(after)
  <2>1. PICK m \in Nat \ {0} : m = f - 1
    BY <1>6
  <2>2. Alike(list, after, m)
    <3>1. \A k \in 1 .. m : /\ after[k].kind = list[k].kind /\ after[k].type = list[k].type /\ after[k].prev = list[k].prev
                            /\ list[k].kind = "ELSE_FENCE" => after[k] = list[k]
      BY <1>1, <1>2, <2>1
    <3>. QED BY <3>1, Zenon DEF Alike
  <2>3. m <= Len(list)
    BY <1>2, <2>1
  <2>4. after[1].type = FunctionType /\ \A k \in 1 .. m : IfTypes(after, k) /\ ParamsSaved(after, k)
    BY <1>1, <1>2, <2>2, <2>3, SavedAlike
  <2>. QED BY <1>1, <2>1, <2>4 DEF Saved
<1>. QED BY <1>3, <1>11, <1>12, <1>13, <1>14

LEMMA ElseTakenFrames ==
  ASSUME ListGood(elements, current), Saved(elements), ElseExpected,
         NEW after, after = Flagged(BelowFence, current, FALSE)
  PROVE  /\ ControlFrames(after, current) =
              Append(WasmSpecification!Outer, WasmSpecification!Opened("else", elements[current].type))
         /\ Saved(after)
<1>1. PICK f, results, low, low2 : /\ f = Floor(elements) /\ results = elements[current].type.results
                                   /\ low = Below(results) /\ low2 = Front(low)
  OBVIOUS
<1>2. elements \in Seq(ElementType) /\ Len(elements) \in Nat /\ current \in 1 .. Len(elements) /\ f \in current .. Len(elements)
  BY <1>1, ShapeFacts DEF ListGood
<1>3. results \in Seq(Number) /\ Len(results) \in Nat
  <2>1. elements[current] \in ElementType
    BY <1>2, SeqFacts
  <2>. QED BY <1>1, <2>1, ElementFacts, TypeFacts, SignatureFacts
<1>4. Base(elements, results) = f /\ f # current
  <2>1. /\ WasmSpecification!Innermost.op = "if"
        /\ WasmSpecification!HasExactly(WasmSpecification!Innermost.type.results)
    BY ElseAllowed
  <2>2. WasmSpecification!Innermost.type.results = results
    BY <1>1, InnermostFacts, FrameFields
  <2>3. Len(Held(elements)) <= Len(results)
    BY <2>1, <2>2, InnermostFacts DEF WasmSpecification!HasExactly
  <2>4. Base(elements, results) = f
    BY <1>1, <1>3, <2>3, BelowHeld
  <2>5. f # current
    <3>1. elements[current].kind \in Structural
      BY ShapeFacts
    <3>2. ControlFrame(elements, current).op = "if"
      BY <2>1, InnermostFacts
    <3>. QED BY <1>1, <3>1, <3>2, OpFacts
  <2>. QED BY <2>4, <2>5
<1>5. low \in Seq(ElementType) /\ Len(low) = f /\ \A k \in 1 .. f : low[k] = elements[k]
  <2>1. low = Keep(elements, f)
    BY <1>1, <1>4 DEF Below
  <2>2. f \in 0 .. Len(elements)
    BY <1>2
  <2>. QED BY <1>2, <2>1, <2>2, KeepFacts
<1>6. low2 \in Seq(ElementType) /\ Len(low2) = f - 1 /\ \A k \in 1 .. f - 1 : low2[k] = elements[k]
  <2>1. low # <<>>
    BY <1>2, <1>5, SeqFacts
  <2>2. /\ low2 \in Seq(ElementType) /\ Len(low2) = Len(low) - 1
        /\ \A k \in 1 .. Len(low) - 1 : low2[k] = low[k]
    BY <1>1, <1>5, <2>1, FrontFacts
  <2>3. \A k \in 1 .. f - 1 : k \in 1 .. f
    BY <1>2
  <2>. QED BY <1>5, <2>2, <2>3
<1>7. current \in 1 .. Len(low2)
  BY <1>2, <1>4, <1>6
<1>8. after = Flagged(low2, current, FALSE)
  BY <1>1, Zenon DEF BelowFence
<1>9. /\ after \in Seq(ElementType) /\ Len(after) = f - 1
      /\ \A k \in 1 .. f - 1 : k # current => after[k] = low2[k]
      /\ after[current].kind = low2[current].kind /\ after[current].type = low2[current].type
      /\ after[current].prev = low2[current].prev /\ after[current].formallyUnreachable = FALSE
  <2>1. FALSE \in BOOLEAN
    OBVIOUS
  <2>2. /\ Flagged(low2, current, FALSE) \in Seq(ElementType) /\ Len(Flagged(low2, current, FALSE)) = Len(low2)
        /\ \A k \in 1 .. Len(low2) : k # current => Flagged(low2, current, FALSE)[k] = low2[k]
        /\ Flagged(low2, current, FALSE)[current].kind = low2[current].kind
        /\ Flagged(low2, current, FALSE)[current].type = low2[current].type
        /\ Flagged(low2, current, FALSE)[current].prev = low2[current].prev
        /\ Flagged(low2, current, FALSE)[current].formallyUnreachable = FALSE
    BY <1>6, <1>7, <2>1, FlaggedFacts
  <2>. QED BY <1>6, <1>8, <2>2, Zenon
<1>10. low2[current] = elements[current]
  BY <1>6, <1>7
<1>11. Resumed(elements, current, f, after)
  BY <1>1, <1>4, <1>6, <1>9, <1>10, Zenon DEF Resumed
<1>12. WasmSpecification!Outer = FramesAround(elements, current)
  BY InnermostFacts
<1>. QED BY <1>11, <1>12, ResumedFacts

LEMMA ElseSpecified ==
  ASSUME ListGood(elements, current), Saved(elements), NEW i \in Instruction, Else(i)
  PROVE  WasmSpecification!Else(i) /\ SavedKept
<1>1. i.op = "else"
  BY DEF Else
<1>2. PICK after, opened : after = Flagged(BelowFence, current, FALSE) /\ opened = Front(blocks)
  OBVIOUS
<1>3. PICK valid \in BOOLEAN : valid <=> ElseExpected
  OBVIOUS
<1>4. Decide(valid, after, current, opened)
  <2>1. Decide(ElseExpected, Flagged(BelowFence, current, FALSE), current, Front(blocks))
    BY Zenon DEF Else, Flagged
  <2>. QED BY <1>2, <1>3, <2>1 DEF Decide
<1>5. PICK framesAfter, type :
        /\ framesAfter = Append(WasmSpecification!Outer, WasmSpecification!Opened("else", type))
        /\ type = WasmSpecification!Innermost.type
  OBVIOUS
<1>6. type = elements[current].type
  BY <1>5, InnermostFacts, FrameFields
<1>7. valid => ControlFrames(after, current) = framesAfter /\ Saved(after)
  BY <1>2, <1>3, <1>5, <1>6, ElseTakenFrames
<1>8. PICK asSpecified :
        asSpecified = (/\ WasmSpecification!Innermost.op = "if"
                       /\ WasmSpecification!HasExactly(type.results))
  OBVIOUS
<1>9. asSpecified <=> valid
  BY <1>3, <1>5, <1>8, ElseAllowed
<1>10. WasmSpecification!Decide(asSpecified, framesAfter)
  BY <1>4, <1>7, <1>9, DecidedAsSpecified
<1>11. WasmSpecification!Else(i)
  BY <1>1, <1>5, <1>8, <1>10, Zenon DEF WasmSpecification!Else
<1>12. SavedKept
  BY <1>4, <1>7, DecidedSaved
<1>. QED BY <1>11, <1>12

(***************************************************************************)
(* The end of a block: its results go to the frame around it.              *)
(***************************************************************************)
LEMMA HoldingFacts ==
  ASSUME NEW list, NEW last, ListGood(list, last), NEW operands
  PROVE  /\ WasmSpecification!Holding(ControlFrames(list, last), operands) =
              Append(FramesAround(list, last),
                     [op |-> ControlFrame(list, last).op, type |-> list[last].type,
                      operands |-> operands, unreachable |-> list[last].formallyUnreachable])
         /\ WasmSpecification!Last(ControlFrames(list, last)).operands = Held(list)
<1>1. list # <<>> /\ last \in Nat \ {0}
  BY PrevFacts
<1>2. Appended(FramesAround(list, last), ControlFrame(list, last), ControlFrames(list, last))
  BY <1>1, FrameParts
<1>3. Last(ControlFrames(list, last)) = ControlFrame(list, last)
      /\ Front(ControlFrames(list, last)) = FramesAround(list, last)
  BY <1>2 DEF Appended
<1>4. /\ ControlFrame(list, last).type = list[last].type
      /\ ControlFrame(list, last).unreachable = list[last].formallyUnreachable
      /\ ControlFrame(list, last).operands = Held(list)
  BY FrameFields
<1>. QED BY <1>3, <1>4 DEF WasmSpecification!Holding, WasmSpecification!Frame,
                           WasmSpecification!Front, WasmSpecification!Last, Front, Last

LEMMA PushedOn ==
  ASSUME NEW list, NEW last, ListGood(list, last), NEW types \in Seq(Number), NEW after, Pushed(list, types, after)
  PROVE  /\ ControlFrames(after, last) = WasmSpecification!Holding(ControlFrames(list, last), Held(list) \o types)
         /\ Saved(list) => Saved(after)
<1>1. PICK f, new : f = Floor(list) /\ new = Values(types)
  OBVIOUS
<1>2. /\ list \in Seq(ElementType) /\ Len(list) \in Nat /\ f \in last .. Len(list)
  BY <1>1, ShapeFacts DEF ListGood
<1>3. LowPart(list, f, list)
  <2>1. Len(list) \in f .. Len(list)
    BY <1>2
  <2>. QED BY <1>2, <2>1 DEF LowPart
<1>4. Operands(new, list[last])
  BY <1>1, MadeOperands
<1>5. after = list \o new
  BY <1>1 DEF Pushed
<1>6. Stacked(list, last, f, list, new, after)
  BY <1>1, <1>3, <1>4, <1>5, NewOperands
<1>7. Replaces(list, last, f, after) /\ after[last] = list[last]
  BY <1>6 DEF Stacked
<1>8. Floor(after) = f
  BY <1>1, <1>7, SameBlockList
<1>9. Held(after) = Held(list) \o types
  <2>1. KindsOf(new, types)
    BY <1>1, NumberTypes, ValuesOf
  <2>2. OnTop(list, last, f, list, new, types, after)
    BY <1>1, <1>3, <1>5, <1>8, <2>1, Zenon DEF OnTop
  <2>. QED BY <2>2, StackedHeld
<1>10. ControlFrames(after, last) =
           Append(FramesAround(list, last),
                  [op |-> ControlFrame(list, last).op, type |-> list[last].type,
                   operands |-> Held(after), unreachable |-> after[last].formallyUnreachable])
  BY <1>1, <1>7, ChangedFrames
<1>11. WasmSpecification!Holding(ControlFrames(list, last), Held(list) \o types) =
              Append(FramesAround(list, last),
                     [op |-> ControlFrame(list, last).op, type |-> list[last].type,
                      operands |-> Held(list) \o types, unreachable |-> list[last].formallyUnreachable])
  BY HoldingFacts
<1>12. Saved(list) => Saved(after)
  BY <1>1, <1>7, SavedReplaces
<1>. QED BY <1>7, <1>9, <1>10, <1>11, <1>12

\* The list below a block that is closed.
LEMMA CutBack ==
  ASSUME ListGood(elements, current), current # 1, NEW low, low = Keep(elements, current - 1)
  PROVE  /\ ListGood(low, elements[current].prev)
         /\ WasmSpecification!Outer = ControlFrames(low, elements[current].prev)
         /\ Saved(elements) => Saved(low)
<1>1. /\ elements \in Seq(ElementType) /\ Len(elements) \in Nat \ {0} /\ current \in 1 .. Len(elements)
      /\ elements[current].prev \in 1 .. current - 1 /\ Encloses(elements, elements[current].prev, current)
  BY PrevFacts
<1>2. PICK n \in Nat \ {0} : n = current - 1 /\ current = n + 1 /\ n <= Len(elements) /\ n \in 0 .. Len(elements)
  BY <1>1
<1>3. PICK prev : prev = elements[current].prev
  OBVIOUS
<1>4. low \in Seq(ElementType) /\ Len(low) = n /\ \A k \in 1 .. n : low[k] = elements[k]
  <2>1. low = Keep(elements, n)
    BY <1>2
  <2>2. /\ Keep(elements, n) \in Seq(ElementType) /\ Len(Keep(elements, n)) = n
        /\ \A k \in 1 .. n : Keep(elements, n)[k] = elements[k]
    BY <1>1, <1>2, KeepFacts
  <2>. QED BY <2>1, <2>2, Zenon
<1>5. Alike(elements, low, n)
  BY <1>4, Zenon DEF Alike
<1>6. Cut(elements, current, n, low)
  BY <1>2, <1>4, <1>5, Zenon DEF Cut
<1>7. NoAny(elements, current, n)
  <2>. SUFFICES ASSUME NEW k \in 1 .. n, Encloses(elements, current, k) PROVE FALSE
    BY Zenon DEF NoAny
  <2>1. current \in 1 .. k - 1
    BY Zenon DEF Encloses
  <2>. QED BY <1>2, <2>1
<1>8. prev \in 1 .. n /\ Encloses(elements, prev, n + 1)
  BY <1>1, <1>2, <1>3
<1>9. ListGood(low, prev)
  BY <1>6, <1>7, <1>8, CutList
<1>10. WasmSpecification!Outer = ControlFrames(low, prev)
  <2>1. FramesAround(elements, current) = ControlFrames(low, elements[current].prev)
    BY AroundCut
  <2>. QED BY <1>3, <2>1, InnermostFacts
<1>11. Saved(elements) => Saved(low)
  <2>. SUFFICES ASSUME Saved(elements) PROVE Saved(low)
    OBVIOUS
  <2>1. low[1].type = FunctionType /\ \A k \in 1 .. n : IfTypes(low, k) /\ ParamsSaved(low, k)
    BY <1>1, <1>2, <1>5, SavedAlike
  <2>. QED BY <1>4, <2>1 DEF Saved
<1>. QED BY <1>3, <1>9, <1>10, <1>11

\* The results are on top of the list below it.
LEMMA EndedFrames ==
  ASSUME ListGood(elements, current), current # 1, NEW results \in Seq(Number),
         NEW after, after = Keep(elements, current - 1) \o Kept(results)
  PROVE  /\ ControlFrames(after, elements[current].prev) =
              WasmSpecification!Holding(WasmSpecification!Outer,
                                        WasmSpecification!Last(WasmSpecification!Outer).operands \o results)
         /\ Saved(elements) => Saved(after)
<1>1. PICK low, prev : low = Keep(elements, current - 1) /\ prev = elements[current].prev
  OBVIOUS
<1>2. ListGood(low, prev) /\ WasmSpecification!Outer = ControlFrames(low, prev) /\ (Saved(elements) => Saved(low))
  BY <1>1, CutBack
<1>3. Pushed(low, results, after)
  BY <1>1, Zenon DEF Pushed, Kept
<1>4. /\ ControlFrames(after, prev) = WasmSpecification!Holding(ControlFrames(low, prev), Held(low) \o results)
      /\ Saved(low) => Saved(after)
  BY <1>2, <1>3, PushedOn
<1>5. WasmSpecification!Last(ControlFrames(low, prev)).operands = Held(low)
  BY <1>2, HoldingFacts
<1>. QED BY <1>1, <1>2, <1>4, <1>5, Zenon

(***************************************************************************)
(* The documented exception: the code compares the number of parameters    *)
(* and results of an if without else, the specification their types.       *)
(***************************************************************************)
SameIfTypes ==
  \A i \in Instruction :
    i.op = "if" /\ Len(i.type.params) = Len(i.type.results) => i.type.params = i.type.results

EndChecked(n) == EndExpected /\ (Last(blocks).kind = "IFBLOCK" => Len(elements[current].type.params) = n)

EndSpecified(f) ==
  /\ WasmSpecification!HasExactly(f.type.results)
  /\ f.op = "if" => f.type.params = f.type.results

LEMMA EndAgrees ==
  ASSUME GoodState, Saved(elements), SameIfTypes
  PROVE  EndSpecified(WasmSpecification!Innermost) <=> EndChecked(Len(elements[current].type.results))
<1>1. PICK type, f : type = elements[current].type /\ f = Floor(elements)
  OBVIOUS
<1>2. ListGood(elements, current)
  BY DEF GoodState, StateGood
<1>3. /\ WasmSpecification!Innermost.type = type /\ (WasmSpecification!Innermost.op = "if" <=> f # current)
  BY <1>1, <1>2, ResultsBase
<1>4. EndExpected <=> WasmSpecification!HasExactly(type.results)
  BY <1>2, <1>3, EndAllowed
<1>5. Last(blocks).kind = "IFBLOCK" <=> f # current
  <2>1. PICK m : m = Len(blocks)
    OBVIOUS
  <2>2. blocks[m].kind = "IFBLOCK" <=> f # current
    BY <1>1, <2>1, StateFacts
  <2>. QED BY <2>1, <2>2 DEF Last
<1>6. f # current => (Len(type.params) = Len(type.results) <=> type.params = type.results)
  <2>. SUFFICES ASSUME f # current PROVE Len(type.params) = Len(type.results) <=> type.params = type.results
    OBVIOUS
  <2>1. elements[current].kind = "IF" /\ current \in 1 .. Len(elements)
    BY <1>1, <1>2, ShapeFacts
  <2>2. IfTypes(elements, current)
    BY <2>1 DEF Saved
  <2>3. PICK i \in Instruction : i.op = "if" /\ i.type = type
    BY <1>1, <2>1, <2>2 DEF IfTypes
  <2>. QED BY <2>3 DEF SameIfTypes
<1>. QED BY <1>1, <1>3, <1>4, <1>5, <1>6 DEF EndSpecified, EndChecked

LEMMA FunctionFirst ==
  ASSUME ListGood(elements, current)
  PROVE  /\ elements[current].kind = "FUNC" <=> current = 1
         /\ WasmSpecification!Outer = <<>> <=> current = 1
  BY PrevFacts, AroundFirst, InnermostFacts

LEMMA EndBlockSpecified ==
  ASSUME GoodState, Saved(elements), NEW i \in Instruction, EndBlock(i)
  PROVE  (SameIfTypes => WasmSpecification!End(i)) /\ SavedKept
<1>0. ListGood(elements, current)
  BY DEF GoodState, StateGood
<1>1. i.op = "end" /\ elements[current].kind # "FUNC"
  BY DEF EndBlock
<1>2. PICK type, results, n : type = elements[current].type /\ results = type.results /\ n = Len(results)
  OBVIOUS
<1>3. results \in Seq(Number) /\ Len(results) \in Nat /\ WasmSpecification!Innermost.type = type
  BY <1>0, <1>2, ResultsBase
<1>4. PICK after, last, opened :
        /\ after = Keep(elements, current - 1) \o Kept(results) /\ last = elements[current].prev
        /\ opened = IF Last(blocks).kind = "IFBLOCK" THEN Closed(Closed(blocks, n, 0), n, n) ELSE Closed(blocks, n, n)
  OBVIOUS
<1>5. PICK valid \in BOOLEAN : valid <=> EndChecked(n)
  OBVIOUS
<1>6. Decide(valid, after, last, opened)
  <2>1. Decide(EndChecked(n), after, last, opened)
    BY <1>2, <1>4, Zenon DEF EndBlock, EndChecked
  <2>. QED BY <1>5, <2>1 DEF Decide
<1>7. current # 1 /\ WasmSpecification!Outer # <<>>
  BY <1>0, <1>1, FunctionFirst
<1>8. PICK framesAfter :
        framesAfter = WasmSpecification!Holding(WasmSpecification!Outer,
                        WasmSpecification!Last(WasmSpecification!Outer).operands \o results)
  OBVIOUS
<1>9. ControlFrames(after, last) = framesAfter /\ Saved(after)
  BY <1>0, <1>3, <1>4, <1>7, <1>8, EndedFrames
<1>10. SavedKept
  BY <1>6, <1>9, DecidedSaved
<1>11. ASSUME SameIfTypes PROVE WasmSpecification!End(i)
  <2>1. PICK asSpecified : asSpecified = EndSpecified(WasmSpecification!Innermost)
    OBVIOUS
  <2>2. asSpecified <=> valid
    BY <1>2, <1>5, <1>11, <2>1, EndAgrees
  <2>3. WasmSpecification!Decide(asSpecified, framesAfter)
    BY <1>6, <1>9, <2>2, DecidedAsSpecified
  <2>4. WasmSpecification!Innermost.type.results = results
    BY <1>2, <1>3
  <2>5. framesAfter = WasmSpecification!Holding(WasmSpecification!Outer,
                        WasmSpecification!Last(WasmSpecification!Outer).operands \o WasmSpecification!Innermost.type.results)
    BY <1>8, <2>4
  <2>. QED BY <1>1, <1>7, <2>1, <2>3, <2>5, Zenon DEF WasmSpecification!End, EndSpecified
<1>. QED BY <1>10, <1>11

LEMMA EndFunctionSpecified ==
  ASSUME GoodState, Saved(elements), NEW i \in Instruction, EndFunction(i)
  PROVE  WasmSpecification!End(i) /\ SavedKept
<1>0. ListGood(elements, current)
  BY DEF GoodState, StateGood
<1>1. i.op = "end" /\ elements[current].kind = "FUNC"
  BY DEF EndFunction
<1>2. WasmSpecification!Outer = <<>> /\ current = 1
  BY <1>0, <1>1, FunctionFirst
<1>3. PICK asSpecified : asSpecified = EndSpecified(WasmSpecification!Innermost)
  OBVIOUS
<1>4. asSpecified <=> EndExpected
  <2>1. WasmSpecification!Innermost.op # "if"
    <3>1. PICK f : f = Floor(elements)
      OBVIOUS
    <3>2. f # current => elements[current].kind = "IF"
      BY <1>0, <3>1, ShapeFacts
    <3>3. f = current
      BY <1>1, <3>2
    <3>. QED BY <1>0, <3>1, <3>3, ResultsBase
  <2>. QED BY <1>0, <1>3, <2>1, EndAllowed DEF EndSpecified
<1>5. CASE EndExpected
  <2>1. verdict' = "done" /\ elements' = <<>>
    BY <1>5 DEF EndFunction
  <2>2. ControlFrames(elements', current') = <<>>
    BY <2>1 DEF ControlFrames
  <2>3. WasmSpecification!End(i)
    BY <1>1, <1>2, <1>3, <1>4, <1>5, <2>1, <2>2 DEF WasmSpecification!End, EndSpecified
  <2>. QED BY <2>1, <2>3 DEF SavedKept
<1>6. CASE ~EndExpected
  <2>1. verdict' = "rejected" /\ UNCHANGED <<elements, current, blocks>>
    BY <1>6 DEF EndFunction, Reject
  <2>2. WasmSpecification!Decide(asSpecified, WasmSpecification!Holding(WasmSpecification!Outer,
          WasmSpecification!Last(WasmSpecification!Outer).operands \o WasmSpecification!Innermost.type.results))
    BY <1>4, <1>6, <2>1 DEF WasmSpecification!Decide
  <2>3. WasmSpecification!End(i)
    BY <1>1, <1>3, <1>4, <1>6, <2>2, Zenon DEF WasmSpecification!End, EndSpecified
  <2>. QED BY <2>1, <2>3 DEF SavedKept
<1>. QED BY <1>5, <1>6

(***************************************************************************)
(* The steps together.                                                     *)
(***************************************************************************)
SpecifiedStep(i) ==
  \/ WasmSpecification!PlainInstruction(i) \/ WasmSpecification!Drop(i) \/ WasmSpecification!Select(i)
  \/ WasmSpecification!Enter(i) \/ WasmSpecification!Else(i) \/ WasmSpecification!End(i)
  \/ WasmSpecification!Branch(i) \/ WasmSpecification!BranchTable(i) \/ WasmSpecification!Leave(i)

LEMMA HandledSpecified ==
  ASSUME GoodState, Saved(elements), Len(elements') <= MaxElements, NEW i \in Instruction, Handle(i)
  PROVE  SavedKept /\ (SameIfTypes => SpecifiedStep(i))
<1>1. ListGood(elements, current)
  BY DEF GoodState, StateGood
<1>2. CASE PlainInstruction(i) \/ Drop(i) \/ Select(i)
  BY <1>1, <1>2, PlainSpecified, DropSpecified, SelectSpecified, Zenon DEF SpecifiedStep
<1>3. CASE EnterBlock(i) \/ EnterIf(i)
  BY <1>1, <1>3, EnterBlockSpecified, EnterIfSpecified, Zenon DEF SpecifiedStep
<1>4. CASE Else(i)
  BY <1>1, <1>4, ElseSpecified, Zenon DEF SpecifiedStep
<1>5. CASE EndBlock(i)
  BY <1>5, EndBlockSpecified, Zenon DEF SpecifiedStep
<1>6. CASE EndFunction(i)
  BY <1>6, EndFunctionSpecified, Zenon DEF SpecifiedStep
<1>7. CASE BranchAlways(i) \/ BranchIf(i)
  BY <1>1, <1>7, BranchAlwaysSpecified, BranchIfSpecified, Zenon DEF SpecifiedStep
<1>8. CASE BranchTable(i)
  BY <1>8, BranchTableSpecified, Zenon DEF SpecifiedStep
<1>9. CASE Unreachable(i) \/ Return(i) \/ ReturnCallInstruction(i)
  BY <1>1, <1>9, LeaveSpecified, Zenon DEF SpecifiedStep
<1>. QED BY <1>2, <1>3, <1>4, <1>5, <1>6, <1>7, <1>8, <1>9, Zenon DEF Handle

LEMMA NextSpecified ==
  ASSUME IInv, SavedOK, [Next]_vars
  PROVE  SavedOK' /\ (SameIfTypes => [WasmSpecification!Next]_(WasmSpecification!validationVars))
<1>1. CASE UNCHANGED vars
  <2>1. elements' = elements /\ current' = current /\ verdict' = verdict /\ instruction' = instruction
    BY <1>1 DEF vars
  <2>2. SavedOK'
    BY <2>1 DEF SavedOK
  <2>3. ControlFrames(elements', current') = ControlFrames(elements, current)
    BY <2>1
  <2>4. UNCHANGED WasmSpecification!validationVars
    BY <2>1, <2>3 DEF WasmSpecification!validationVars
  <2>. QED BY <2>2, <2>4
<1>2. CASE Next
  <2>1. verdict = "valid" /\ Len(elements') <= MaxElements
    BY <1>2 DEF Next
  <2>2. PICK i \in Instruction : Handle(i) /\ instruction' = i
    BY <1>2, Zenon DEF Next
  <2>3. GoodState
    <3>1. verdict # "done"
      BY <2>1
    <3>. QED BY <3>1, InvariantGood, Zenon DEF GoodState, StateGood
  <2>4. Saved(elements)
    BY <2>1 DEF SavedOK
  <2>5. SavedKept /\ (SameIfTypes => SpecifiedStep(i))
    BY <2>1, <2>2, <2>3, <2>4, HandledSpecified
  <2>6. SavedOK'
    BY <2>5 DEF SavedKept, SavedOK
  <2>7. SpecifiedStep(i) => WasmSpecification!Next
    BY <2>1, <2>2, Zenon DEF WasmSpecification!Next, SpecifiedStep
  <2>. QED BY <2>5, <2>6, <2>7
<1>. QED BY <1>1, <1>2

FirstList(list) == list = <<Element("FUNC", FunctionType, 0)>>

LEMMA FirstSaved ==
  ASSUME NEW list, FirstList(list)
  PROVE  /\ Saved(list)
         /\ ControlFrames(list, 1) = <<WasmSpecification!Frame("function", FunctionType, <<>>, FALSE)>>
<1>1. PICK e : e = Element("FUNC", FunctionType, 0)
  OBVIOUS
<1>2. e.kind = "FUNC" /\ e.type = FunctionType /\ e.prev = 0 /\ e.formallyUnreachable = FALSE
  BY <1>1 DEF Element
<1>3. ListGood(list, 1)
  <2>1. PICK opened : IsFirst(list, opened)
    BY Zenon DEF FirstList, IsFirst
  <2>2. StateGood(list, 1, opened)
    BY <2>1, FirstState
  <2>. QED BY <2>2 DEF StateGood
<1>4. list = <<e>>
  BY <1>1, Zenon DEF FirstList
<1>5. Len(list) = 1 /\ list[1] = e /\ list # <<>>
  BY <1>4
<1>6. Saved(list)
  <2>1. \A k \in 1 .. Len(list) : list[k].kind # "IF" /\ list[k].kind # "ELSE_FENCE"
    BY <1>2, <1>5
  <2>2. \A k \in 1 .. Len(list) : IfTypes(list, k) /\ ParamsSaved(list, k)
    BY <2>1, Zenon DEF IfTypes, ParamsSaved
  <2>. QED BY <1>2, <1>5, <2>2, Zenon DEF Saved
<1>7. Held(list) = <<>>
  <2>1. list \in Seq(ElementType)
    BY <1>3 DEF ListGood
  <2>2. PICK f : f = Floor(list)
    OBVIOUS
  <2>3. f \in 1 .. Len(list)
    BY <1>3, <2>2, ShapeFacts
  <2>4. Held(list) \in Seq(Kinds) /\ Len(Held(list)) = Len(list) - f
    BY <2>1, <2>2, <2>3, HeldFacts
  <2>5. Len(Held(list)) = 0
    BY <1>5, <2>3, <2>4
  <2>. QED BY <2>4, <2>5, SeqFacts
<1>8. ControlFrame(list, 1) = WasmSpecification!Frame("function", FunctionType, <<>>, FALSE)
  BY <1>2, <1>5, <1>7 DEF ControlFrame, WasmSpecification!Frame
<1>9. FramesAround(list, 1) = <<>>
  BY <1>3, AroundFirst
<1>10. ControlFrames(list, 1) = Append(<<>>, ControlFrame(list, 1))
  <2>1. list # <<>>
    BY <1>5
  <2>2. ControlFrames(list, 1) = Append(FramesAround(list, 1), ControlFrame(list, 1))
    BY <2>1, Zenon DEF ControlFrames
  <2>. QED BY <1>9, <2>2, Zenon
<1>11. \A x : Append(<<>>, x) = <<x>>
  OBVIOUS
<1>12. ControlFrames(list, 1) = <<ControlFrame(list, 1)>>
  BY <1>10, <1>11, Zenon
<1>. QED BY <1>6, <1>8, <1>12, Zenon

LEMMA InitSpecified ==
  ASSUME Init
  PROVE  SavedOK /\ WasmSpecification!Init
<1>1. /\ FirstList(elements) /\ current = 1 /\ verdict = "valid" /\ instruction = Simple("none")
  BY Zenon DEF Init, FirstList
<1>2. Saved(elements) /\ ControlFrames(elements, 1) = <<WasmSpecification!Frame("function", FunctionType, <<>>, FALSE)>>
  BY <1>1, FirstSaved
<1>3. WasmSpecification!Simple("none") = Simple("none")
  BY DEF WasmSpecification!Simple, WasmSpecification!Instr, WasmSpecification!NoType, WasmSpecification!Signature,
         Simple, Instr, NoType, Signature
<1>. QED BY <1>1, <1>2, <1>3 DEF SavedOK, WasmSpecification!Init

\* At every point of a function body the element of an if is followed, up to its
\* fence, by the parameters that ValidationStack put aside for the else, each of the
\* type that the block's signature says, and the function's own element keeps its
\* signature: validateElse finds the operands of the second branch by cutting the
\* stack there.
THEOREM ParametersSaved == Spec => []SavedOK
<1>1. Init => SavedOK
  BY InitSpecified
<1>2. IInv /\ SavedOK /\ [Next]_vars => SavedOK'
  BY NextSpecified
<1>. QED BY <1>1, <1>2, InvariantHolds, PTL DEF Spec

\* ValidationStack and Frontend accept and reject a function body as the validation
\* algorithm of the WebAssembly specification does, whatever the instructions, types
\* and labels, however deep the blocks and in any amount of code that cannot execute,
\* as long as no if has as many parameters as results but of other types: at the end of
\* an if without an else Frontend compares only the numbers of the two.
THEOREM ValidatesAsSpecified == SameIfTypes => (Spec => ImplementsValidation)
<1>. SUFFICES ASSUME SameIfTypes PROVE Spec => ImplementsValidation
  OBVIOUS
<1>1. Init => SavedOK /\ WasmSpecification!Init
  BY InitSpecified
<1>2. IInv /\ SavedOK /\ [Next]_vars => SavedOK'
  BY NextSpecified
<1>3. IInv /\ SavedOK /\ [Next]_vars => [WasmSpecification!Next]_(WasmSpecification!validationVars)
  BY NextSpecified
<1>. QED BY <1>1, <1>2, <1>3, InvariantHolds, PTL DEF Spec, ImplementsValidation, WasmSpecification!Spec
====================================================================================
