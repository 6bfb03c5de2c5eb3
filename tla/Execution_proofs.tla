-------------------------- MODULE Execution_proofs --------------------------
(***************************************************************************)
(* Proofs about Execution for every value of its constants.                *)
(***************************************************************************)
EXTENDS Execution, FiniteSetTheorems, SequenceTheorems, WellFoundedInduction, TLAPS

USE ExecutionAssumption

(***************************************************************************)
(* What a step does to the stack of the thread that takes it: a frame is   *)
(* pushed, the stack is cut above a depth, or registers of frames change.  *)
(***************************************************************************)
Others(t) == \A u \in Threads \ {t} : stack'[u] = stack[u]

Pushed(t, f) ==
  /\ stack' \in [Threads -> Seq(Frame)] /\ Others(t)
  /\ Len(stack'[t]) = Len(stack[t]) + 1 /\ Len(stack'[t]) <= MaxDepth
  /\ \A i \in 1 .. Len(stack[t]) : stack'[t][i] = stack[t][i]
  /\ stack'[t][Len(stack[t]) + 1] = f

Same(f, g) ==
  /\ f.code = g.code /\ f.rt = g.rt /\ f.ref = g.ref
  /\ f.guarded = g.guarded /\ f.starting = g.starting

Cut(t, n) ==
  /\ stack' \in [Threads -> Seq(Frame)] /\ Others(t)
  /\ n \in 0 .. Len(stack[t]) /\ Len(stack'[t]) = n
  /\ \A i \in 1 .. n : Same(stack'[t][i], stack[t][i])

Stacks == stack \in [Threads -> Seq(Frame)] /\ \A t \in Threads : Len(stack[t]) <= MaxDepth

LEMMA SeqFacts ==
  ASSUME NEW s \in Seq(Frame)
  PROVE  /\ Len(s) \in Nat /\ DOMAIN s = 1 .. Len(s)
         /\ \A i \in 1 .. Len(s) : s[i] \in Frame
         /\ s = <<>> <=> Len(s) = 0
<1>1. Len(s) \in Nat /\ DOMAIN s = 1 .. Len(s) /\ \A i \in 1 .. Len(s) : s[i] \in Frame
  BY LenProperties, ElementOfSeq
<1>2. s = <<>> <=> Len(s) = 0
  BY EmptySeq
<1>. QED BY <1>1, <1>2

LEMMA FrameFacts ==
  ASSUME NEW f \in Frame
  PROVE  /\ f.code \in {"wasm", "host"} /\ f.rt \in Runtimes /\ f.reg \in 0 .. MaxWrites
         /\ f.ref \in 0 .. MaxDepth /\ f.guarded \in BOOLEAN /\ f.starting \in BOOLEAN
  BY DEF Frame

LEMMA PushStep ==
  ASSUME Stacks, NEW t \in Threads, NEW f \in Frame, Depth(t) < MaxDepth,
         stack' = [stack EXCEPT ![t] = Append(@, f)]
  PROVE  Pushed(t, f)
<1>1. stack[t] \in Seq(Frame) /\ stack'[t] = Append(stack[t], f) /\ Others(t)
  BY DEF Stacks, Others
<1>2. /\ stack'[t] \in Seq(Frame) /\ Len(stack'[t]) = Len(stack[t]) + 1
      /\ \A i \in 1 .. Len(stack[t]) : stack'[t][i] = stack[t][i]
      /\ stack'[t][Len(stack[t]) + 1] = f
  BY <1>1, AppendProperties
<1>3. stack' \in [Threads -> Seq(Frame)]
  BY <1>1, <1>2 DEF Stacks
<1>4. Len(stack'[t]) <= MaxDepth
  BY <1>1, <1>2, SeqFacts DEF Depth
<1>. QED BY <1>1, <1>2, <1>3, <1>4 DEF Pushed

LEMMA CutSeq ==
  ASSUME NEW s \in Seq(Frame), NEW n \in 0 .. Len(s)
  PROVE  /\ SubSeq(s, 1, n) \in Seq(Frame) /\ Len(SubSeq(s, 1, n)) = n
         /\ \A i \in 1 .. n : SubSeq(s, 1, n)[i] = s[i]
<1>1. Len(s) \in Nat /\ \A i \in 1 .. n : s[i] \in Frame
  BY SeqFacts
<1>2. /\ SubSeq(s, 1, n) \in Seq(Frame)
      /\ Len(SubSeq(s, 1, n)) = IF 1 <= n THEN n - 1 + 1 ELSE 0
      /\ \A i \in 1 .. n - 1 + 1 : SubSeq(s, 1, n)[i] = s[1 + i - 1]
  BY <1>1, SubSeqProperties
<1>. QED BY <1>1, <1>2

LEMMA CutStep ==
  ASSUME Stacks, NEW t \in Threads, NEW d \in 1 .. Depth(t),
         stack' = [stack EXCEPT ![t] = SubSeq(@, 1, d - 1)]
  PROVE  /\ Cut(t, d - 1)
         /\ \A i \in 1 .. d - 1 : stack'[t][i] = stack[t][i]
<1>1. stack[t] \in Seq(Frame) /\ stack'[t] = SubSeq(stack[t], 1, d - 1) /\ Others(t)
  BY DEF Stacks, Others
<1>2. d - 1 \in 0 .. Len(stack[t])
  BY <1>1, SeqFacts DEF Depth
<1>3. /\ stack'[t] \in Seq(Frame) /\ Len(stack'[t]) = d - 1
      /\ \A i \in 1 .. d - 1 : stack'[t][i] = stack[t][i]
  BY <1>1, <1>2, CutSeq
<1>4. stack' \in [Threads -> Seq(Frame)]
  BY <1>1, <1>3 DEF Stacks
<1>. QED BY <1>1, <1>2, <1>3, <1>4 DEF Cut, Same

LEMMA RegFrame ==
  ASSUME NEW f \in Frame, NEW reg \in 0 .. MaxWrites
  PROVE  LET e == [f EXCEPT !.reg = reg] IN e \in Frame /\ Same(e, f) /\ e.reg = reg
  BY DEF Frame, Same

WithReg(s, n, reg) == [s EXCEPT ![n].reg = reg]

LEMMA RegSeq ==
  ASSUME NEW s \in Seq(Frame), NEW n \in 1 .. Len(s), NEW reg \in 0 .. MaxWrites
  PROVE  LET r == WithReg(s, n, reg)
         IN  /\ r \in Seq(Frame) /\ Len(r) = Len(s)
             /\ \A i \in 1 .. Len(s) : Same(r[i], s[i]) /\ r[i].reg = IF i = n THEN reg ELSE s[i].reg
<1>. DEFINE r == WithReg(s, n, reg)
            e == [s[n] EXCEPT !.reg = reg]
<1>1. e \in Frame /\ Same(e, s[n]) /\ e.reg = reg
  BY SeqFacts, RegFrame, Zenon
<1>2. r = [s EXCEPT ![n] = e]
  BY Zenon DEF WithReg
<1>3. \A f : Same(f, f)
  BY DEF Same
<1>. HIDE DEF e
<1>4. /\ r \in Seq(Frame) /\ Len(r) = Len(s)
      /\ \A i \in 1 .. Len(s) : r[i] = IF i = n THEN e ELSE s[i]
  BY <1>1, <1>2, ExceptSeq
<1>. QED BY <1>1, <1>3, <1>4

LEMMA SetGlobalStack ==
  ASSUME Stacks, NEW t \in Threads, stack[t] # <<>>, NEW reg \in 0 .. MaxWrites,
         stack' = [stack EXCEPT ![t] = WithReg(@, Depth(t), reg)]
  PROVE  /\ Cut(t, Depth(t))
         /\ \A i \in 1 .. Depth(t) : stack'[t][i].reg = IF i = Depth(t) THEN reg ELSE stack[t][i].reg
<1>. DEFINE n == Len(stack[t])
            e == WithReg(stack[t], n, reg)
<1>1. stack[t] \in Seq(Frame) /\ n \in 1 .. Len(stack[t]) /\ n \in 0 .. n
  BY SeqFacts DEF Stacks
<1>2. stack' = [stack EXCEPT ![t] = e]
  BY DEF Depth
<1>3. /\ e \in Seq(Frame) /\ Len(e) = n
      /\ \A i \in 1 .. n : Same(e[i], stack[t][i]) /\ e[i].reg = IF i = n THEN reg ELSE stack[t][i].reg
  BY <1>1, RegSeq
<1>. HIDE DEF e
<1>4. stack' \in [Threads -> Seq(Frame)] /\ stack'[t] = e /\ Others(t)
  BY <1>2, <1>3 DEF Stacks, Others
<1>. QED BY <1>1, <1>3, <1>4 DEF Cut, Depth

LEMMA PopSeq ==
  ASSUME NEW s \in Seq(Frame), NEW n \in 1 .. Len(s), NEW reg \in 0 .. MaxWrites
  PROVE  LET r == WithReg(SubSeq(s, 1, n), n, reg)
         IN  /\ r \in Seq(Frame) /\ Len(r) = n
             /\ \A i \in 1 .. n : Same(r[i], s[i]) /\ r[i].reg = IF i = n THEN reg ELSE s[i].reg
<1>. DEFINE q == SubSeq(s, 1, n)
<1>1. Len(s) \in Nat /\ n \in 0 .. Len(s)
  BY SeqFacts
<1>2. q \in Seq(Frame) /\ Len(q) = n /\ \A i \in 1 .. n : q[i] = s[i]
  BY <1>1, CutSeq
<1>. HIDE DEF q
<1>3. n \in 1 .. Len(q)
  BY <1>1, <1>2
<1>4. LET r == WithReg(q, n, reg)
      IN  /\ r \in Seq(Frame) /\ Len(r) = Len(q)
          /\ \A i \in 1 .. Len(q) : Same(r[i], q[i]) /\ r[i].reg = IF i = n THEN reg ELSE q[i].reg
  BY <1>2, <1>3, RegSeq
<1>5. LET r == WithReg(q, n, reg)
      IN  /\ r \in Seq(Frame) /\ Len(r) = n
          /\ \A i \in 1 .. n : Same(r[i], s[i]) /\ r[i].reg = IF i = n THEN reg ELSE s[i].reg
  BY <1>2, <1>4
<1>. QED BY <1>5 DEF q

LEMMA ReturnStack ==
  ASSUME Stacks, NEW t \in Threads, Depth(t) >= 2, NEW reg \in 0 .. MaxWrites,
         stack' = [stack EXCEPT ![t] = WithReg(SubSeq(@, 1, Depth(t) - 1), Depth(t) - 1, reg)]
  PROVE  /\ Cut(t, Depth(t) - 1)
         /\ \A i \in 1 .. Depth(t) - 1 :
              stack'[t][i].reg = IF i = Depth(t) - 1 THEN reg ELSE stack[t][i].reg
<1>. DEFINE n == Depth(t) - 1
            e == WithReg(SubSeq(stack[t], 1, n), n, reg)
<1>1. stack[t] \in Seq(Frame) /\ n \in 1 .. Len(stack[t]) /\ n \in 0 .. Len(stack[t])
  BY SeqFacts DEF Stacks, Depth
<1>2. stack' = [stack EXCEPT ![t] = e]
  OBVIOUS
<1>. HIDE DEF n
<1>3. /\ e \in Seq(Frame) /\ Len(e) = n
      /\ \A i \in 1 .. n : Same(e[i], stack[t][i]) /\ e[i].reg = IF i = n THEN reg ELSE stack[t][i].reg
  BY <1>1, PopSeq
<1>. HIDE DEF e
<1>4. stack' \in [Threads -> Seq(Frame)] /\ stack'[t] = e /\ Others(t)
  BY <1>2, <1>3 DEF Stacks, Others
<1>. QED BY <1>1, <1>3, <1>4 DEF Cut, n

(***************************************************************************)
(* Steps of one kind: calls of compiled code from outside, and traps.      *)
(***************************************************************************)
Calling(t, r, guarded) ==
  /\ guard[t] = "none" /\ ~UsedElsewhere(t, r)
  /\ IF stack[t] = <<>> THEN guarded /\ Environment ELSE Top(t).code = "host" /\ MayCallBack(t, r)
  /\ IF guarded THEN Guarded(t, r) ELSE UNCHANGED <<pRuntime, signalVars>>

Refused(t, r, guarded) ==
  (FramesOf(t, r) = {} \/ "fence" \in Liberties) /\ Refuse(t, r, guarded)

Entering(t, r) ==
  \E guarded, starting \in BOOLEAN :
    Calling(t, r, guarded) /\ (Enter(t, r, guarded, starting) \/ Refused(t, r, guarded))

LEMMA Entries ==
  ASSUME NEW t \in Threads, NEW r \in Runtimes,
         Start(t, r) \/ Call(t, r) \/ CallBack(t, r) \/ CallBackGuarded(t, r)
  PROVE  Entering(t, r)
<1>1. CASE Start(t, r)
  BY <1>1 DEF Start, EnterOrRefuse, Idle, Entering, Calling, Refused
<1>2. CASE Call(t, r)
  BY <1>2 DEF Call, EnterOrRefuse, Idle, Entering, Calling, Refused
<1>3. CASE CallBack(t, r)
  BY <1>3 DEF CallBack, EnterOrRefuse, Runs, Entering, Calling, Refused
<1>4. CASE CallBackGuarded(t, r)
  BY <1>4 DEF CallBackGuarded, EnterOrRefuse, Runs, Entering, Calling, Refused
<1>. QED BY <1>1, <1>2, <1>3, <1>4

Trapping(t, r) ==
  \E reg \in 0 .. MaxWrites :
    /\ guard[t] = "none" /\ stack[t] # <<>>
    /\ r = Top(t).rt \/ (Top(t).code = "host" /\ "crossing" \in Liberties)
    /\ Unwind(t, r, reg)
    /\ latest' = [latest EXCEPT ![r] = reg]

LEMMA StackFacts ==
  ASSUME TypeOK, NEW t \in Threads
  PROVE  /\ Stacks /\ stack[t] \in Seq(Frame) /\ Len(stack[t]) \in 0 .. MaxDepth
         /\ Depth(t) = Len(stack[t]) /\ DOMAIN stack[t] = 1 .. Len(stack[t])
         /\ stack[t] = <<>> <=> Len(stack[t]) = 0
         /\ \A i \in 1 .. Len(stack[t]) : stack[t][i] \in Frame
         /\ stack[t] # <<>> => Top(t) \in Frame /\ Top(t) = stack[t][Len(stack[t])]
<1>1. Stacks /\ stack[t] \in Seq(Frame) /\ Depth(t) = Len(stack[t]) /\ Len(stack[t]) <= MaxDepth
  BY DEF TypeOK, Stacks, Depth
<1>. QED BY <1>1, SeqFacts DEF Top

LEMMA HostOnTop ==
  ASSUME TypeOK, Alternating, NEW t \in Threads, stack[t] # <<>>, Top(t).code = "host"
  PROVE  /\ Depth(t) >= 2 /\ Caller(t) \in Frame /\ Caller(t) = stack[t][Len(stack[t]) - 1]
         /\ Caller(t).code = "wasm" /\ Caller(t).rt = Top(t).rt
<1>1. Depth(t) >= 2
  BY StackFacts DEF Alternating
<1>2. Len(stack[t]) - 1 \in 1 .. Len(stack[t]) /\ Caller(t) = stack[t][Len(stack[t]) - 1]
  BY <1>1, StackFacts DEF Caller
<1>3. Caller(t) \in Frame
  BY <1>2, StackFacts
<1>a. Len(stack[t]) \in DOMAIN stack[t] \ {1} /\ stack[t][Len(stack[t])].code = "host"
  BY <1>1, StackFacts
<1>4. /\ stack[t][Len(stack[t])].code # stack[t][Len(stack[t]) - 1].code
      /\ stack[t][Len(stack[t])].rt = stack[t][Len(stack[t]) - 1].rt
  BY <1>a, Zenon DEF Alternating
<1>. QED BY <1>1, <1>2, <1>3, <1>4, StackFacts, FrameFacts

LEMMA Traps ==
  ASSUME TypeOK, Alternating, GlobalsKept, NEW t \in Threads,
         Trap(t) \/ InterruptAfterImport(t) \/ \E r \in Runtimes : TryTrap(t, r)
  PROVE  \E r \in Runtimes : Trapping(t, r)
<1>1. latest \in [Runtimes -> 0 .. MaxWrites]
  BY DEF TypeOK
<1>2. CASE Trap(t)
  <2>1. guard[t] = "none" /\ stack[t] # <<>> /\ RunsIn(t, Top(t).rt)
    BY <1>2 DEF Trap, Runs, RunsIn
  <2>2. Top(t).rt \in Runtimes /\ Top(t).reg \in 0 .. MaxWrites
    BY <2>1, StackFacts, FrameFacts
  <2>3. latest[Top(t).rt] = Top(t).reg
    BY <2>1, <2>2 DEF GlobalsKept
  <2>4. latest' = [latest EXCEPT ![Top(t).rt] = Top(t).reg]
    BY <1>1, <1>2, <2>2, <2>3 DEF Trap
  <2>. QED BY <1>2, <2>1, <2>2, <2>4 DEF Trap, Trapping
<1>3. CASE InterruptAfterImport(t)
  <2>1. guard[t] = "none" /\ stack[t] # <<>> /\ Top(t).code = "host"
    BY <1>3 DEF InterruptAfterImport, Runs
  <2>2. Top(t).rt \in Runtimes /\ Caller(t).reg \in 0 .. MaxWrites
    BY <2>1, StackFacts, FrameFacts, HostOnTop
  <2>. QED BY <1>3, <2>1, <2>2 DEF InterruptAfterImport, Trapping
<1>4. ASSUME NEW r \in Runtimes, TryTrap(t, r) PROVE Trapping(t, r)
  <2>1. PICK reg \in 0 .. latest[r] : Unwind(t, r, reg) /\ latest' = [latest EXCEPT ![r] = reg]
    BY <1>4, Zenon DEF TryTrap
  <2>2. reg \in 0 .. MaxWrites
    BY <1>1
  <2>3. /\ guard[t] = "none" /\ stack[t] # <<>>
        /\ r = Top(t).rt \/ (Top(t).code = "host" /\ "crossing" \in Liberties)
    BY <1>4 DEF TryTrap, Runs
  <2>. QED BY <2>1, <2>2, <2>3, Zenon DEF Trapping
<1>. QED BY <1>2, <1>3, <1>4

\* every step is one of these, whatever the constants
Kind ==
  \/ \E t \in Threads, r \in Runtimes : Entering(t, r) \/ Trapping(t, r)
  \/ \E t \in Threads : SetGlobal(t) \/ CallImport(t) \/ ReturnFromImport(t) \/ Return(t)
  \/ \E t \in Threads : LeaveGuard(t) \/ Unset(t)
  \/ \E t \in Threads, r \in Runtimes : StartWithoutFunction(t, r) \/ SetGlobalFromHost(t, r)
  \/ InitEnvironment \/ DestroyEnvironment \/ UNCHANGED vars

LEMMA Steps ==
  ASSUME TypeOK, Alternating, GlobalsKept, [Next]_vars
  PROVE  Kind
<1>1. ASSUME NEW t \in Threads, CompiledCode(t) PROVE Kind
  BY <1>1, Traps DEF CompiledCode, Kind
<1>2. ASSUME NEW t \in Threads, HostCode(t) PROVE Kind
  BY <1>2, Traps, Entries DEF HostCode, Kind
<1>3. ASSUME NEW t \in Threads, Embedder(t) PROVE Kind
  BY <1>3, Entries DEF Embedder, Kind
<1>. QED BY <1>1, <1>2, <1>3 DEF Next, Kind

(***************************************************************************)
(* A wrapper's frame d is left, by a return or by a trap.                  *)
(***************************************************************************)
Leaving(t, d, reg) ==
  /\ guard[t] = "none" /\ d \in 1 .. Len(stack[t]) /\ stack[t][d].code = "wasm"
  /\ Top(t).code = "host" \/ Top(t).rt = stack[t][d].rt \* compiled code leaves a frame of its own module
  /\ reg \in 0 .. MaxWrites
  /\ Leave(t, d, reg)
  /\ latest' = [latest EXCEPT ![stack[t][d].rt] = reg]

LEMMA ReturnLeaves ==
  ASSUME TypeOK, GlobalsKept, NEW t \in Threads, Return(t)
  PROVE  Leaving(t, Depth(t), Top(t).reg)
<1>1. guard[t] = "none" /\ stack[t] # <<>> /\ Top(t).code = "wasm" /\ RunsIn(t, Top(t).rt)
  BY DEF Return, Runs, RunsIn
<1>2. /\ Top(t).rt \in Runtimes /\ Top(t).reg \in 0 .. MaxWrites
      /\ Depth(t) \in 1 .. Len(stack[t]) /\ stack[t][Depth(t)] = Top(t)
  BY <1>1, StackFacts, FrameFacts
<1>3. latest[Top(t).rt] = Top(t).reg
  BY <1>1, <1>2 DEF GlobalsKept
<1>4. latest' = [latest EXCEPT ![Top(t).rt] = Top(t).reg]
  BY <1>2, <1>3 DEF Return, TypeOK
<1>5. Leave(t, Depth(t), Top(t).reg)
  BY DEF Return
<1>. QED BY <1>1, <1>2, <1>4, <1>5 DEF Leaving

LEMMA TrapLeaves ==
  ASSUME TypeOK, NEW t \in Threads, NEW r \in Runtimes, Trapping(t, r)
  PROVE  /\ stack[t][reentry[r]].rt = r
         /\ \E reg \in 0 .. MaxWrites : Leaving(t, reentry[r], reg)
         /\ UNCHANGED <<frameRef, start>>
<1>1. PICK reg \in 0 .. MaxWrites :
        /\ guard[t] = "none" /\ stack[t] # <<>>
        /\ r = Top(t).rt \/ (Top(t).code = "host" /\ "crossing" \in Liberties)
        /\ Unwind(t, r, reg)
        /\ latest' = [latest EXCEPT ![r] = reg]
  BY Zenon DEF Trapping
<1>2. /\ reentry[r] \in 1 .. Len(stack[t])
      /\ stack[t][reentry[r]].rt = r /\ stack[t][reentry[r]].code = "wasm"
  BY <1>1, StackFacts DEF Unwind, FramesOf
<1>3. Leave(t, reentry[r], reg) /\ UNCHANGED <<frameRef, start>>
  BY <1>1, Zenon DEF Unwind
<1>. QED BY <1>1, <1>2, <1>3, Zenon DEF Leaving

LEMMA LeavingStack ==
  ASSUME TypeOK, NEW t \in Threads, NEW d, NEW reg, Leaving(t, d, reg)
  PROVE  /\ Cut(t, d - 1)
         /\ \A i \in 1 .. d - 1 : stack'[t][i] = stack[t][i]
<1>1. d \in 1 .. Depth(t) /\ stack' = [stack EXCEPT ![t] = SubSeq(@, 1, d - 1)]
  BY DEF Leaving, Leave, Depth
<1>. QED BY <1>1, CutStep, StackFacts

LEMMA EnterStack ==
  ASSUME TypeOK, NEW t \in Threads, NEW r \in Runtimes, NEW guarded \in BOOLEAN, NEW starting \in BOOLEAN,
         Enter(t, r, guarded, starting)
  PROVE  /\ Wasm(r, link[r], Prepared(r), guarded, starting) \in Frame
         /\ Pushed(t, Wasm(r, link[r], Prepared(r), guarded, starting))
<1>1. link[r] \in 0 .. MaxWrites /\ Prepared(r) \in 0 .. MaxDepth
  BY DEF TypeOK, Prepared
<1>2. Wasm(r, link[r], Prepared(r), guarded, starting) \in Frame
  BY <1>1 DEF Wasm, Frame
<1>3. Depth(t) < MaxDepth /\ stack' = [stack EXCEPT ![t] = Append(@, Wasm(r, link[r], Prepared(r), guarded, starting))]
  BY DEF Enter
<1>. HIDE DEF Wasm
<1>. QED BY <1>2, <1>3, PushStep, StackFacts

LEMMA ImportStack ==
  ASSUME TypeOK, NEW t \in Threads, CallImport(t)
  PROVE  /\ stack[t] # <<>> /\ Top(t) \in Frame /\ Top(t).rt \in Runtimes /\ Top(t).code = "wasm"
         /\ guard[t] = "none" /\ Host(Top(t).rt) \in Frame /\ Pushed(t, Host(Top(t).rt))
<1>1. stack[t] # <<>> /\ guard[t] = "none" /\ Top(t).code = "wasm" /\ Depth(t) < MaxDepth
  BY DEF CallImport, Runs
<1>2. Top(t) \in Frame /\ Top(t).rt \in Runtimes
  BY <1>1, StackFacts, FrameFacts
<1>3. Host(Top(t).rt) \in Frame
  BY <1>2 DEF Host, Frame
<1>4. stack' = [stack EXCEPT ![t] = Append(@, Host(Top(t).rt))]
  BY DEF CallImport
<1>. QED BY <1>1, <1>2, <1>3, <1>4, PushStep, StackFacts

LEMMA WriteStack ==
  ASSUME TypeOK, NEW t \in Threads, SetGlobal(t)
  PROVE  /\ stack[t] # <<>> /\ Top(t) \in Frame /\ Top(t).rt \in Runtimes /\ Top(t).code = "wasm"
         /\ guard[t] = "none" /\ Written(Top(t).rt) \in 0 .. MaxWrites
         /\ Cut(t, Depth(t))
         /\ \A i \in 1 .. Depth(t) :
              stack'[t][i].reg = IF i = Depth(t) THEN Written(Top(t).rt) ELSE stack[t][i].reg
<1>1. stack[t] # <<>> /\ guard[t] = "none" /\ Top(t).code = "wasm" /\ latest[Top(t).rt] < MaxWrites
  BY DEF SetGlobal, Runs
<1>2. Top(t) \in Frame /\ Top(t).rt \in Runtimes
  BY <1>1, StackFacts, FrameFacts
<1>3. Written(Top(t).rt) \in 0 .. MaxWrites
  BY <1>1, <1>2 DEF TypeOK, Written
<1>4. stack' = [stack EXCEPT ![t] = WithReg(@, Depth(t), Written(Top(t).rt))]
  BY Zenon DEF SetGlobal, WithReg
<1>. QED BY <1>1, <1>2, <1>3, <1>4, SetGlobalStack, StackFacts

LEMMA BackStack ==
  ASSUME TypeOK, Alternating, NEW t \in Threads, ReturnFromImport(t)
  PROVE  /\ stack[t] # <<>> /\ Top(t) \in Frame /\ Top(t).rt \in Runtimes /\ Top(t).code = "host"
         /\ guard[t] = "none" /\ Depth(t) >= 2 /\ Cut(t, Depth(t) - 1)
         /\ stack[t][Depth(t) - 1].code = "wasm" /\ stack[t][Depth(t) - 1].rt = Top(t).rt
         /\ \A i \in 1 .. Depth(t) - 1 :
              stack'[t][i].reg = IF i = Depth(t) - 1 THEN link[Top(t).rt] ELSE stack[t][i].reg
<1>1. stack[t] # <<>> /\ guard[t] = "none" /\ Top(t).code = "host"
  BY DEF ReturnFromImport, Runs
<1>2. Top(t) \in Frame /\ Top(t).rt \in Runtimes /\ Depth(t) = Len(stack[t])
  BY <1>1, StackFacts, FrameFacts
<1>3. link[Top(t).rt] \in 0 .. MaxWrites
  BY <1>2 DEF TypeOK
<1>4. stack' = [stack EXCEPT ![t] = WithReg(SubSeq(@, 1, Depth(t) - 1), Depth(t) - 1, link[Top(t).rt])]
  BY Zenon DEF ReturnFromImport, WithReg, Recovered
<1>5. Depth(t) >= 2 /\ stack[t][Depth(t) - 1].code = "wasm" /\ stack[t][Depth(t) - 1].rt = Top(t).rt
  BY <1>1, <1>2, HostOnTop
<1>. QED BY <1>1, <1>2, <1>3, <1>4, <1>5, ReturnStack, StackFacts

(***************************************************************************)
(* The frames of a module after such a step.                               *)
(***************************************************************************)
LEMMA FramesFacts ==
  ASSUME TypeOK, NEW t \in Threads, NEW r
  PROVE  /\ FramesOf(t, r) = {i \in 1 .. Len(stack[t]) : stack[t][i].rt = r /\ stack[t][i].code = "wasm"}
         /\ \A i \in FramesOf(t, r) : i \in 1 .. Len(stack[t]) /\ i \in 1 .. MaxDepth
  BY StackFacts DEF FramesOf

LEMMA PushedFrames ==
  ASSUME TypeOK, NEW t \in Threads, NEW f \in Frame, Pushed(t, f)
  PROVE  \A u \in Threads, r \in Runtimes :
           FramesOf(u, r)' = IF u = t /\ f.rt = r /\ f.code = "wasm"
                             THEN FramesOf(t, r) \union {Depth(t) + 1} ELSE FramesOf(u, r)
<1>. SUFFICES ASSUME NEW u \in Threads, NEW r \in Runtimes
              PROVE  FramesOf(u, r)' = IF u = t /\ f.rt = r /\ f.code = "wasm"
                                       THEN FramesOf(t, r) \union {Depth(t) + 1} ELSE FramesOf(u, r)
  OBVIOUS
<1>1. CASE u # t
  BY <1>1 DEF Pushed, Others, FramesOf
<1>2. CASE u = t
  <2>1. DOMAIN stack'[t] = 1 .. Len(stack[t]) + 1 /\ DOMAIN stack[t] = 1 .. Len(stack[t]) /\ Depth(t) = Len(stack[t])
        /\ Len(stack[t]) \in Nat
    BY StackFacts, LenProperties DEF Pushed
  <2>2. /\ \A i \in 1 .. Len(stack[t]) : stack'[t][i] = stack[t][i]
        /\ stack'[t][Len(stack[t]) + 1] = f
    BY DEF Pushed
  <2>3. FramesOf(t, r)' = {i \in 1 .. Len(stack[t]) + 1 : stack'[t][i].rt = r /\ stack'[t][i].code = "wasm"}
    BY <2>1 DEF FramesOf
  <2>4. FramesOf(t, r) = {i \in 1 .. Len(stack[t]) : stack[t][i].rt = r /\ stack[t][i].code = "wasm"}
    BY <2>1 DEF FramesOf
  <2>. QED BY <1>2, <2>1, <2>2, <2>3, <2>4
<1>. QED BY <1>1, <1>2

LEMMA CutFrames ==
  ASSUME TypeOK, NEW t \in Threads, NEW n, Cut(t, n)
  PROVE  \A u \in Threads, r \in Runtimes :
           FramesOf(u, r)' = IF u = t THEN {i \in FramesOf(t, r) : i <= n} ELSE FramesOf(u, r)
<1>. SUFFICES ASSUME NEW u \in Threads, NEW r \in Runtimes
              PROVE  FramesOf(u, r)' = IF u = t THEN {i \in FramesOf(t, r) : i <= n} ELSE FramesOf(u, r)
  OBVIOUS
<1>1. CASE u # t
  BY <1>1 DEF Cut, Others, FramesOf
<1>2. CASE u = t
  <2>1. DOMAIN stack'[t] = 1 .. n /\ DOMAIN stack[t] = 1 .. Len(stack[t]) /\ n \in 0 .. Len(stack[t]) /\ Len(stack[t]) \in Nat
    BY StackFacts, LenProperties DEF Cut
  <2>2. \A i \in 1 .. n : stack'[t][i].rt = stack[t][i].rt /\ stack'[t][i].code = stack[t][i].code
    BY DEF Cut, Same
  <2>. QED BY <1>2, <2>1, <2>2 DEF FramesOf
<1>. QED BY <1>1, <1>2

(***************************************************************************)
(* Compiled code and host functions alternate.                             *)
(***************************************************************************)
AlternatingOn(t) ==
  /\ stack[t] # <<>> => stack[t][1].code = "wasm" /\ stack[t][1].guarded
  /\ \A i \in DOMAIN stack[t] \ {1} :
       /\ stack[t][i].code # stack[t][i - 1].code
       /\ stack[t][i].code = "host" => stack[t][i].rt = stack[t][i - 1].rt /\ ~stack[t][i].guarded

GuardedAt(t) == guard[t] # "none" => stack[t] = <<>> \/ Top(t).code = "host"

LEMMA AlternatingParts == Alternating <=> \A t \in Threads : AlternatingOn(t) /\ GuardedAt(t)
  BY DEF Alternating, AlternatingOn, GuardedAt

LEMMA SameParts ==
  ASSUME NEW t, stack'[t] = stack[t]
  PROVE  /\ AlternatingOn(t) => AlternatingOn(t)'
         /\ guard'[t] = guard[t] => (GuardedAt(t) => GuardedAt(t)')
  BY DEF AlternatingOn, GuardedAt, Top, Depth

LEMMA PushedAlternates ==
  ASSUME TypeOK, Alternating, NEW t \in Threads, NEW f \in Frame, Pushed(t, f),
         IF stack[t] = <<>> THEN f.code = "wasm" /\ f.guarded
         ELSE /\ f.code # Top(t).code
              /\ f.code = "host" => f.rt = Top(t).rt /\ ~f.guarded
  PROVE  AlternatingOn(t)'
<1>1. /\ Len(stack[t]) \in Nat /\ DOMAIN stack[t] = 1 .. Len(stack[t])
      /\ stack[t] = <<>> <=> Len(stack[t]) = 0
      /\ stack[t] # <<>> => Top(t) = stack[t][Len(stack[t])]
  BY StackFacts
<1>2. /\ DOMAIN stack'[t] = 1 .. Len(stack[t]) + 1
      /\ \A i \in 1 .. Len(stack[t]) : stack'[t][i] = stack[t][i]
      /\ stack'[t][Len(stack[t]) + 1] = f
  BY LenProperties DEF Pushed
<1>3. AlternatingOn(t)
  BY AlternatingParts
<1>4. stack'[t][1].code = "wasm" /\ stack'[t][1].guarded
  BY <1>1, <1>2, <1>3 DEF AlternatingOn
<1>5. ASSUME NEW i \in DOMAIN stack'[t] \ {1}
      PROVE  /\ stack'[t][i].code # stack'[t][i - 1].code
             /\ stack'[t][i].code = "host" => stack'[t][i].rt = stack'[t][i - 1].rt /\ ~stack'[t][i].guarded
  <2>1. CASE i = Len(stack[t]) + 1
    BY <1>1, <1>2, <2>1
  <2>2. CASE i # Len(stack[t]) + 1
    <3>1. i \in DOMAIN stack[t] \ {1} /\ i \in 1 .. Len(stack[t]) /\ i - 1 \in 1 .. Len(stack[t])
      BY <1>1, <1>2, <2>2
    <3>2. /\ stack[t][i].code # stack[t][i - 1].code
          /\ stack[t][i].code = "host" => stack[t][i].rt = stack[t][i - 1].rt /\ ~stack[t][i].guarded
      BY <1>3, <3>1, Zenon DEF AlternatingOn
    <3>3. stack'[t][i] = stack[t][i] /\ stack'[t][i - 1] = stack[t][i - 1]
      BY <1>2, <3>1
    <3>. QED BY <3>2, <3>3
  <2>. QED BY <2>1, <2>2
<1>. QED BY <1>4, <1>5 DEF AlternatingOn

LEMMA CutAlternates ==
  ASSUME TypeOK, Alternating, NEW t \in Threads, NEW n, Cut(t, n)
  PROVE  AlternatingOn(t)'
<1>1. Len(stack[t]) \in Nat /\ DOMAIN stack[t] = 1 .. Len(stack[t]) /\ (stack[t] = <<>> <=> Len(stack[t]) = 0)
  BY StackFacts
<1>2. /\ DOMAIN stack'[t] = 1 .. n /\ n \in 0 .. Len(stack[t]) /\ (stack'[t] # <<>> => n # 0)
      /\ \A i \in 1 .. n : Same(stack'[t][i], stack[t][i])
  BY LenProperties, EmptySeq DEF Cut
<1>3. AlternatingOn(t)
  BY AlternatingParts
<1>4. stack'[t] # <<>> => stack'[t][1].code = "wasm" /\ stack'[t][1].guarded
  BY <1>1, <1>2, <1>3 DEF AlternatingOn, Same
<1>5. ASSUME NEW i \in DOMAIN stack'[t] \ {1}
      PROVE  /\ stack'[t][i].code # stack'[t][i - 1].code
             /\ stack'[t][i].code = "host" => stack'[t][i].rt = stack'[t][i - 1].rt /\ ~stack'[t][i].guarded
  <2>1. i \in DOMAIN stack[t] \ {1} /\ i \in 1 .. n /\ i - 1 \in 1 .. n
    BY <1>1, <1>2
  <2>2. /\ stack[t][i].code # stack[t][i - 1].code
        /\ stack[t][i].code = "host" => stack[t][i].rt = stack[t][i - 1].rt /\ ~stack[t][i].guarded
    BY <1>3, <2>1, Zenon DEF AlternatingOn
  <2>3. Same(stack'[t][i], stack[t][i]) /\ Same(stack'[t][i - 1], stack[t][i - 1])
    BY <1>2, <2>1
  <2>. QED BY <2>2, <2>3 DEF Same
<1>. QED BY <1>4, <1>5 DEF AlternatingOn

(***************************************************************************)
(* Each kind of step, with what the proofs below use of it.                *)
(***************************************************************************)
Enters(t, r) ==
  \E guarded, starting \in BOOLEAN : Calling(t, r, guarded) /\ Enter(t, r, guarded, starting)
Refuses(t, r) ==
  \E guarded \in BOOLEAN : Calling(t, r, guarded) /\ Refused(t, r, guarded)
Leaves(t) == \E d, reg \in Nat : Leaving(t, d, reg)
StackKept ==
  \E t \in Threads :
    \/ LeaveGuard(t) \/ Unset(t)
    \/ \E r \in Runtimes : Refuses(t, r) \/ StartWithoutFunction(t, r) \/ SetGlobalFromHost(t, r)
Outside == InitEnvironment \/ DestroyEnvironment \/ UNCHANGED vars

Step ==
  \/ \E t \in Threads : SetGlobal(t) \/ CallImport(t) \/ ReturnFromImport(t) \/ Leaves(t)
  \/ \E t \in Threads, r \in Runtimes : Enters(t, r)
  \/ StackKept \/ Outside

LEMMA StepCases ==
  ASSUME TypeOK, Alternating, GlobalsKept, [Next]_vars
  PROVE  Step
<1>1. Kind
  BY Steps
<1>2. ASSUME NEW t \in Threads, NEW r \in Runtimes, Entering(t, r) PROVE Step
  BY <1>2, Zenon DEF Entering, Step, Enters, Refuses, StackKept
<1>3. ASSUME NEW t \in Threads, NEW r \in Runtimes, Trapping(t, r) PROVE Step
  <2>1. PICK reg \in 0 .. MaxWrites : Leaving(t, reentry[r], reg)
    BY <1>3, TrapLeaves
  <2>2. reentry[r] \in Nat /\ reg \in Nat
    BY DEF TypeOK
  <2>. QED BY <2>1, <2>2, Zenon DEF Step, Leaves
<1>4. ASSUME NEW t \in Threads, Return(t) PROVE Step
  <2>1. Leaving(t, Depth(t), Top(t).reg)
    BY <1>4, ReturnLeaves
  <2>2. Depth(t) \in Nat /\ Top(t).reg \in Nat
    BY <2>1, StackFacts DEF Leaving
  <2>. QED BY <2>1, <2>2, Zenon DEF Step, Leaves
<1>. QED BY <1>1, <1>2, <1>3, <1>4 DEF Kind, Step, StackKept, Outside

LEMMA OtherParts ==
  ASSUME TypeOK, Alternating, NEW t \in Threads, Others(t),
         \A u \in Threads \ {t} : guard'[u] = guard[u],
         AlternatingOn(t)', GuardedAt(t)'
  PROVE  Alternating'
<1>1. ASSUME NEW u \in Threads PROVE AlternatingOn(u)' /\ GuardedAt(u)'
  <2>1. CASE u = t
    BY <2>1
  <2>2. CASE u # t
    BY <2>2, SameParts, AlternatingParts DEF Others
  <2>. QED BY <2>1, <2>2
<1>. QED BY <1>1 DEF Alternating, AlternatingOn, GuardedAt

LEMMA GuardOne ==
  ASSUME TypeOK, NEW t \in Threads, NEW v, guard' = [guard EXCEPT ![t] = v]
  PROVE  guard'[t] = v /\ \A u \in Threads \ {t} : guard'[u] = guard[u]
  BY DEF TypeOK

LEMMA AlternatingKept ==
  ASSUME TypeOK, Alternating, Step
  PROVE  Alternating'
<1>1. ASSUME NEW t \in Threads, NEW r \in Runtimes, Enters(t, r) PROVE Alternating'
  <2>1. PICK guarded \in BOOLEAN, starting \in BOOLEAN : Calling(t, r, guarded) /\ Enter(t, r, guarded, starting)
    BY <1>1, Zenon DEF Enters
  <2>. DEFINE f == Wasm(r, link[r], Prepared(r), guarded, starting)
  <2>2. f \in Frame /\ Pushed(t, f)
    BY <2>1, EnterStack
  <2>3. f.code = "wasm" /\ f.guarded = guarded
    BY DEF Wasm
  <2>4. IF stack[t] = <<>> THEN guarded ELSE Top(t).code = "host"
    BY <2>1 DEF Calling
  <2>5. guard' = guard /\ guard[t] = "none"
    BY <2>1 DEF Calling, Enter
  <2>. HIDE DEF f
  <2>6. IF stack[t] = <<>> THEN f.code = "wasm" /\ f.guarded
        ELSE f.code # Top(t).code /\ (f.code = "host" => f.rt = Top(t).rt /\ ~f.guarded)
    BY <2>3, <2>4
  <2>7. AlternatingOn(t)'
    BY <2>2, <2>6, PushedAlternates
  <2>8. GuardedAt(t)'
    BY <2>5 DEF GuardedAt
  <2>. QED BY <2>2, <2>5, <2>7, <2>8, OtherParts DEF Pushed
<1>2. ASSUME NEW t \in Threads, CallImport(t) PROVE Alternating'
  <2>. DEFINE f == Host(Top(t).rt)
  <2>1. /\ stack[t] # <<>> /\ Top(t).code = "wasm" /\ guard[t] = "none"
        /\ f \in Frame /\ Pushed(t, f)
    BY <1>2, ImportStack
  <2>2. f.code = "host" /\ f.rt = Top(t).rt /\ f.guarded = FALSE
    BY DEF Host
  <2>3. guard' = guard
    BY <1>2 DEF CallImport
  <2>. HIDE DEF f
  <2>4. IF stack[t] = <<>> THEN f.code = "wasm" /\ f.guarded
        ELSE f.code # Top(t).code /\ (f.code = "host" => f.rt = Top(t).rt /\ ~f.guarded)
    BY <2>1, <2>2
  <2>5. AlternatingOn(t)'
    BY <2>1, <2>4, PushedAlternates
  <2>6. GuardedAt(t)'
    BY <2>1, <2>3 DEF GuardedAt
  <2>. QED BY <2>1, <2>3, <2>5, <2>6, OtherParts DEF Pushed
<1>3. ASSUME NEW t \in Threads, SetGlobal(t) \/ ReturnFromImport(t) PROVE Alternating'
  <2>1. guard[t] = "none" /\ \E n : Cut(t, n)
    BY <1>3, WriteStack, BackStack
  <2>2. guard' = guard
    BY <1>3 DEF SetGlobal, ReturnFromImport
  <2>3. AlternatingOn(t)' /\ Others(t)
    BY <2>1, CutAlternates DEF Cut
  <2>4. GuardedAt(t)'
    BY <2>1, <2>2 DEF GuardedAt
  <2>. QED BY <2>2, <2>3, <2>4, OtherParts
<1>4. ASSUME NEW t \in Threads, Leaves(t) PROVE Alternating'
  <2>1. PICK d \in Nat, reg \in Nat : Leaving(t, d, reg)
    BY <1>4, Zenon DEF Leaves
  <2>2. Cut(t, d - 1)
    BY <2>1, LeavingStack
  <2>3. AlternatingOn(t)' /\ Others(t)
    BY <2>2, CutAlternates DEF Cut
  <2>4. \A u \in Threads \ {t} : guard'[u] = guard[u]
    BY <2>1 DEF Leaving, Leave, TypeOK
  <2>5. GuardedAt(t)'
    <3>1. d \in 1 .. Len(stack[t]) /\ stack[t][d].code = "wasm"
      BY <2>1 DEF Leaving
    <3>2. CASE d = 1
      BY <2>2, <3>2, EmptySeq DEF Cut, GuardedAt
    <3>3. CASE d # 1
      <4>1. d \in DOMAIN stack[t] \ {1} /\ d - 1 \in 1 .. Len(stack[t])
        BY <3>1, <3>3, StackFacts
      <4>2. stack[t][d].code # stack[t][d - 1].code
        BY <4>1, Zenon DEF Alternating
      <4>3. stack[t][d - 1].code = "host"
        BY <3>1, <4>1, <4>2, StackFacts, FrameFacts
      <4>4. Len(stack'[t]) = d - 1 /\ Same(stack'[t][d - 1], stack[t][d - 1])
        BY <2>2, <4>1 DEF Cut
      <4>. QED BY <4>3, <4>4 DEF Same, GuardedAt, Top, Depth
    <3>. QED BY <3>2, <3>3
  <2>. QED BY <2>3, <2>4, <2>5, OtherParts
<1>5. CASE StackKept
  <2>1. \E t \in Threads :
           /\ UNCHANGED stack /\ \A u \in Threads \ {t} : guard'[u] = guard[u]
           /\ guard'[t] = guard[t] \/ guard[t] # "none" \/ stack[t] = <<>> \/ Top(t).code = "host"
    <3>1. PICK t \in Threads :
            \/ LeaveGuard(t) \/ Unset(t)
            \/ \E r \in Runtimes : Refuses(t, r) \/ StartWithoutFunction(t, r) \/ SetGlobalFromHost(t, r)
      BY <1>5, Zenon DEF StackKept
    <3>2. CASE LeaveGuard(t) \/ Unset(t)
      BY <3>2 DEF LeaveGuard, Unset, Unguarded, TypeOK
    <3>3. ASSUME NEW r \in Runtimes, SetGlobalFromHost(t, r)
          PROVE  UNCHANGED stack /\ guard' = guard
      BY <3>3 DEF SetGlobalFromHost
    <3>4. ASSUME NEW r \in Runtimes, StartWithoutFunction(t, r)
          PROVE  UNCHANGED stack /\ (\A u \in Threads \ {t} : guard'[u] = guard[u]) /\ stack[t] = <<>>
      BY <3>4, GuardOne DEF StartWithoutFunction, Idle
    <3>5. ASSUME NEW r \in Runtimes, Refuses(t, r)
          PROVE  /\ UNCHANGED stack /\ (\A u \in Threads \ {t} : guard'[u] = guard[u])
                 /\ stack[t] = <<>> \/ Top(t).code = "host"
      BY <3>5, GuardOne DEF Refuses, Refused, Refuse, Calling
    <3>. QED BY <3>1, <3>2, <3>3, <3>4, <3>5
  <2>2. PICK t \in Threads :
           /\ UNCHANGED stack /\ \A u \in Threads \ {t} : guard'[u] = guard[u]
           /\ guard'[t] = guard[t] \/ guard[t] # "none" \/ stack[t] = <<>> \/ Top(t).code = "host"
    BY <2>1
  <2>3. AlternatingOn(t)' /\ GuardedAt(t)'
    BY <2>2, SameParts, AlternatingParts DEF GuardedAt, Top, Depth
  <2>. QED BY <2>2, <2>3, OtherParts DEF Others
<1>6. CASE Outside
  <2>1. UNCHANGED <<stack, guard>>
    BY <1>6 DEF Outside, InitEnvironment, DestroyEnvironment, vars
  <2>. QED BY <2>1 DEF Alternating, Top, Depth
<1>. QED BY <1>1, <1>2, <1>3, <1>4, <1>5, <1>6 DEF Step

(***************************************************************************)
(* One thread at a time executes a module.                                 *)
(***************************************************************************)
LEMMA HostOfModule ==
  ASSUME TypeOK, Alternating, NEW t \in Threads, stack[t] # <<>>
  PROVE  FramesOf(t, Top(t).rt) # {}
<1>1. CASE Top(t).code = "wasm"
  BY <1>1, StackFacts DEF FramesOf
<1>2. CASE Top(t).code = "host"
  <2>1. Len(stack[t]) - 1 \in FramesOf(t, Top(t).rt)
    BY <1>2, HostOnTop, StackFacts DEF FramesOf
  <2>. QED BY <2>1
<1>. QED BY <1>1, <1>2, StackFacts, FrameFacts

LEMMA AloneKept ==
  ASSUME TypeOK, Alternating, Alone, Step
  PROVE  Alone'
<1>1. ASSUME NEW t \in Threads, NEW r \in Runtimes, Enters(t, r) PROVE Alone'
  <2>1. PICK guarded \in BOOLEAN, starting \in BOOLEAN : Calling(t, r, guarded) /\ Enter(t, r, guarded, starting)
    BY <1>1, Zenon DEF Enters
  <2>. DEFINE f == Wasm(r, link[r], Prepared(r), guarded, starting)
  <2>2. f \in Frame /\ Pushed(t, f) /\ f.rt = r
    BY <2>1, EnterStack DEF Wasm
  <2>3. \A u \in Threads \ {t} : FramesOf(u, r) = {}
    BY <2>1 DEF Calling, UsedElsewhere
  <2>. HIDE DEF f
  <2>4. /\ \A u \in Threads, q \in Runtimes : u # t \/ q # r => FramesOf(u, q)' = FramesOf(u, q)
    BY <2>2, PushedFrames
  <2>. QED BY <2>3, <2>4 DEF Alone
<1>2. ASSUME NEW t \in Threads, CallImport(t) PROVE Alone'
  <2>. DEFINE f == Host(Top(t).rt)
  <2>1. f \in Frame /\ Pushed(t, f) /\ f.code = "host"
    BY <1>2, ImportStack DEF Host
  <2>. HIDE DEF f
  <2>2. \A u \in Threads, q \in Runtimes : FramesOf(u, q)' = FramesOf(u, q)
    BY <2>1, PushedFrames
  <2>. QED BY <2>2 DEF Alone
<1>3. ASSUME NEW t \in Threads, SetGlobal(t) \/ ReturnFromImport(t) \/ Leaves(t) PROVE Alone'
  <2>1. \E n : Cut(t, n)
    BY <1>3, WriteStack, BackStack, LeavingStack DEF Leaves
  <2>2. \A u \in Threads, q \in Runtimes : FramesOf(u, q)' \subseteq FramesOf(u, q)
    BY <2>1, CutFrames
  <2>. QED BY <2>2 DEF Alone
<1>4. CASE StackKept \/ Outside
  <2>1. UNCHANGED stack
    BY <1>4 DEF StackKept, Outside, LeaveGuard, Unset, Refuses, Refused, Refuse, StartWithoutFunction,
                SetGlobalFromHost, InitEnvironment, DestroyEnvironment, vars
  <2>. QED BY <2>1 DEF Alone, FramesOf
<1>. QED BY <1>1, <1>2, <1>3, <1>4 DEF Step

(***************************************************************************)
(* Register globals.                                                       *)
(***************************************************************************)
LEMMA RunsUses ==
  ASSUME TypeOK, NEW t \in Threads, NEW r, RunsIn(t, r)
  PROVE  FramesOf(t, r) # {}
<1>1. Len(stack[t]) \in FramesOf(t, r)
  BY StackFacts DEF RunsIn, FramesOf
<1>. QED BY <1>1

\* a thread whose stack and guard stay runs where it ran
LEMMA RunsOther ==
  ASSUME NEW t, stack'[t] = stack[t], guard'[t] = guard[t]
  PROVE  \A r : (RunsIn(t, r)' <=> RunsIn(t, r)) /\ (stack'[t] # <<>> => Top(t)' = Top(t))
  BY DEF RunsIn, Top, Depth

LEMMA GlobalsStep ==
  ASSUME TypeOK, GlobalsKept, Alone, NEW t \in Threads, NEW r \in Runtimes,
         Others(t), \A u \in Threads \ {t} : guard'[u] = guard[u],
         \A u \in Threads \ {t} : ~RunsIn(u, r),
         \A q \in Runtimes \ {r} :
           link'[q] = link[q] /\ latest'[q] = latest[q] /\ ~RunsIn(t, q) /\ ~RunsIn(t, q)',
         IF RunsIn(t, r)' THEN Top(t)'.reg = latest'[r] ELSE link'[r] = latest'[r]
  PROVE  GlobalsKept'
<1>1. \A u \in Threads \ {t} : \A q :
        (RunsIn(u, q)' <=> RunsIn(u, q)) /\ (RunsIn(u, q) => Top(u)' = Top(u))
  <2>. TAKE u \in Threads \ {t}
  <2>. TAKE q
  <2>1. stack'[u] = stack[u] /\ guard'[u] = guard[u]
    BY DEF Others
  <2>. QED BY <2>1, RunsOther DEF RunsIn
<1>2. ASSUME NEW q \in Runtimes
      PROVE  IF \E u \in Threads : RunsIn(u, q)'
             THEN \A u \in Threads : RunsIn(u, q)' => Top(u)'.reg = latest'[q]
             ELSE link'[q] = latest'[q]
  <2>1. CASE q = r
    BY <1>1, <2>1
  <2>2. CASE q # r
    BY <1>1, <2>2 DEF GlobalsKept
  <2>. QED BY <2>1, <2>2
<1>. QED BY <1>2 DEF GlobalsKept

LEMMA RunsAlone ==
  ASSUME TypeOK, Alone, NEW t \in Threads, NEW r \in Runtimes, FramesOf(t, r) # {}
  PROVE  \A u \in Threads \ {t} : ~RunsIn(u, r)
<1>. SUFFICES ASSUME NEW u \in Threads \ {t}, RunsIn(u, r) PROVE FALSE
  OBVIOUS
<1>1. FramesOf(u, r) # {}
  BY RunsUses
<1>. QED BY <1>1 DEF Alone

LEMMA GlobalsEnter ==
  ASSUME TypeOK, Alternating, Alone, GlobalsKept,
         NEW t \in Threads, NEW r \in Runtimes, Enters(t, r)
  PROVE  GlobalsKept'
<1>1. PICK guarded \in BOOLEAN, starting \in BOOLEAN : Calling(t, r, guarded) /\ Enter(t, r, guarded, starting)
  BY Zenon DEF Enters
<1>. DEFINE f == Wasm(r, link[r], Prepared(r), guarded, starting)
<1>2. f \in Frame /\ Pushed(t, f) /\ f.rt = r /\ f.code = "wasm" /\ f.reg = link[r]
  BY <1>1, EnterStack DEF Wasm
<1>3. guard' = guard /\ link' = link /\ latest' = latest
  BY <1>1 DEF Enter
<1>4. \A u \in Threads : ~RunsIn(u, r)
  <2>1. ASSUME NEW u \in Threads \ {t}, RunsIn(u, r) PROVE FALSE
    BY <1>1, <2>1, RunsUses DEF Calling, UsedElsewhere
  <2>2. ~RunsIn(t, r)
    BY <1>1 DEF Calling, RunsIn
  <2>. QED BY <2>1, <2>2
<1>5. \A q : ~RunsIn(t, q)
  BY <1>1 DEF Calling, RunsIn
<1>. HIDE DEF f
<1>6. Top(t)' = f
  BY <1>2, LenProperties DEF Pushed, Top, Depth
<1>7. \A q \in Runtimes \ {r} : ~RunsIn(t, q)'
  BY <1>2, <1>6 DEF RunsIn
<1>8. Top(t)'.reg = latest'[r] /\ link'[r] = latest'[r]
  BY <1>2, <1>3, <1>4, <1>6 DEF GlobalsKept
<1>. QED BY <1>2, <1>3, <1>4, <1>5, <1>7, <1>8, GlobalsStep DEF Pushed

LEMMA GlobalsImport ==
  ASSUME TypeOK, Alternating, Alone, GlobalsKept, NEW t \in Threads, CallImport(t)
  PROVE  GlobalsKept'
<1>0. PICK r \in Runtimes : r = Top(t).rt
  BY ImportStack
<1>. DEFINE f == Host(r)
<1>1. /\ stack[t] # <<>> /\ Top(t) \in Frame /\ r \in Runtimes /\ Top(t).code = "wasm"
      /\ guard[t] = "none" /\ f \in Frame /\ Pushed(t, f) /\ f.code = "host"
  BY <1>0, ImportStack DEF Host
<1>2. /\ guard' = guard /\ latest' = latest
      /\ link'[r] = Top(t).reg /\ \A q \in Runtimes \ {r} : link'[q] = link[q]
  BY <1>0 DEF CallImport, TypeOK
<1>3. RunsIn(t, r) /\ \A q \in Runtimes \ {r} : ~RunsIn(t, q)
  BY <1>0, <1>1 DEF RunsIn
<1>4. \A u \in Threads \ {t} : ~RunsIn(u, r)
  BY <1>1, <1>3, RunsUses, RunsAlone
<1>. HIDE DEF f
<1>5. Top(t)' = f
  BY <1>1, LenProperties DEF Pushed, Top, Depth
<1>6. \A q : ~RunsIn(t, q)'
  BY <1>1, <1>5 DEF RunsIn
<1>7. link'[r] = latest'[r]
  BY <1>1, <1>2, <1>3 DEF GlobalsKept
<1>. QED BY <1>1, <1>2, <1>3, <1>4, <1>6, <1>7, GlobalsStep DEF Pushed

LEMMA GlobalsWrite ==
  ASSUME TypeOK, Alternating, Alone, GlobalsKept, NEW t \in Threads, SetGlobal(t)
  PROVE  GlobalsKept'
<1>0. PICK r \in Runtimes : r = Top(t).rt
  BY WriteStack
<1>1. /\ stack[t] # <<>> /\ Top(t) \in Frame /\ r \in Runtimes /\ Top(t).code = "wasm"
      /\ guard[t] = "none" /\ Cut(t, Depth(t))
      /\ \A i \in 1 .. Depth(t) :
           stack'[t][i].reg = IF i = Depth(t) THEN Written(r) ELSE stack[t][i].reg
  BY <1>0, WriteStack
<1>2. guard' = guard /\ link' = link /\ latest' = [latest EXCEPT ![r] = Written(r)]
  BY <1>0 DEF SetGlobal
<1>3. RunsIn(t, r) /\ \A q \in Runtimes \ {r} : ~RunsIn(t, q)
  BY <1>0, <1>1 DEF RunsIn
<1>4. \A u \in Threads \ {t} : ~RunsIn(u, r)
  BY <1>1, <1>3, RunsUses, RunsAlone
<1>5. latest'[r] = Written(r) /\ \A q \in Runtimes \ {r} : latest'[q] = latest[q]
  BY <1>1, <1>2 DEF TypeOK
<1>6. Depth(t) \in 1 .. Len(stack[t]) /\ Top(t)' = stack'[t][Depth(t)] /\ stack'[t] # <<>> /\ Top(t) = stack[t][Depth(t)]
  BY <1>1, StackFacts, EmptySeq DEF Cut, Top, Depth
<1>7. Top(t)'.code = "wasm" /\ Top(t)'.rt = r /\ Top(t)'.reg = Written(r)
  BY <1>0, <1>1, <1>6, StackFacts DEF Cut, Same
<1>8. RunsIn(t, r)' /\ \A q \in Runtimes \ {r} : ~RunsIn(t, q)'
  BY <1>1, <1>2, <1>6, <1>7 DEF RunsIn
<1>. QED BY <1>1, <1>2, <1>3, <1>4, <1>5, <1>7, <1>8, GlobalsStep DEF Cut

LEMMA GlobalsBack ==
  ASSUME TypeOK, Alternating, Alone, GlobalsKept, NEW t \in Threads, ReturnFromImport(t)
  PROVE  GlobalsKept'
<1>0. PICK r \in Runtimes : r = Top(t).rt
  BY BackStack
<1>n. PICK n \in Nat : n = Depth(t) - 1
  BY BackStack, StackFacts
<1>1. /\ stack[t] # <<>> /\ Top(t) \in Frame /\ r \in Runtimes /\ Top(t).code = "host"
      /\ guard[t] = "none" /\ Depth(t) >= 2 /\ Cut(t, n)
      /\ stack[t][n].code = "wasm" /\ stack[t][n].rt = r
      /\ \A i \in 1 .. n : stack'[t][i].reg = IF i = n THEN link[r] ELSE stack[t][i].reg
  BY <1>0, <1>n, BackStack
<1>2. guard' = guard /\ UNCHANGED runtimeVars
  BY Zenon DEF ReturnFromImport
<1>9. link' = link /\ latest' = latest
  BY <1>2 DEF runtimeVars
<1>3. \A q : ~RunsIn(t, q)
  BY <1>1 DEF RunsIn
<1>4. \A u \in Threads \ {t} : ~RunsIn(u, r)
  BY <1>0, <1>1, HostOfModule, RunsAlone
<1>5. n \in 1 .. n /\ Top(t)' = stack'[t][n] /\ stack'[t] # <<>>
  BY <1>n, <1>1, StackFacts, EmptySeq DEF Cut, Top, Depth
<1>6. Top(t)'.code = "wasm" /\ Top(t)'.rt = r /\ Top(t)'.reg = link[r]
  BY <1>1, <1>5 DEF Cut, Same
<1>7. RunsIn(t, r)' /\ \A q \in Runtimes \ {r} : ~RunsIn(t, q)'
  BY <1>1, <1>2, <1>5, <1>6 DEF RunsIn
<1>8. link[r] = latest[r]
  BY <1>1, <1>3, <1>4 DEF GlobalsKept
<1>. QED BY <1>1, <1>2, <1>9, <1>3, <1>4, <1>6, <1>7, <1>8, GlobalsStep DEF Cut

LEMMA LeavingFacts ==
  ASSUME TypeOK, Alternating, NEW t \in Threads, NEW d, NEW reg, Leaving(t, d, reg)
  PROVE  /\ d \in 1 .. Len(stack[t]) /\ stack[t][d] \in Frame /\ stack[t][d].rt \in Runtimes
         /\ stack[t] # <<>> /\ d \in FramesOf(t, stack[t][d].rt)
         /\ stack'[t] # <<>> => Top(t)'.code = "host"
<1>1. d \in 1 .. Len(stack[t]) /\ stack[t][d].code = "wasm"
  BY DEF Leaving
<1>2. stack[t][d] \in Frame /\ stack[t][d].rt \in Runtimes /\ stack[t] # <<>> /\ Len(stack[t]) \in Nat
  BY <1>1, StackFacts, FrameFacts
<1>3. d \in FramesOf(t, stack[t][d].rt)
  BY <1>1, StackFacts DEF FramesOf
<1>4. ASSUME stack'[t] # <<>> PROVE Top(t)'.code = "host"
  <2>1. Cut(t, d - 1)
    BY LeavingStack
  <2>2. d # 1
    BY <1>4, <2>1, EmptySeq DEF Cut
  <2>3. d \in DOMAIN stack[t] \ {1} /\ d - 1 \in 1 .. Len(stack[t])
    BY <1>1, <1>2, <2>2, StackFacts
  <2>4. stack[t][d].code # stack[t][d - 1].code
    BY <2>3, Zenon DEF Alternating
  <2>5. stack[t][d - 1].code = "host"
    BY <1>1, <2>3, <2>4, StackFacts, FrameFacts
  <2>6. Len(stack'[t]) = d - 1 /\ Same(stack'[t][d - 1], stack[t][d - 1])
    BY <2>1, <2>3 DEF Cut
  <2>. QED BY <2>5, <2>6 DEF Same, Top, Depth
<1>. QED BY <1>1, <1>2, <1>3, <1>4

LEMMA GlobalsLeave ==
  ASSUME TypeOK, Alternating, Alone, GlobalsKept, NEW t \in Threads, Leaves(t)
  PROVE  GlobalsKept'
<1>1. PICK d \in Nat, reg \in Nat : Leaving(t, d, reg)
  BY Zenon DEF Leaves
<1>2. PICK r \in Runtimes : r = stack[t][d].rt
  BY <1>1, LeavingFacts
<1>3. /\ stack[t] # <<>> /\ FramesOf(t, r) # {}
      /\ stack'[t] # <<>> => Top(t)'.code = "host"
  BY <1>1, <1>2, LeavingFacts
<1>4. guard[t] = "none" /\ (Top(t).code = "host" \/ Top(t).rt = r) /\ reg \in 0 .. MaxWrites
  BY <1>1, <1>2 DEF Leaving
<1>5. link' = [link EXCEPT ![r] = reg] /\ latest' = [latest EXCEPT ![r] = reg]
  BY <1>1, <1>2 DEF Leaving, Leave
<1>6. link'[r] = latest'[r] /\ \A q \in Runtimes \ {r} : link'[q] = link[q] /\ latest'[q] = latest[q]
  BY <1>5 DEF TypeOK
<1>7. \A u \in Threads \ {t} : guard'[u] = guard[u]
  BY <1>1 DEF Leaving, Leave, TypeOK
<1>8. \A u \in Threads \ {t} : ~RunsIn(u, r)
  BY <1>3, RunsAlone
<1>9. /\ \A q \in Runtimes \ {r} : ~RunsIn(t, q)
      /\ \A q : ~RunsIn(t, q)'
  BY <1>3, <1>4 DEF RunsIn
<1>10. Others(t)
  BY <1>1, LeavingStack DEF Cut
<1>. QED BY <1>6, <1>7, <1>8, <1>9, <1>10, GlobalsStep

LEMMA GlobalsFromHost ==
  ASSUME TypeOK, Alternating, Alone, GlobalsKept,
         NEW t \in Threads, NEW r \in Runtimes, SetGlobalFromHost(t, r)
  PROVE  GlobalsKept'
<1>1. UNCHANGED <<stack, guard>> /\ link' = [link EXCEPT ![r] = Written(r)] /\ latest' = [latest EXCEPT ![r] = Written(r)]
  BY DEF SetGlobalFromHost
<1>2. link'[r] = latest'[r] /\ \A q \in Runtimes \ {r} : link'[q] = link[q] /\ latest'[q] = latest[q]
  BY <1>1 DEF TypeOK
<1>3. /\ \A u \in Threads \ {t} : ~RunsIn(u, r)
      /\ \A q : ~RunsIn(t, q)
  <2>1. CASE Idle(t) /\ ~UsedElsewhere(t, r)
    <3>1. \A u \in Threads \ {t} : FramesOf(u, r) = {}
      BY <2>1 DEF UsedElsewhere
    <3>. QED BY <2>1, <3>1, RunsUses DEF Idle, RunsIn
  <2>2. CASE Runs(t, "host") /\ Top(t).rt = r
    <3>1. FramesOf(t, r) # {}
      BY <2>2, HostOfModule DEF Runs
    <3>. QED BY <2>2, <3>1, RunsAlone DEF Runs, RunsIn
  <2>. QED BY <2>1, <2>2 DEF SetGlobalFromHost
<1>4. \A q : ~RunsIn(t, q)'
  BY <1>1, <1>3 DEF RunsIn, Top, Depth
<1>. QED BY <1>1, <1>2, <1>3, <1>4, GlobalsStep DEF Others

LEMMA GlobalsStay ==
  ASSUME TypeOK, GlobalsKept, UNCHANGED <<stack, link, latest>>,
         \A u \in Threads : guard'[u] = guard[u] \/ stack[u] = <<>> \/ Top(u).code = "host"
  PROVE  GlobalsKept'
<1>1. \A u \in Threads, q \in Runtimes : (RunsIn(u, q)' <=> RunsIn(u, q)) /\ Top(u)' = Top(u)
  BY DEF RunsIn, Top, Depth
<1>. QED BY <1>1 DEF GlobalsKept

LEMMA GlobalsPreserved ==
  ASSUME TypeOK, Alternating, Alone, GlobalsKept, Step
  PROVE  GlobalsKept'
<1>1. ASSUME NEW t \in Threads, LeaveGuard(t) \/ Unset(t) PROVE GlobalsKept'
  <2>1. UNCHANGED <<stack, link, latest>>
    BY <1>1 DEF LeaveGuard, Unset, runtimeVars
  <2>2. guard[t] # "none" /\ \A u \in Threads \ {t} : guard'[u] = guard[u]
    BY <1>1 DEF LeaveGuard, Unset, Unguarded, TypeOK
  <2>. QED BY <2>1, <2>2, GlobalsStay DEF Alternating
<1>2. ASSUME NEW t \in Threads, NEW r \in Runtimes, Refuses(t, r) \/ StartWithoutFunction(t, r) PROVE GlobalsKept'
  <2>1. UNCHANGED <<stack, link, latest>>
    BY <1>2 DEF Refuses, Refused, Refuse, StartWithoutFunction
  <2>2. /\ stack[t] = <<>> \/ Top(t).code = "host"
        /\ \A u \in Threads \ {t} : guard'[u] = guard[u]
    BY <1>2, GuardOne DEF Refuses, Refused, Refuse, Calling, StartWithoutFunction, Idle
  <2>. QED BY <2>1, <2>2, GlobalsStay
<1>3. CASE Outside
  <2>1. UNCHANGED <<stack, link, latest, guard>>
    BY <1>3 DEF Outside, InitEnvironment, DestroyEnvironment, vars, runtimeVars
  <2>. QED BY <2>1, GlobalsStay
<1>4. CASE StackKept
  BY <1>1, <1>2, <1>4, GlobalsFromHost DEF StackKept
<1>. QED BY <1>3, <1>4, GlobalsEnter, GlobalsImport, GlobalsWrite, GlobalsBack, GlobalsLeave DEF Step

(***************************************************************************)
(* The thread's runtime.                                                   *)
(***************************************************************************)
NamedOn(t) ==
  guard[t] = "none" /\ stack[t] # <<>> =>
    \E g \in DOMAIN stack[t] :
      /\ stack[t][g].guarded /\ stack[t][g].rt = pRuntime[t]
      /\ \A i \in DOMAIN stack[t] : stack[t][i].guarded => i <= g

LEMMA NamedStep ==
  ASSUME Named, NEW t \in Threads, Others(t),
         \A u \in Threads \ {t} : guard'[u] = guard[u] /\ pRuntime'[u] = pRuntime[u],
         unnamed \ {t} \subseteq unnamed', t \in unnamed' \/ NamedOn(t)'
  PROVE  Named'
<1>1. ASSUME NEW u \in Threads, u \notin unnamed', u # t PROVE NamedOn(u)'
  <2>1. NamedOn(u) /\ stack'[u] = stack[u] /\ guard'[u] = guard[u] /\ pRuntime'[u] = pRuntime[u]
    BY <1>1, Zenon DEF Named, NamedOn, Others
  <2>. QED BY <2>1 DEF NamedOn
<1>. QED BY <1>1, Zenon DEF Named, NamedOn

\* an unguarded frame is pushed on frames of the thread
LEMMA NamedPush ==
  ASSUME TypeOK, Named, NEW t \in Threads, NEW f \in Frame, Pushed(t, f), ~f.guarded,
         guard[t] = "none", stack[t] # <<>>, UNCHANGED <<guard, pRuntime, unnamed>>
  PROVE  Named'
<1>. DEFINE n == Len(stack[t])
<1>1. /\ n \in Nat /\ DOMAIN stack[t] = 1 .. n /\ DOMAIN stack'[t] = 1 .. n + 1
      /\ \A i \in 1 .. n : stack'[t][i] = stack[t][i]
      /\ stack'[t][n + 1] = f
  BY StackFacts, LenProperties DEF Pushed
<1>. HIDE DEF n
<1>2. CASE t \notin unnamed
  <2>1. PICK g \in DOMAIN stack[t] :
          /\ stack[t][g].guarded /\ stack[t][g].rt = pRuntime[t]
          /\ \A i \in DOMAIN stack[t] : stack[t][i].guarded => i <= g
    BY <1>2, Zenon DEF Named
  <2>2. g \in 1 .. n /\ g \in 1 .. n + 1 /\ stack'[t][g] = stack[t][g]
    BY <1>1
  <2>3. \A i \in 1 .. n + 1 : i = n + 1 \/ (i \in 1 .. n /\ stack'[t][i] = stack[t][i])
    BY <1>1
  <2>4. /\ g \in DOMAIN stack'[t] /\ stack'[t][g].guarded /\ stack'[t][g].rt = pRuntime'[t]
        /\ \A i \in DOMAIN stack'[t] : stack'[t][i].guarded => i <= g
    BY <1>1, <2>1, <2>2, <2>3, Zenon
  <2>. QED BY <2>4, NamedStep DEF NamedOn, Pushed
<1>3. CASE t \in unnamed
  BY <1>3, NamedStep DEF Pushed
<1>. QED BY <1>2, <1>3

LEMMA NamedEnter ==
  ASSUME TypeOK, Named, NEW t \in Threads, NEW r \in Runtimes, Enters(t, r)
  PROVE  Named'
<1>1. PICK guarded \in BOOLEAN, starting \in BOOLEAN : Calling(t, r, guarded) /\ Enter(t, r, guarded, starting)
  BY Zenon DEF Enters
<1>. DEFINE f == Wasm(r, link[r], Prepared(r), guarded, starting)
            n == Len(stack[t])
<1>2. f \in Frame /\ Pushed(t, f) /\ f.rt = r
  BY <1>1, EnterStack DEF Wasm
<1>3. f.guarded <=> guarded
  BY DEF Wasm
<1>. HIDE DEF f
<1>4. guard' = guard /\ unnamed' = unnamed
  BY <1>1 DEF Enter, history
<1>5. CASE ~guarded
  <2>1. guard[t] = "none" /\ stack[t] # <<>> /\ pRuntime' = pRuntime
    BY <1>1, <1>5 DEF Calling
  <2>. QED BY <1>2, <1>3, <1>4, <1>5, <2>1, NamedPush
<1>6. CASE guarded
  <2>1. pRuntime' = [pRuntime EXCEPT ![t] = r]
    BY <1>1, <1>6 DEF Calling, Guarded
  <2>2. pRuntime'[t] = r /\ \A u \in Threads \ {t} : pRuntime'[u] = pRuntime[u]
    BY <2>1 DEF TypeOK
  <2>3. n + 1 \in DOMAIN stack'[t] /\ stack'[t][n + 1] = f /\ \A i \in DOMAIN stack'[t] : i <= n + 1
    BY <1>2, StackFacts, LenProperties DEF Pushed
  <2>4. stack'[t][n + 1].guarded /\ stack'[t][n + 1].rt = pRuntime'[t]
    BY <1>2, <1>3, <1>6, <2>2, <2>3, Zenon
  <2>5. NamedOn(t)'
    BY <2>3, <2>4 DEF NamedOn
  <2>. QED BY <1>2, <1>4, <2>2, <2>5, NamedStep DEF Pushed
<1>. QED BY <1>5, <1>6

\* the stack is cut, but no guarded frame is cut off
LEMMA NamedCut ==
  ASSUME TypeOK, Named, NEW t \in Threads, NEW n, Cut(t, n), guard[t] = "none",
         UNCHANGED pRuntime, unnamed \subseteq unnamed', t \notin unnamed' /\ guard'[t] = "none" /\ stack'[t] # <<>> =>
           (stack[t] # <<>> /\ \A i \in n + 1 .. Len(stack[t]) : ~stack[t][i].guarded),
         \A u \in Threads \ {t} : guard'[u] = guard[u]
  PROVE  Named'
<1>1. /\ Len(stack[t]) \in Nat /\ DOMAIN stack[t] = 1 .. Len(stack[t]) /\ DOMAIN stack'[t] = 1 .. n /\ n \in 0 .. Len(stack[t])
      /\ \A i \in 1 .. n : stack'[t][i].rt = stack[t][i].rt /\ stack'[t][i].guarded = stack[t][i].guarded
  BY StackFacts, LenProperties DEF Cut, Same
<1>2. ASSUME t \notin unnamed', guard'[t] = "none", stack'[t] # <<>> PROVE NamedOn(t)'
  <2>1. t \notin unnamed /\ stack[t] # <<>> /\ \A i \in n + 1 .. Len(stack[t]) : ~stack[t][i].guarded
    BY <1>2
  <2>2. PICK g \in DOMAIN stack[t] :
          /\ stack[t][g].guarded /\ stack[t][g].rt = pRuntime[t]
          /\ \A i \in DOMAIN stack[t] : stack[t][i].guarded => i <= g
    BY <2>1, Zenon DEF Named
  <2>3. /\ g \in DOMAIN stack'[t] /\ stack'[t][g].guarded /\ stack'[t][g].rt = pRuntime'[t]
        /\ \A i \in DOMAIN stack'[t] : stack'[t][i].guarded => i <= g
    BY <1>1, <2>1, <2>2
  <2>. QED BY <2>3 DEF NamedOn
<1>3. t \in unnamed' \/ NamedOn(t)'
  BY <1>2 DEF NamedOn
<1>. QED BY <1>3, NamedStep DEF Cut

LEMMA NamedLeave ==
  ASSUME TypeOK, Alternating, Named, NEW t \in Threads, Leaves(t)
  PROVE  Named'
<1>1. PICK d \in Nat, reg \in Nat : Leaving(t, d, reg)
  BY Zenon DEF Leaves
<1>. DEFINE past == {i \in d + 1 .. Depth(t) : stack[t][i].guarded}
<1>2. Cut(t, d - 1) /\ d \in 1 .. Len(stack[t]) /\ stack[t] # <<>> /\ stack[t][d] \in Frame
  BY <1>1, LeavingStack, LeavingFacts
<1>3. /\ guard[t] = "none" /\ UNCHANGED pRuntime
      /\ guard' = [guard EXCEPT ![t] = IF stack[t][d].guarded THEN "leaving" ELSE @]
      /\ unnamed' = IF past = {} THEN unnamed ELSE unnamed \union {t}
  BY <1>1 DEF Leaving, Leave
<1>4. guard'[t] = (IF stack[t][d].guarded THEN "leaving" ELSE "none") /\ \A u \in Threads \ {t} : guard'[u] = guard[u]
  BY <1>3 DEF TypeOK
<1>5. ASSUME t \notin unnamed', guard'[t] = "none"
      PROVE  \A i \in d - 1 + 1 .. Len(stack[t]) : ~stack[t][i].guarded
  <2>1. past = {} /\ ~stack[t][d].guarded
    BY <1>3, <1>4, <1>5
  <2>2. \A i \in d + 1 .. Len(stack[t]) : ~stack[t][i].guarded
    BY <2>1, StackFacts
  <2>3. \A i \in d - 1 + 1 .. Len(stack[t]) : i = d \/ i \in d + 1 .. Len(stack[t])
    BY <1>2, StackFacts
  <2>. QED BY <2>1, <2>2, <2>3, Zenon
<1>6. unnamed \subseteq unnamed'
  BY <1>3
<1>. HIDE DEF past
<1>. QED BY <1>2, <1>3, <1>4, <1>5, <1>6, NamedCut

LEMMA NamedKept ==
  ASSUME TypeOK, Alternating, Named, Step
  PROVE  Named'
<1>1. ASSUME NEW t \in Threads, CallImport(t) PROVE Named'
  <2>1. /\ stack[t] # <<>> /\ guard[t] = "none"
        /\ Host(Top(t).rt) \in Frame /\ Pushed(t, Host(Top(t).rt))
    BY <1>1, ImportStack
  <2>2. ~Host(Top(t).rt).guarded
    BY DEF Host
  <2>3. UNCHANGED <<guard, pRuntime, unnamed>>
    BY <1>1 DEF CallImport, history
  <2>. QED BY <2>1, <2>2, <2>3, NamedPush
<1>2. ASSUME NEW t \in Threads, SetGlobal(t) PROVE Named'
  <2>1. guard[t] = "none" /\ stack[t] # <<>> /\ Cut(t, Depth(t)) /\ Depth(t) = Len(stack[t]) /\ Len(stack[t]) \in Nat
    BY <1>2, WriteStack, StackFacts
  <2>2. UNCHANGED <<guard, pRuntime, unnamed>>
    BY <1>2 DEF SetGlobal, history
  <2>3. \A i \in Depth(t) + 1 .. Len(stack[t]) : ~stack[t][i].guarded
    BY <2>1
  <2>. QED BY <2>1, <2>2, <2>3, NamedCut
<1>3. ASSUME NEW t \in Threads, ReturnFromImport(t) PROVE Named'
  <2>1. /\ guard[t] = "none" /\ stack[t] # <<>> /\ Depth(t) >= 2 /\ Cut(t, Depth(t) - 1)
        /\ Top(t).code = "host"
    BY <1>3, BackStack
  <2>2. UNCHANGED <<guard, pRuntime, unnamed>>
    BY <1>3, Zenon DEF ReturnFromImport, history
  <2>3. Len(stack[t]) \in DOMAIN stack[t] \ {1} /\ stack[t][Len(stack[t])].code = "host"
    BY <2>1, StackFacts
  <2>4. ~stack[t][Len(stack[t])].guarded
    BY <2>3, Zenon DEF Alternating
  <2>5. \A i \in Depth(t) - 1 + 1 .. Len(stack[t]) : i = Len(stack[t])
    BY StackFacts
  <2>6. \A i \in Depth(t) - 1 + 1 .. Len(stack[t]) : ~stack[t][i].guarded
    BY <2>4, <2>5, Zenon
  <2>. QED BY <2>1, <2>2, <2>6, NamedCut
<1>4. ASSUME NEW t \in Threads, LeaveGuard(t) \/ Unset(t) PROVE Named'
  <2>1. /\ UNCHANGED stack
        /\ \/ Unguarded(t)
           \/ guard' = [guard EXCEPT ![t] = "unsetting"] /\ UNCHANGED <<pRuntime, unnamed>>
    BY <1>4 DEF LeaveGuard, Unset
  <2>2. /\ \A u \in Threads \ {t} : guard'[u] = guard[u] /\ pRuntime'[u] = pRuntime[u]
        /\ unnamed \ {t} \subseteq unnamed'
        /\ t \in unnamed' \/ stack[t] = <<>> \/ guard'[t] # "none"
    BY <2>1 DEF Unguarded, TypeOK
  <2>. QED BY <2>1, <2>2, NamedStep DEF Others, NamedOn
<1>5. ASSUME NEW t \in Threads, NEW r \in Runtimes, Refuses(t, r) PROVE Named'
  <2>1. PICK guarded \in BOOLEAN : Calling(t, r, guarded) /\ Refuse(t, r, guarded)
    BY <1>5, Zenon DEF Refuses, Refused
  <2>2. UNCHANGED <<stack, unnamed>> /\ guard' = [guard EXCEPT ![t] = IF guarded THEN "leaving" ELSE @]
    BY <2>1 DEF Refuse, history
  <2>3. CASE guarded
    <3>1. pRuntime' = [pRuntime EXCEPT ![t] = r]
      BY <2>1, <2>3 DEF Calling, Guarded
    <3>2. /\ \A u \in Threads \ {t} : guard'[u] = guard[u] /\ pRuntime'[u] = pRuntime[u]
          /\ guard'[t] # "none"
      BY <2>2, <2>3, <3>1 DEF TypeOK
    <3>. QED BY <2>2, <3>2, NamedStep DEF Others, NamedOn
  <2>4. CASE ~guarded
    <3>1. UNCHANGED <<stack, unnamed, guard, pRuntime>>
      BY <2>1, <2>2, <2>4 DEF Calling, TypeOK
    <3>. QED BY <3>1 DEF Named
  <2>. QED BY <2>3, <2>4
<1>6. ASSUME NEW t \in Threads, NEW r \in Runtimes, StartWithoutFunction(t, r) PROVE Named'
  <2>1. /\ UNCHANGED <<stack, unnamed>> /\ stack[t] = <<>>
        /\ guard' = [guard EXCEPT ![t] = "leaving"] /\ pRuntime' = [pRuntime EXCEPT ![t] = r]
    BY <1>6 DEF StartWithoutFunction, Idle, Guarded, history
  <2>2. \A u \in Threads \ {t} : guard'[u] = guard[u] /\ pRuntime'[u] = pRuntime[u]
    BY <2>1 DEF TypeOK
  <2>. QED BY <2>1, <2>2, NamedStep DEF Others, NamedOn
<1>7. ASSUME NEW t \in Threads, NEW r \in Runtimes, SetGlobalFromHost(t, r) PROVE Named'
  <2>1. UNCHANGED <<stack, unnamed, guard, pRuntime>>
    BY <1>7 DEF SetGlobalFromHost, history
  <2>. QED BY <2>1 DEF Named
<1>8. CASE Outside
  <2>1. UNCHANGED <<stack, unnamed, guard>> /\ UNCHANGED pRuntime
    BY <1>8 DEF Outside, InitEnvironment, DestroyEnvironment, vars, history
  <2>. QED BY <2>1 DEF Named
<1>9. CASE StackKept
  BY <1>4, <1>5, <1>6, <1>7, <1>9 DEF StackKept
<1>. QED BY <1>1, <1>2, <1>3, <1>8, <1>9, NamedEnter, NamedLeave DEF Step

(***************************************************************************)
(* How the guards to be given back change.                                 *)
(***************************************************************************)
LEMMA PairSets ==
  ASSUME NEW A \in SUBSET (Threads \X (0 .. MaxDepth)), NEW B \in SUBSET (Threads \X (0 .. MaxDepth)),
         \A u \in Threads, i \in 0 .. MaxDepth : <<u, i>> \in A <=> <<u, i>> \in B
  PROVE  A = B
  OBVIOUS

LEMMA Pairs ==
  /\ Outstanding \in SUBSET (Threads \X (0 .. MaxDepth))
  /\ \A u \in Threads, i \in 0 .. MaxDepth : <<u, i>> \in Outstanding <=> Owes(u, i)
  BY DEF Outstanding

LEMMA PairsNext ==
  /\ Outstanding' \in SUBSET (Threads \X (0 .. MaxDepth))
  /\ \A u \in Threads, i \in 0 .. MaxDepth : <<u, i>> \in Outstanding' <=> Owes(u, i)'
  BY DEF Outstanding

LEMMA OwesSame ==
  ASSUME \A u \in Threads, i \in 0 .. MaxDepth : Owes(u, i)' <=> Owes(u, i)
  PROVE  Outstanding' = Outstanding
<1>1. \A u \in Threads, i \in 0 .. MaxDepth : <<u, i>> \in Outstanding' <=> <<u, i>> \in Outstanding
  BY Pairs, PairsNext, Zenon
<1>. QED BY <1>1, Pairs, PairsNext, PairSets, Zenon

LEMMA OwesMore ==
  ASSUME NEW t \in Threads, NEW k \in 0 .. MaxDepth, ~Owes(t, k), Owes(t, k)',
         \A u \in Threads, i \in 0 .. MaxDepth : u # t \/ i # k => (Owes(u, i)' <=> Owes(u, i)),
         IsFiniteSet(Outstanding)
  PROVE  IsFiniteSet(Outstanding') /\ Cardinality(Outstanding') = Cardinality(Outstanding) + 1
<1>. DEFINE more == Outstanding \union {<<t, k>>}
<1>1. <<t, k>> \notin Outstanding
  BY Pairs, Zenon
<1>2. more \in SUBSET (Threads \X (0 .. MaxDepth))
  BY Pairs
<1>3. \A u \in Threads, i \in 0 .. MaxDepth : <<u, i>> \in more <=> <<u, i>> \in Outstanding \/ (u = t /\ i = k)
  OBVIOUS
<1>. HIDE DEF more
<1>4. \A u \in Threads, i \in 0 .. MaxDepth : <<u, i>> \in Outstanding' <=> <<u, i>> \in more
  <2>. TAKE u \in Threads, i \in 0 .. MaxDepth
  <2>1. /\ <<u, i>> \in Outstanding' <=> Owes(u, i)'
        /\ <<u, i>> \in Outstanding <=> Owes(u, i)
    BY Pairs, PairsNext, Zenon
  <2>2. CASE u = t /\ i = k
    BY <1>3, <2>1, <2>2, Zenon
  <2>3. CASE u # t \/ i # k
    BY <1>3, <2>1, <2>3, Zenon
  <2>. QED BY <2>2, <2>3, Zenon
<1>5. Outstanding' = more
  BY <1>2, <1>4, PairsNext, PairSets, Zenon
<1>. QED BY <1>1, <1>5, FS_AddElement DEF more

LEMMA OwesLess ==
  ASSUME NEW t \in Threads, NEW k \in 0 .. MaxDepth, Owes(t, k), ~(Owes(t, k)'),
         \A u \in Threads, i \in 0 .. MaxDepth : u # t \/ i # k => (Owes(u, i)' <=> Owes(u, i)),
         IsFiniteSet(Outstanding)
  PROVE  IsFiniteSet(Outstanding') /\ Cardinality(Outstanding') = Cardinality(Outstanding) - 1
<1>. DEFINE less == Outstanding \ {<<t, k>>}
<1>1. <<t, k>> \in Outstanding
  BY Pairs, Zenon
<1>2. less \in SUBSET (Threads \X (0 .. MaxDepth))
  BY Pairs
<1>3. \A u \in Threads, i \in 0 .. MaxDepth : <<u, i>> \in less <=> <<u, i>> \in Outstanding /\ ~(u = t /\ i = k)
  OBVIOUS
<1>. HIDE DEF less
<1>4. \A u \in Threads, i \in 0 .. MaxDepth : <<u, i>> \in Outstanding' <=> <<u, i>> \in less
  <2>. TAKE u \in Threads, i \in 0 .. MaxDepth
  <2>1. /\ <<u, i>> \in Outstanding' <=> Owes(u, i)'
        /\ <<u, i>> \in Outstanding <=> Owes(u, i)
    BY Pairs, PairsNext, Zenon
  <2>2. CASE u = t /\ i = k
    BY <1>3, <2>1, <2>2, Zenon
  <2>3. CASE u # t \/ i # k
    BY <1>3, <2>1, <2>3, Zenon
  <2>. QED BY <2>2, <2>3, Zenon
<1>5. Outstanding' = less
  BY <1>2, <1>4, PairsNext, PairSets, Zenon
<1>. QED BY <1>1, <1>5, FS_RemoveElement DEF less

LEMMA Row ==
  ASSUME NEW t \in Threads, NEW past \in SUBSET (1 .. MaxDepth)
  PROVE  /\ IsFiniteSet(past) /\ Cardinality(past) \in Nat
         /\ IsFiniteSet({t} \X past) /\ Cardinality({t} \X past) = Cardinality(past)
         /\ {t} \X past \in SUBSET (Threads \X (0 .. MaxDepth))
         /\ \A u, i : <<u, i>> \in {t} \X past <=> u = t /\ i \in past
<1>1. IsFiniteSet(1 .. MaxDepth)
  BY FS_Interval
<1>2. IsFiniteSet(past)
  BY <1>1, FS_Subset
<1>3. Cardinality(past) \in Nat
  BY <1>2, FS_CardinalityType
<1>4. IsFiniteSet({t}) /\ Cardinality({t}) = 1
  BY FS_Singleton
<1>5. IsFiniteSet({t} \X past) /\ Cardinality({t} \X past) = Cardinality({t}) * Cardinality(past)
  BY <1>2, <1>4, FS_Product
<1>6. \A i \in past : i \in 0 .. MaxDepth
  OBVIOUS
<1>7. {t} \X past \in SUBSET (Threads \X (0 .. MaxDepth))
  BY <1>6
<1>. QED BY <1>2, <1>3, <1>4, <1>5, <1>7

\* a frame d is left, and the guards of the frames past it are not
LEMMA OwesLeave ==
  ASSUME NEW t \in Threads, NEW n \in 0 .. MaxDepth, NEW d \in 1 .. n,
         NEW past \in SUBSET (d + 1 .. n), \A i \in d + 1 .. n : i \in past <=> Owes(t, i),
         ~Owes(t, 0), Owes(t, 0)' <=> Owes(t, d),
         \A i \in n + 1 .. MaxDepth : ~Owes(t, i),
         \A i \in 1 .. MaxDepth : Owes(t, i)' <=> i < d /\ Owes(t, i),
         \A u \in Threads \ {t}, i \in 0 .. MaxDepth : Owes(u, i)' <=> Owes(u, i),
         IsFiniteSet(Outstanding)
  PROVE  /\ IsFiniteSet(past) /\ Cardinality(past) \in Nat
         /\ IsFiniteSet(Outstanding') /\ Cardinality(Outstanding') \in Nat
         /\ Cardinality(Outstanding) = Cardinality(Outstanding') + Cardinality(past)
<1>. DEFINE P == {t} \X past
            rest == Outstanding \ P
            less == rest \ {<<t, d>>}
            all == IF Owes(t, d) THEN less \union {<<t, 0>>} ELSE rest
<1>1. past \in SUBSET (1 .. MaxDepth)
  <2>1. \A i \in past : i \in d + 1 .. n
    OBVIOUS
  <2>2. \A i \in d + 1 .. n : i \in 1 .. MaxDepth
    OBVIOUS
  <2>. QED BY <2>1, <2>2
<1>2. /\ IsFiniteSet(past) /\ Cardinality(past) \in Nat /\ IsFiniteSet(P) /\ Cardinality(P) = Cardinality(past)
      /\ P \in SUBSET (Threads \X (0 .. MaxDepth))
      /\ \A u, i : <<u, i>> \in P <=> u = t /\ i \in past
  BY <1>1, Row, Zenon
<1>3. \A u, i : <<u, i>> \in P <=> u = t /\ i \in past
  BY <1>2
<1>4. P \in SUBSET (Threads \X (0 .. MaxDepth))
  BY <1>2
<1>. HIDE DEF P
<1>5. \A u \in Threads, i \in 0 .. MaxDepth : <<u, i>> \in Outstanding \intersect P <=> <<u, i>> \in P
  <2>. TAKE u \in Threads, i \in 0 .. MaxDepth
  <2>1. <<u, i>> \in P => u = t /\ i \in past /\ i \in d + 1 .. n
    BY <1>3
  <2>2. <<u, i>> \in P => <<u, i>> \in Outstanding
    BY <2>1, Pairs, Zenon
  <2>. QED BY <2>2
<1>6. Outstanding \intersect P = P
  <2>1. Outstanding \intersect P \in SUBSET (Threads \X (0 .. MaxDepth))
    BY <1>4
  <2>. QED BY <1>4, <1>5, <2>1, PairSets, Zenon
<1>7. IsFiniteSet(rest) /\ Cardinality(rest) = Cardinality(Outstanding) - Cardinality(P)
  <2>1. IsFiniteSet(rest) /\ Cardinality(rest) = Cardinality(Outstanding) - Cardinality(Outstanding \intersect P)
    BY FS_Difference
  <2>. QED BY <1>6, <2>1, Zenon
<1>8. Cardinality(Outstanding) \in Nat /\ Cardinality(rest) \in Nat
  BY <1>7, FS_CardinalityType
<1>9. rest \in SUBSET (Threads \X (0 .. MaxDepth))
  BY Pairs
<1>10. \A u \in Threads, i \in 0 .. MaxDepth : <<u, i>> \in rest <=> Owes(u, i) /\ ~(u = t /\ i \in past)
  <2>. TAKE u \in Threads, i \in 0 .. MaxDepth
  <2>1. <<u, i>> \in rest <=> <<u, i>> \in Outstanding /\ <<u, i>> \notin P
    BY DEF rest
  <2>. QED BY <1>3, <2>1, Pairs, Zenon
<1>. HIDE DEF rest
<1>11. all \in SUBSET (Threads \X (0 .. MaxDepth))
  BY <1>9
<1>12. IsFiniteSet(all) /\ Cardinality(all) = Cardinality(rest)
  <2>1. CASE ~Owes(t, d)
    BY <1>7, <2>1
  <2>2. CASE Owes(t, d)
    <3>1. <<t, d>> \in rest /\ <<t, 0>> \notin rest
      BY <1>10, <2>2
    <3>2. IsFiniteSet(less) /\ Cardinality(less) = Cardinality(rest) - 1
      BY <1>7, <3>1, FS_RemoveElement
    <3>3. <<t, 0>> \notin less
      BY <3>1
    <3>. HIDE DEF less
    <3>4. IsFiniteSet(less \union {<<t, 0>>}) /\ Cardinality(less \union {<<t, 0>>}) = Cardinality(less) + 1
      BY <3>2, <3>3, FS_AddElement
    <3>. QED BY <1>8, <2>2, <3>2, <3>4
  <2>. QED BY <2>1, <2>2
<1>13. \A u \in Threads, i \in 0 .. MaxDepth :
         <<u, i>> \in all <=> IF Owes(t, d) THEN (<<u, i>> \in rest /\ ~(u = t /\ i = d)) \/ (u = t /\ i = 0)
                              ELSE <<u, i>> \in rest
  OBVIOUS
<1>. HIDE DEF all
<1>14. \A u \in Threads, i \in 0 .. MaxDepth : <<u, i>> \in Outstanding' <=> <<u, i>> \in all
  <2>. TAKE u \in Threads, i \in 0 .. MaxDepth
  <2>1. <<u, i>> \in Outstanding' <=> Owes(u, i)'
    BY PairsNext
  <2>2. <<u, i>> \in rest <=> Owes(u, i) /\ ~(u = t /\ i \in past)
    BY <1>10
  <2>3. <<u, i>> \in all <=> IF Owes(t, d) THEN (<<u, i>> \in rest /\ ~(u = t /\ i = d)) \/ (u = t /\ i = 0)
                             ELSE <<u, i>> \in rest
    BY <1>13
  <2>4. CASE u # t
    BY <2>1, <2>2, <2>3, <2>4, Zenon
  <2>5. CASE u = t /\ i = 0
    <3>1. 0 \notin past /\ d # 0
      OBVIOUS
    <3>. QED BY <2>1, <2>2, <2>3, <2>5, <3>1, Zenon
  <2>6. CASE u = t /\ i # 0
    <3>1. i \in 1 .. MaxDepth
      BY <2>6
    <3>2. Owes(t, i)' <=> i < d /\ Owes(t, i)
      BY <3>1
    <3>3. i \in d + 1 .. n \/ i \in n + 1 .. MaxDepth \/ i = d \/ i < d
      OBVIOUS
    <3>4. i \in past => i \in d + 1 .. n
      OBVIOUS
    <3>5. (i \in d + 1 .. n => ~(i < d) /\ i # d) /\ (i = d => ~(i < d)) /\ (i < d => i \notin d + 1 .. n)
      OBVIOUS
    <3>6. i \in n + 1 .. MaxDepth => ~Owes(t, i)
      OBVIOUS
    <3>7. i \in d + 1 .. n => (i \in past <=> Owes(t, i))
      OBVIOUS
    <3>. QED BY <2>1, <2>2, <2>3, <2>6, <3>2, <3>3, <3>4, <3>5, <3>6, <3>7, Zenon
  <2>. QED BY <2>4, <2>5, <2>6
<1>15. Outstanding' = all
  BY <1>11, <1>14, PairsNext, PairSets, Zenon
<1>. QED BY <1>2, <1>7, <1>8, <1>12, <1>15

LEMMA OwesFacts ==
  ASSUME TypeOK, NEW t \in Threads
  PROVE  /\ Owes(t, 0) <=> guard[t] # "none"
         /\ \A i \in 1 .. MaxDepth : Owes(t, i) <=> i <= Len(stack[t]) /\ stack[t][i].guarded
<1>1. DOMAIN stack[t] = 1 .. Len(stack[t]) /\ Len(stack[t]) \in Nat
  BY StackFacts
<1>. QED BY <1>1 DEF Owes

LEMMA OwesNext ==
  ASSUME NEW t \in Threads, stack' \in [Threads -> Seq(Frame)]
  PROVE  /\ Owes(t, 0)' <=> guard'[t] # "none"
         /\ \A i \in 1 .. MaxDepth : Owes(t, i)' <=> i <= Len(stack'[t]) /\ stack'[t][i].guarded
<1>1. DOMAIN stack'[t] = 1 .. Len(stack'[t]) /\ Len(stack'[t]) \in Nat
  BY LenProperties
<1>. QED BY <1>1 DEF Owes

LEMMA OwesOther ==
  ASSUME NEW u, stack'[u] = stack[u]
  PROVE  /\ \A i \in 1 .. MaxDepth : Owes(u, i)' <=> Owes(u, i)
         /\ guard'[u] = guard[u] => \A i \in 0 .. MaxDepth : Owes(u, i)' <=> Owes(u, i)
  BY DEF Owes

LEMMA UnsettingPairs ==
  /\ Unsetting \in SUBSET (Threads \X (0 .. MaxDepth))
  /\ \A u \in Threads, i \in 0 .. MaxDepth : <<u, i>> \in Unsetting <=> i = 0 /\ guard[u] = "unsetting"
<1>1. Unsetting \in SUBSET (Threads \X (0 .. MaxDepth))
  BY Pairs DEF Unsetting
<1>2. ASSUME NEW u \in Threads, NEW i \in 0 .. MaxDepth
      PROVE <<u, i>> \in Unsetting <=> i = 0 /\ guard[u] = "unsetting"
  <2>1. <<u, i>> \in Unsetting <=> <<u, i>> \in Outstanding /\ i = 0 /\ guard[u] = "unsetting"
    BY DEF Unsetting
  <2>2. i = 0 /\ guard[u] = "unsetting" => Owes(u, i)
    BY DEF Owes
  <2>. QED BY <2>1, <2>2, Pairs
<1>. QED BY <1>1, <1>2

LEMMA UnsettingPairsNext ==
  /\ Unsetting' \in SUBSET (Threads \X (0 .. MaxDepth))
  /\ \A u \in Threads, i \in 0 .. MaxDepth : <<u, i>> \in Unsetting' <=> i = 0 /\ guard'[u] = "unsetting"
<1>1. Unsetting' \in SUBSET (Threads \X (0 .. MaxDepth))
  BY PairsNext DEF Unsetting
<1>2. ASSUME NEW u \in Threads, NEW i \in 0 .. MaxDepth
      PROVE <<u, i>> \in Unsetting' <=> i = 0 /\ guard'[u] = "unsetting"
  <2>1. <<u, i>> \in Unsetting' <=> <<u, i>> \in Outstanding' /\ i = 0 /\ guard'[u] = "unsetting"
    BY DEF Unsetting
  <2>2. i = 0 /\ guard'[u] = "unsetting" => Owes(u, i)'
    BY DEF Owes
  <2>. QED BY <2>1, <2>2, PairsNext
<1>. QED BY <1>1, <1>2

LEMMA UnsettingSame ==
  ASSUME \A u \in Threads : guard'[u] = "unsetting" <=> guard[u] = "unsetting"
  PROVE  Unsetting' = Unsetting
<1>1. \A u \in Threads, i \in 0 .. MaxDepth : <<u, i>> \in Unsetting' <=> <<u, i>> \in Unsetting
  BY UnsettingPairs, UnsettingPairsNext, ZenonT(60)
<1>. QED BY <1>1, UnsettingPairs, UnsettingPairsNext, PairSets, Zenon

LEMMA UnsettingLess ==
  ASSUME NEW t \in Threads, guard[t] = "unsetting", guard'[t] # "unsetting",
         \A u \in Threads \ {t} : guard'[u] = guard[u], IsFiniteSet(Outstanding)
  PROVE  /\ Unsetting # {} /\ IsFiniteSet(Unsetting') /\ Cardinality(Unsetting) \in Nat
         /\ Cardinality(Unsetting') = Cardinality(Unsetting) - 1
<1>. DEFINE less == Unsetting \ {<<t, 0>>}
<1>1. <<t, 0>> \in Unsetting
  BY UnsettingPairs
<1>2. IsFiniteSet(Unsetting)
  BY FS_Subset DEF Unsetting
<1>3. IsFiniteSet(less) /\ Cardinality(less) = Cardinality(Unsetting) - 1
  BY <1>1, <1>2, FS_RemoveElement
<1>4. less \in SUBSET (Threads \X (0 .. MaxDepth))
  BY UnsettingPairs
<1>5. \A u \in Threads, i \in 0 .. MaxDepth : <<u, i>> \in less <=> <<u, i>> \in Unsetting /\ ~(u = t /\ i = 0)
  OBVIOUS
<1>. HIDE DEF less
<1>6. \A u \in Threads, i \in 0 .. MaxDepth : <<u, i>> \in Unsetting' <=> <<u, i>> \in less
  <2>. TAKE u \in Threads, i \in 0 .. MaxDepth
  <2>1. /\ <<u, i>> \in Unsetting' <=> i = 0 /\ guard'[u] = "unsetting"
        /\ <<u, i>> \in Unsetting <=> i = 0 /\ guard[u] = "unsetting"
    BY UnsettingPairs, UnsettingPairsNext
  <2>2. CASE u = t
    BY <1>5, <2>1, <2>2, Zenon
  <2>3. CASE u # t
    <3>1. guard'[u] = guard[u]
      BY <2>3
    <3>. QED BY <1>5, <2>1, <2>3, <3>1, Zenon
  <2>. QED BY <2>2, <2>3
<1>7. Unsetting' = less
  BY <1>4, <1>6, UnsettingPairsNext, PairSets, Zenon
<1>. QED BY <1>1, <1>2, <1>3, <1>7, FS_CardinalityType

LEMMA UnsettingFew ==
  ASSUME IsFiniteSet(Outstanding)
  PROVE  /\ Cardinality(Outstanding) \in Nat /\ Cardinality(Unsetting) \in Nat
         /\ Cardinality(Unsetting) <= Cardinality(Outstanding)
<1>1. IsFiniteSet(Unsetting) /\ Cardinality(Unsetting) <= Cardinality(Outstanding)
  BY FS_Subset DEF Unsetting
<1>. QED BY <1>1, FS_CardinalityType

(***************************************************************************)
(* The accounts after a step of each kind.                                 *)
(***************************************************************************)
LEMMA CountSame ==
  ASSUME TypeOK, Counted, UNCHANGED signalVars, Unsetting' = Unsetting, IsFiniteSet(Outstanding'),
         ~persistent => skipped' + Cardinality(Outstanding') = skipped + Cardinality(Outstanding),
         ~Quiet \/ Quiet'
  PROVE  Counted'
<1>1. UNCHANGED <<handler, saved, counter, persistent>>
  BY DEF signalVars
<1>2. Cardinality(Unsetting') = Cardinality(Unsetting)
  OBVIOUS
<1>. QED BY <1>1, <1>2 DEF Counted

LEMMA CountAcquire ==
  ASSUME TypeOK, Counted, Acquire, Environment \/ ~Quiet, Unsetting' = Unsetting, UNCHANGED skipped,
         IsFiniteSet(Outstanding'), ~persistent => Cardinality(Outstanding') = Cardinality(Outstanding) + 1
  PROVE  Counted'
<1>1. Cardinality(Unsetting') = Cardinality(Unsetting) /\ persistent' = persistent
      /\ persistent \in BOOLEAN /\ counter \in Nat /\ skipped \in Nat
  BY DEF Acquire, TypeOK
<1>2. CASE persistent
  <2>1. UNCHANGED <<handler, saved, counter>>
    BY <1>2 DEF Acquire
  <2>2. "late" \notin Liberties => handler = "ours"
    BY <1>2 DEF Counted, Environment
  <2>. QED BY <1>1, <1>2, <2>1, <2>2 DEF Counted
<1>3. CASE ~persistent
  <2>1. Cardinality(Outstanding) \in Nat
    BY UnsettingFew DEF Counted
  <2>2. counter = skipped + Cardinality(Outstanding) /\ handler = (IF counter = 0 THEN "theirs" ELSE "ours")
    BY <1>3 DEF Counted
  <2>3. counter' = counter + 1 /\ handler' = "ours" /\ saved' # "default"
    BY <1>3, <2>2 DEF Acquire, Install, Counted
  <2>. QED BY <1>1, <1>3, <2>1, <2>2, <2>3 DEF Counted
<1>. QED BY <1>1, <1>2, <1>3

LEMMA CountEnter ==
  ASSUME TypeOK, Counted, NEW t \in Threads, NEW r \in Runtimes, Enters(t, r)
  PROVE  Counted'
<1>1. PICK guarded \in BOOLEAN, starting \in BOOLEAN : Calling(t, r, guarded) /\ Enter(t, r, guarded, starting)
  BY Zenon DEF Enters
<1>. DEFINE f == Wasm(r, link[r], Prepared(r), guarded, starting)
<1>2. f \in Frame /\ Pushed(t, f)
  BY <1>1, EnterStack
<1>3. f.guarded <=> guarded
  BY DEF Wasm
<1>. HIDE DEF f
<1>4. guard' = guard /\ skipped' = skipped /\ IsFiniteSet(Outstanding)
  BY <1>1 DEF Enter, history, Counted
<1>5. Unsetting' = Unsetting
  BY <1>4, UnsettingSame
<1>6. PICK n \in 0 .. MaxDepth : n = Len(stack[t])
  BY StackFacts
<1>7. /\ Len(stack'[t]) = n + 1 /\ n + 1 \in 1 .. MaxDepth /\ stack'[t][n + 1] = f
      /\ \A i \in 1 .. n : stack'[t][i] = stack[t][i]
  BY <1>2, <1>6 DEF Pushed
<1>8. /\ \A i \in 1 .. MaxDepth : Owes(t, i) <=> i <= n /\ stack[t][i].guarded
      /\ \A i \in 1 .. MaxDepth : Owes(t, i)' <=> i <= n + 1 /\ stack'[t][i].guarded
      /\ Owes(t, 0)' <=> Owes(t, 0)
  BY <1>2, <1>4, <1>6, <1>7, OwesFacts, OwesNext DEF Pushed
<1>9. \A i \in 0 .. MaxDepth : i # n + 1 => (Owes(t, i)' <=> Owes(t, i))
  <2>1. \A i \in 0 .. MaxDepth : i = 0 \/ i \in 1 .. n \/ i = n + 1 \/ (i \in 1 .. MaxDepth /\ ~(i <= n) /\ ~(i <= n + 1))
    OBVIOUS
  <2>2. \A i \in 1 .. n : i \in 1 .. MaxDepth /\ i <= n /\ i <= n + 1
    BY <1>7
  <2>. QED BY <1>7, <1>8, <2>1, <2>2, Zenon
<1>10. ~Owes(t, n + 1) /\ (Owes(t, n + 1)' <=> guarded)
  BY <1>3, <1>7, <1>8
<1>11. \A u \in Threads \ {t}, i \in 0 .. MaxDepth : Owes(u, i)' <=> Owes(u, i)
  BY <1>2, <1>4, OwesOther DEF Pushed, Others
<1>12. CASE guarded
  <2>1. IsFiniteSet(Outstanding') /\ Cardinality(Outstanding') = Cardinality(Outstanding) + 1
    <3>1. n + 1 \in 0 .. MaxDepth /\ ~Owes(t, n + 1) /\ Owes(t, n + 1)'
      BY <1>7, <1>10, <1>12
    <3>2. \A u \in Threads, i \in 0 .. MaxDepth : u # t \/ i # n + 1 => (Owes(u, i)' <=> Owes(u, i))
      BY <1>9, <1>11
    <3>. QED BY <1>4, <3>1, <3>2, OwesMore
  <2>2. Acquire /\ (Environment \/ ~Quiet)
    BY <1>1, <1>12 DEF Calling, Guarded, Quiet, Idle
  <2>. QED BY <1>4, <1>5, <2>1, <2>2, CountAcquire
<1>13. CASE ~guarded
  <2>1. \A u \in Threads, i \in 0 .. MaxDepth : Owes(u, i)' <=> Owes(u, i)
    BY <1>9, <1>10, <1>11, <1>13
  <2>2. Outstanding' = Outstanding
    BY <2>1, OwesSame
  <2>3. UNCHANGED signalVars /\ ~Quiet
    BY <1>1, <1>13 DEF Calling, Quiet, Idle
  <2>. QED BY <1>4, <1>5, <2>2, <2>3, CountSame
<1>. QED BY <1>12, <1>13

\* steps that change no guard
LEMMA CountStay ==
  ASSUME TypeOK, Counted, NEW t \in Threads, UNCHANGED <<guard, signalVars, skipped>>,
         ~Quiet \/ UNCHANGED stack, Others(t), stack' \in [Threads -> Seq(Frame)],
         \A i \in 1 .. MaxDepth : i <= Len(stack'[t]) /\ stack'[t][i].guarded <=> i <= Len(stack[t]) /\ stack[t][i].guarded
  PROVE  Counted'
<1>1. \A u \in Threads \ {t}, i \in 0 .. MaxDepth : Owes(u, i)' <=> Owes(u, i)
  BY OwesOther DEF Others
<1>2. \A i \in 0 .. MaxDepth : Owes(t, i)' <=> Owes(t, i)
  BY OwesFacts, OwesNext
<1>3. Outstanding' = Outstanding
  BY <1>1, <1>2, OwesSame
<1>4. Unsetting' = Unsetting /\ IsFiniteSet(Outstanding')
  BY <1>3, UnsettingSame DEF Counted
<1>5. ~Quiet \/ Quiet'
  BY DEF Quiet, Idle
<1>. QED BY <1>3, <1>4, <1>5, CountSame

LEMMA CountImport ==
  ASSUME TypeOK, Alternating, Counted, NEW t \in Threads,
         SetGlobal(t) \/ CallImport(t) \/ ReturnFromImport(t)
  PROVE  Counted'
<1>1. UNCHANGED <<guard, signalVars, skipped>>
  BY Zenon DEF SetGlobal, CallImport, ReturnFromImport, history
<1>2. stack[t] # <<>> /\ ~Quiet
  BY WriteStack, ImportStack, BackStack DEF Quiet, Idle
<1>3. PICK n \in 1 .. MaxDepth : n = Len(stack[t]) /\ n = Depth(t)
  BY <1>2, StackFacts
<1>4. CASE SetGlobal(t)
  <2>1. Cut(t, n)
    BY <1>3, <1>4, WriteStack
  <2>2. \A i \in 1 .. n : stack'[t][i].guarded <=> stack[t][i].guarded
    BY <2>1 DEF Cut, Same
  <2>3. \A i \in 1 .. MaxDepth : i <= Len(stack'[t]) /\ stack'[t][i].guarded <=> i <= Len(stack[t]) /\ stack[t][i].guarded
    BY <1>3, <2>1, <2>2 DEF Cut
  <2>. QED BY <1>1, <1>2, <2>1, <2>3, CountStay DEF Cut
<1>5. CASE CallImport(t)
  <2>. DEFINE f == Host(Top(t).rt)
  <2>1. Pushed(t, f) /\ ~f.guarded
    BY <1>5, ImportStack DEF Host
  <2>. HIDE DEF f
  <2>2. \A i \in 1 .. MaxDepth : i <= Len(stack'[t]) /\ stack'[t][i].guarded <=> i <= Len(stack[t]) /\ stack[t][i].guarded
    <3>1. \A i \in 1 .. n : stack'[t][i] = stack[t][i]
      BY <1>3, <2>1 DEF Pushed
    <3>2. ~stack'[t][n + 1].guarded /\ Len(stack'[t]) = n + 1
      BY <1>3, <2>1 DEF Pushed
    <3>3. \A i \in 1 .. MaxDepth : i <= n + 1 => i \in 1 .. n \/ i = n + 1
      OBVIOUS
    <3>. QED BY <1>3, <3>1, <3>2, <3>3
  <2>. QED BY <1>1, <1>2, <2>1, <2>2, CountStay DEF Pushed
<1>6. CASE ReturnFromImport(t)
  <2>1. Cut(t, n - 1) /\ n >= 2 /\ Top(t).code = "host"
    BY <1>3, <1>6, BackStack
  <2>2. \A i \in 1 .. n - 1 : stack'[t][i].guarded <=> stack[t][i].guarded
    BY <2>1 DEF Cut, Same
  <2>3. n \in DOMAIN stack[t] \ {1} /\ stack[t][n].code = "host"
    BY <1>2, <1>3, <2>1, StackFacts
  <2>4. ~stack[t][n].guarded
    BY <2>3, Zenon DEF Alternating
  <2>5. Len(stack'[t]) = n - 1
    BY <2>1 DEF Cut
  <2>6. \A i \in 1 .. MaxDepth : i <= Len(stack'[t]) /\ stack'[t][i].guarded <=> i <= Len(stack[t]) /\ stack[t][i].guarded
    <3>1. \A i \in 1 .. MaxDepth : i <= n => i \in 1 .. n - 1 \/ i = n
      OBVIOUS
    <3>. QED BY <1>3, <2>2, <2>4, <2>5, <3>1
  <2>. QED BY <1>1, <1>2, <2>1, <2>6, CountStay DEF Cut
<1>. QED BY <1>4, <1>5, <1>6

LEMMA LeavingPast ==
  ASSUME TypeOK, Counted, NEW t \in Threads, NEW d, NEW reg, Leaving(t, d, reg)
  PROVE  LET past == {i \in d + 1 .. Depth(t) : stack[t][i].guarded}
         IN  /\ Cardinality(past) \in Nat /\ skipped' = skipped + Cardinality(past)
             /\ IsFiniteSet(Outstanding')
             /\ Cardinality(Outstanding) = Cardinality(Outstanding') + Cardinality(past)
             /\ Cardinality(Outstanding') \in Nat
<1>. DEFINE past == {i \in d + 1 .. Depth(t) : stack[t][i].guarded}
<1>1. PICK n \in 0 .. MaxDepth : n = Len(stack[t]) /\ n = Depth(t)
  BY StackFacts
<1>2. d \in 1 .. n /\ Cut(t, d - 1) /\ Len(stack'[t]) = d - 1
  BY <1>1, LeavingStack DEF Leaving, Cut
<1>3. /\ skipped' = skipped + Cardinality(past) /\ guard[t] = "none"
      /\ guard' = [guard EXCEPT ![t] = IF stack[t][d].guarded THEN "leaving" ELSE @]
  BY DEF Leaving, Leave
<1>4. guard'[t] = (IF stack[t][d].guarded THEN "leaving" ELSE "none") /\ \A u \in Threads \ {t} : guard'[u] = guard[u]
  BY <1>3 DEF TypeOK
<1>5. /\ \A i \in 1 .. MaxDepth : Owes(t, i) <=> i <= n /\ stack[t][i].guarded
      /\ \A i \in 1 .. MaxDepth : Owes(t, i)' <=> i <= d - 1 /\ stack'[t][i].guarded
      /\ Owes(t, 0) <=> guard[t] # "none"
      /\ Owes(t, 0)' <=> guard'[t] # "none"
  BY <1>1, <1>2, OwesFacts, OwesNext DEF Cut
<1>6. \A i \in 1 .. d - 1 : stack'[t][i].guarded <=> stack[t][i].guarded
  BY <1>2 DEF Cut, Same
<1>7. past \in SUBSET (d + 1 .. n) /\ \A i \in d + 1 .. n : i \in past <=> Owes(t, i)
  BY <1>1, <1>2, <1>5
<1>. HIDE DEF past
<1>8. ~Owes(t, 0) /\ (Owes(t, 0)' <=> Owes(t, d))
  BY <1>2, <1>3, <1>4, <1>5
<1>9. \A i \in n + 1 .. MaxDepth : ~Owes(t, i)
  BY <1>5
<1>10. \A i \in 1 .. MaxDepth : Owes(t, i)' <=> i < d /\ Owes(t, i)
  BY <1>2, <1>5, <1>6
<1>11. \A u \in Threads \ {t}, i \in 0 .. MaxDepth : Owes(u, i)' <=> Owes(u, i)
  BY <1>2, <1>4, OwesOther DEF Cut, Others
<1>12. IsFiniteSet(Outstanding)
  BY DEF Counted
<1>13. /\ IsFiniteSet(past) /\ Cardinality(past) \in Nat
       /\ IsFiniteSet(Outstanding') /\ Cardinality(Outstanding') \in Nat
       /\ Cardinality(Outstanding) = Cardinality(Outstanding') + Cardinality(past)
  BY <1>2, <1>7, <1>8, <1>9, <1>10, <1>11, <1>12, OwesLeave
<1>. QED BY <1>3, <1>13 DEF past

LEMMA CountLeave ==
  ASSUME TypeOK, Counted, NEW t \in Threads, Leaves(t)
  PROVE  Counted'
<1>1. PICK d \in Nat, reg \in Nat : Leaving(t, d, reg)
  BY Zenon DEF Leaves
<1>2. /\ IsFiniteSet(Outstanding')
      /\ skipped' + Cardinality(Outstanding') = skipped + Cardinality(Outstanding)
  <2>1. \E k \in Nat :
          /\ skipped' = skipped + k /\ IsFiniteSet(Outstanding') /\ Cardinality(Outstanding') \in Nat
          /\ Cardinality(Outstanding) = Cardinality(Outstanding') + k
    BY <1>1, LeavingPast, Zenon
  <2>. QED BY <2>1 DEF TypeOK
<1>3. /\ guard[t] = "none" /\ d \in 1 .. Len(stack[t]) /\ UNCHANGED signalVars
      /\ guard' = [guard EXCEPT ![t] = IF stack[t][d].guarded THEN "leaving" ELSE @]
  BY <1>1 DEF Leaving, Leave
<1>4. \A u \in Threads : guard'[u] = "unsetting" <=> guard[u] = "unsetting"
  BY <1>3 DEF TypeOK
<1>5. ~Quiet
  BY <1>3, StackFacts DEF Quiet, Idle
<1>. QED BY <1>2, <1>3, <1>4, <1>5, UnsettingSame, CountSame

\* a thread that is not in a guard's destructor starts to give back a guard
LEMMA CountGuard ==
  ASSUME TypeOK, Counted, NEW t \in Threads, guard[t] = "none", UNCHANGED <<stack, skipped>>,
         guard' = [guard EXCEPT ![t] = "leaving"], Acquire, Environment \/ ~Quiet
  PROVE  Counted'
<1>1. guard'[t] = "leaving" /\ \A u \in Threads \ {t} : guard'[u] = guard[u]
  BY DEF TypeOK
<1>2. Unsetting' = Unsetting
  BY <1>1, UnsettingSame
<1>3. ~Owes(t, 0) /\ Owes(t, 0)' /\ 0 \in 0 .. MaxDepth
  BY <1>1 DEF Owes
<1>4. \A u \in Threads, i \in 0 .. MaxDepth : u # t \/ i # 0 => (Owes(u, i)' <=> Owes(u, i))
  BY <1>1, OwesOther
<1>5. IsFiniteSet(Outstanding)
  BY DEF Counted
<1>6. IsFiniteSet(Outstanding') /\ Cardinality(Outstanding') = Cardinality(Outstanding) + 1
  BY <1>3, <1>4, <1>5, OwesMore
<1>. QED BY <1>2, <1>6, CountAcquire

LEMMA CountRefuse ==
  ASSUME TypeOK, Counted, NEW t \in Threads, NEW r \in Runtimes, Refuses(t, r) \/ StartWithoutFunction(t, r)
  PROVE  Counted'
<1>1. CASE Refuses(t, r)
  <2>1. PICK guarded \in BOOLEAN : Calling(t, r, guarded) /\ Refuse(t, r, guarded)
    BY <1>1, Zenon DEF Refuses, Refused
  <2>2. UNCHANGED <<stack, skipped>> /\ guard' = [guard EXCEPT ![t] = IF guarded THEN "leaving" ELSE @]
    BY <2>1 DEF Refuse, history
  <2>3. CASE guarded
    <3>1. guard[t] = "none" /\ Acquire /\ (Environment \/ ~Quiet)
      BY <2>1, <2>3 DEF Calling, Guarded, Quiet, Idle
    <3>. QED BY <2>2, <2>3, <3>1, CountGuard
  <2>4. CASE ~guarded
    <3>1. UNCHANGED <<stack, skipped, guard, signalVars>>
      BY <2>1, <2>2, <2>4 DEF Calling, TypeOK
    <3>. QED BY <3>1, CountStay DEF Others, TypeOK
  <2>. QED BY <2>3, <2>4
<1>2. CASE StartWithoutFunction(t, r)
  <2>1. /\ guard[t] = "none" /\ Environment /\ Acquire /\ UNCHANGED <<stack, skipped>>
        /\ guard' = [guard EXCEPT ![t] = "leaving"]
    BY <1>2 DEF StartWithoutFunction, Guarded, Idle, history
  <2>. QED BY <2>1, CountGuard
<1>. QED BY <1>1, <1>2

LEMMA CountLeaveGuard ==
  ASSUME TypeOK, Counted, NEW t \in Threads, LeaveGuard(t)
  PROVE  Counted'
<1>1. guard[t] = "leaving" /\ UNCHANGED <<stack, signalVars, skipped>> /\ ~Quiet /\ IsFiniteSet(Outstanding)
  BY DEF LeaveGuard, Quiet, Idle, Counted
<1>2. guard'[t] = (IF persistent THEN "none" ELSE "unsetting") /\ \A u \in Threads \ {t} : guard'[u] = guard[u]
  BY DEF LeaveGuard, Unguarded, TypeOK
<1>3. CASE persistent
  <2>1. Unsetting' = Unsetting
    BY <1>1, <1>2, <1>3, UnsettingSame
  <2>2. Owes(t, 0) /\ ~(Owes(t, 0)') /\ 0 \in 0 .. MaxDepth
    BY <1>1, <1>2, <1>3 DEF Owes
  <2>3. \A u \in Threads, i \in 0 .. MaxDepth : u # t \/ i # 0 => (Owes(u, i)' <=> Owes(u, i))
    BY <1>1, <1>2, OwesOther
  <2>4. IsFiniteSet(Outstanding')
    BY <1>1, <2>2, <2>3, OwesLess
  <2>. QED BY <1>1, <1>3, <2>1, <2>4, CountSame
<1>4. CASE ~persistent
  <2>1. \A u \in Threads, i \in 0 .. MaxDepth : Owes(u, i)' <=> Owes(u, i)
    <3>1. Owes(t, 0) /\ Owes(t, 0)'
      BY <1>1, <1>2, <1>4 DEF Owes
    <3>. QED BY <1>1, <1>2, <3>1, OwesOther
  <2>2. Outstanding' = Outstanding
    BY <2>1, OwesSame
  <2>3. counter = skipped + Cardinality(Outstanding) /\ handler = (IF counter = 0 THEN "theirs" ELSE "ours")
    BY <1>4 DEF Counted
  <2>. QED BY <1>1, <1>4, <2>2, <2>3 DEF Counted, signalVars
<1>. QED BY <1>3, <1>4 DEF TypeOK

LEMMA CountUnset ==
  ASSUME TypeOK, Counted, NEW t \in Threads, Unset(t)
  PROVE  /\ Counted' /\ counter' \in Nat
         /\ handler' \in {"ours", "theirs"}
<1>1. /\ guard[t] = "unsetting" /\ UNCHANGED <<stack, saved, persistent, skipped>> /\ ~Quiet
      /\ counter' = counter - 1 /\ handler' = IF counter = 1 THEN saved ELSE handler
  BY DEF Unset, Restored, Quiet, Idle
<1>2. guard'[t] = "none" /\ \A u \in Threads \ {t} : guard'[u] = guard[u]
  BY DEF Unset, Unguarded, TypeOK
<1>3. IsFiniteSet(Outstanding)
  BY DEF Counted
<1>4. Owes(t, 0) /\ ~(Owes(t, 0)') /\ 0 \in 0 .. MaxDepth
  BY <1>1, <1>2 DEF Owes
<1>5. \A u \in Threads, i \in 0 .. MaxDepth : u # t \/ i # 0 => (Owes(u, i)' <=> Owes(u, i))
  BY <1>1, <1>2, OwesOther
<1>6. IsFiniteSet(Outstanding') /\ Cardinality(Outstanding') = Cardinality(Outstanding) - 1
  BY <1>3, <1>4, <1>5, OwesLess
<1>7. /\ Unsetting # {} /\ IsFiniteSet(Unsetting') /\ Cardinality(Unsetting) \in Nat
      /\ Cardinality(Unsetting') = Cardinality(Unsetting) - 1
  BY <1>1, <1>2, <1>3, UnsettingLess
<1>8. Cardinality(Outstanding) \in Nat /\ Cardinality(Outstanding') \in Nat /\ Cardinality(Unsetting') \in Nat
  BY <1>3, <1>6, <1>7, FS_CardinalityType
<1>9. counter \in Nat /\ skipped \in Nat /\ saved \in {"default", "theirs"} /\ handler \in {"ours", "theirs"}
      /\ persistent \in BOOLEAN
  BY DEF TypeOK
<1>10. CASE persistent
  <2>1. Cardinality(Unsetting) <= counter /\ "late" \in Liberties /\ saved = "theirs"
    BY <1>7, <1>9, <1>10 DEF Counted
  <2>. QED BY <1>1, <1>6, <1>7, <1>8, <1>9, <1>10, <2>1 DEF Counted
<1>11. CASE ~persistent
  <2>1. counter = skipped + Cardinality(Outstanding) /\ handler = (IF counter = 0 THEN "theirs" ELSE "ours")
    BY <1>11 DEF Counted
  <2>2. counter >= 1 /\ saved = "theirs"
    BY <1>6, <1>8, <1>9, <2>1 DEF Counted
  <2>3. counter' = skipped' + Cardinality(Outstanding') /\ counter' \in Nat
    BY <1>1, <1>6, <1>8, <1>9, <2>1, <2>2
  <2>4. handler' = (IF counter' = 0 THEN "theirs" ELSE "ours") /\ handler' \in {"ours", "theirs"}
    BY <1>1, <1>9, <2>1, <2>2
  <2>5. ~persistent' /\ saved' # "default"
    BY <1>1, <1>11, <2>2
  <2>. QED BY <1>6, <2>3, <2>4, <2>5 DEF Counted
<1>. QED BY <1>9, <1>10, <1>11

LEMMA CountOutside ==
  ASSUME TypeOK, Counted, Outside
  PROVE  /\ Counted'
         /\ handler' \in {"ours", "theirs"} /\ saved' \in {"default", "theirs"}
<1>1. UNCHANGED <<stack, guard, counter, skipped>>
  BY DEF Outside, InitEnvironment, DestroyEnvironment, vars, signalVars, history
<1>2. Outstanding' = Outstanding /\ Unsetting' = Unsetting /\ (Quiet' <=> Quiet)
  <2>1. \A u \in Threads, i \in 0 .. MaxDepth : Owes(u, i)' <=> Owes(u, i)
    BY <1>1 DEF Owes
  <2>. QED BY <1>1, <2>1, OwesSame, UnsettingSame DEF Quiet, Idle
<1>3. /\ IsFiniteSet(Outstanding) /\ Cardinality(Outstanding) \in Nat
      /\ Cardinality(Unsetting) \in Nat /\ Cardinality(Unsetting) <= Cardinality(Outstanding)
  BY UnsettingFew DEF Counted
<1>4. counter \in Nat /\ skipped \in Nat /\ saved \in {"default", "theirs"} /\ handler \in {"ours", "theirs"}
      /\ persistent \in BOOLEAN
  BY DEF TypeOK
<1>5. CASE InitEnvironment
  <2>1. /\ persistent' /\ handler' = "ours" /\ saved' = (IF handler = "ours" THEN saved ELSE handler)
        /\ Quiet \/ "late" \in Liberties
    BY <1>5 DEF InitEnvironment, Install
  <2>2. saved' = "theirs"
    BY <1>4, <2>1 DEF Counted
  <2>3. Cardinality(Unsetting) <= counter
    BY <1>3, <1>4 DEF Counted
  <2>4. Quiet => Unsetting = {}
    <3>1. Quiet => \A w \in Unsetting : FALSE
      BY Pairs DEF Unsetting, Quiet, Idle, Outstanding
    <3>. QED BY <3>1
  <2>5. Cardinality(Unsetting') = Cardinality(Unsetting) /\ IsFiniteSet(Outstanding')
    BY <1>2, <1>3
  <2>. QED BY <1>1, <1>2, <1>4, <2>1, <2>2, <2>3, <2>4, <2>5 DEF Counted
<1>6. CASE DestroyEnvironment
  <2>1. /\ persistent /\ handler = "ours" /\ handler' = saved /\ UNCHANGED <<saved, persistent>> /\ Quiet
    BY <1>6 DEF DestroyEnvironment, Restored
  <2>2. saved = "theirs"
    BY <1>4, <2>1 DEF Counted
  <2>3. Cardinality(Unsetting') = Cardinality(Unsetting) /\ IsFiniteSet(Outstanding')
    BY <1>2, <1>3
  <2>. QED BY <1>1, <1>2, <2>1, <2>2, <2>3 DEF Counted
<1>7. CASE UNCHANGED vars
  <2>1. UNCHANGED <<handler, saved, counter, persistent, skipped>>
    BY <1>7 DEF vars, signalVars, history
  <2>2. /\ Cardinality(Unsetting') = Cardinality(Unsetting) /\ IsFiniteSet(Outstanding')
        /\ Cardinality(Outstanding') = Cardinality(Outstanding)
    BY <1>2, <1>3
  <2>. QED BY <1>1, <1>2, <1>4, <2>1, <2>2 DEF Counted
<1>. QED BY <1>5, <1>6, <1>7 DEF Outside

LEMMA CountedKept ==
  ASSUME TypeOK, Alternating, Counted, Step
  PROVE  Counted'
<1>1. ASSUME NEW t \in Threads, NEW r \in Runtimes, SetGlobalFromHost(t, r) PROVE Counted'
  <2>1. UNCHANGED <<stack, skipped, guard, signalVars>>
    BY <1>1 DEF SetGlobalFromHost, history
  <2>. QED BY <2>1, CountStay DEF Others, TypeOK
<1>2. CASE StackKept
  BY <1>1, <1>2, CountLeaveGuard, CountUnset, CountRefuse DEF StackKept
<1>. QED BY <1>2, CountEnter, CountImport, CountLeave, CountOutside DEF Step

(***************************************************************************)
(* Types.                                                                  *)
(***************************************************************************)
LEMMA PushedStacks ==
  ASSUME TypeOK, NEW t \in Threads, NEW f, Pushed(t, f)
  PROVE  stack' \in [Threads -> Seq(Frame)] /\ \A u \in Threads : Depth(u)' <= MaxDepth
<1>1. \A u \in Threads \ {t} : stack'[u] = stack[u] /\ Len(stack[u]) <= MaxDepth
  BY StackFacts DEF Pushed, Others
<1>. QED BY <1>1 DEF Pushed, Depth

LEMMA CutStacks ==
  ASSUME TypeOK, NEW t \in Threads, NEW n, Cut(t, n)
  PROVE  stack' \in [Threads -> Seq(Frame)] /\ \A u \in Threads : Depth(u)' <= MaxDepth
<1>1. \A u \in Threads \ {t} : stack'[u] = stack[u] /\ Len(stack[u]) <= MaxDepth
  BY StackFacts DEF Cut, Others
<1>2. n <= MaxDepth
  BY StackFacts DEF Cut
<1>. QED BY <1>1, <1>2 DEF Cut, Depth

SignalTypes ==
  /\ handler \in {"ours", "theirs"} /\ saved \in {"default", "theirs"}
  /\ counter \in Nat /\ persistent \in BOOLEAN

LEMMA AcquireTypes ==
  ASSUME TypeOK, Acquire
  PROVE  SignalTypes'
<1>1. SignalTypes
  BY DEF TypeOK, SignalTypes
<1>. QED BY <1>1 DEF Acquire, Install, SignalTypes

LEMMA SameSignals ==
  ASSUME TypeOK, UNCHANGED signalVars
  PROVE  SignalTypes'
  BY DEF TypeOK, SignalTypes, signalVars

LEMMA CallingTypes ==
  ASSUME TypeOK, NEW t \in Threads, NEW r \in Runtimes, NEW guarded \in BOOLEAN, Calling(t, r, guarded)
  PROVE  SignalTypes' /\ pRuntime' \in [Threads -> Runtimes \union {NoRuntime}]
<1>1. CASE guarded
  BY <1>1, AcquireTypes DEF Calling, Guarded, TypeOK
<1>2. CASE ~guarded
  BY <1>2, SameSignals DEF Calling, TypeOK
<1>. QED BY <1>1, <1>2

LEMMA TypesEnter ==
  ASSUME TypeOK, NEW t \in Threads, NEW r \in Runtimes, Enters(t, r)
  PROVE  TypeOK'
<1>1. PICK guarded \in BOOLEAN, starting \in BOOLEAN : Calling(t, r, guarded) /\ Enter(t, r, guarded, starting)
  BY Zenon DEF Enters
<1>2. stack' \in [Threads -> Seq(Frame)] /\ \A u \in Threads : Depth(u)' <= MaxDepth
  BY <1>1, EnterStack, PushedStacks
<1>3. SignalTypes' /\ pRuntime' \in [Threads -> Runtimes \union {NoRuntime}]
  BY <1>1, CallingTypes
<1>4. Depth(t) + 1 \in 0 .. MaxDepth
  BY <1>1, StackFacts DEF Enter
<1>5. /\ UNCHANGED <<guard, link, latest, start, skipped, unnamed>>
      /\ frameRef' = [frameRef EXCEPT ![r] = Depth(t) + 1]
      /\ reentry' = [reentry EXCEPT ![r] = FirstFrame(t, r)]
  BY <1>1 DEF Enter, history
<1>6. FirstFrame(t, r) \in 0 .. MaxDepth
  BY <1>4 DEF FirstFrame, TypeOK
<1>7. frameRef' \in [Runtimes -> 0 .. MaxDepth] /\ reentry' \in [Runtimes -> 0 .. MaxDepth]
  BY <1>4, <1>5, <1>6 DEF TypeOK
<1>8. UNCHANGED <<guard, link, latest, start, skipped, unnamed>>
  BY <1>5
<1>. QED BY <1>2, <1>3, <1>7, <1>8 DEF TypeOK, SignalTypes

LEMMA TypesLeave ==
  ASSUME TypeOK, Counted, NEW t \in Threads, NEW d, NEW reg, Leaving(t, d, reg),
         frameRef' \in [Runtimes -> 0 .. MaxDepth], start' \in [Runtimes -> {"none", "queued", "done"}]
  PROVE  TypeOK'
<1>1. stack' \in [Threads -> Seq(Frame)] /\ \A u \in Threads : Depth(u)' <= MaxDepth
  BY LeavingStack, CutStacks
<1>2. skipped' \in Nat
  <2>1. \E k \in Nat : skipped' = skipped + k
    BY LeavingPast, Zenon
  <2>. QED BY <2>1 DEF TypeOK
<1>3. /\ UNCHANGED <<pRuntime, signalVars>> /\ reg \in 0 .. MaxWrites
      /\ guard' = [guard EXCEPT ![t] = IF stack[t][d].guarded THEN "leaving" ELSE @]
      /\ link' = [link EXCEPT ![stack[t][d].rt] = reg]
      /\ reentry' = [reentry EXCEPT ![stack[t][d].rt] = IF @ = d THEN 0 ELSE @]
      /\ latest' = [latest EXCEPT ![stack[t][d].rt] = reg]
      /\ unnamed' \subseteq Threads
  BY DEF Leaving, Leave, TypeOK
<1>4. SignalTypes'
  BY <1>3, SameSignals
<1>5. guard' \in [Threads -> {"none", "leaving", "unsetting"}] /\ pRuntime' \in [Threads -> Runtimes \union {NoRuntime}]
  BY <1>3 DEF TypeOK
<1>6. link' \in [Runtimes -> 0 .. MaxWrites] /\ latest' \in [Runtimes -> 0 .. MaxWrites]
  BY <1>3 DEF TypeOK
<1>7. reentry' \in [Runtimes -> 0 .. MaxDepth]
  <2>1. stack[t][d].rt \in Runtimes /\ reentry \in [Runtimes -> 0 .. MaxDepth]
    BY StackFacts, FrameFacts DEF Leaving, TypeOK
  <2>2. PICK r \in Runtimes : r = stack[t][d].rt
    BY <2>1
  <2>3. PICK v \in 0 .. MaxDepth : v = IF reentry[r] = d THEN 0 ELSE reentry[r]
    BY <2>1
  <2>4. reentry' = [reentry EXCEPT ![r] = v]
    BY <1>3, <2>2, <2>3, Zenon
  <2>. QED BY <2>1, <2>4
<1>8. unnamed' \subseteq Threads
  BY <1>3
<1>. QED BY <1>1, <1>2, <1>4, <1>5, <1>6, <1>7, <1>8 DEF TypeOK, SignalTypes

LEMMA TypesReturn ==
  ASSUME TypeOK, GlobalsKept, Counted, NEW t \in Threads, Return(t)
  PROVE  TypeOK'
<1>1. Leaving(t, Depth(t), Top(t).reg)
  BY ReturnLeaves
<1>2. Top(t).ref \in 0 .. MaxDepth
  BY StackFacts, FrameFacts DEF Return, Runs
<1>3. /\ frameRef' = [frameRef EXCEPT ![Top(t).rt] = Top(t).ref]
      /\ start' = [start EXCEPT ![Top(t).rt] = IF Top(t).starting THEN "done" ELSE @]
  BY DEF Return
<1>4. frameRef' \in [Runtimes -> 0 .. MaxDepth] /\ start' \in [Runtimes -> {"none", "queued", "done"}]
  BY <1>2, <1>3 DEF TypeOK
<1>. QED BY <1>1, <1>4, TypesLeave

LEMMA TypesTrap ==
  ASSUME TypeOK, Counted, NEW t \in Threads, NEW r \in Runtimes, Trapping(t, r)
  PROVE  TypeOK'
<1>1. PICK reg \in 0 .. MaxWrites : Leaving(t, reentry[r], reg)
  BY TrapLeaves
<1>2. UNCHANGED <<frameRef, start>>
  BY TrapLeaves
<1>. QED BY <1>1, <1>2, TypesLeave DEF TypeOK

LEMMA TypesImport ==
  ASSUME TypeOK, Alternating, NEW t \in Threads, SetGlobal(t) \/ CallImport(t) \/ ReturnFromImport(t)
  PROVE  TypeOK'
<1>1. stack' \in [Threads -> Seq(Frame)] /\ \A u \in Threads : Depth(u)' <= MaxDepth
  BY WriteStack, ImportStack, BackStack, PushedStacks, CutStacks
<1>2. UNCHANGED <<guard, pRuntime, reentry, frameRef, start, skipped, unnamed>> /\ UNCHANGED signalVars
  BY Zenon DEF SetGlobal, CallImport, ReturnFromImport, runtimeVars, history
<1>3. link' \in [Runtimes -> 0 .. MaxWrites] /\ latest' \in [Runtimes -> 0 .. MaxWrites]
  <2>1. CASE SetGlobal(t)
    <3>1. link' = link /\ latest' = [latest EXCEPT ![Top(t).rt] = Written(Top(t).rt)] /\ Written(Top(t).rt) \in 0 .. MaxWrites
      BY <2>1, WriteStack, Zenon DEF SetGlobal
    <3>. QED BY <3>1 DEF TypeOK
  <2>2. CASE CallImport(t)
    <3>1. link' = [link EXCEPT ![Top(t).rt] = Top(t).reg] /\ latest' = latest /\ Top(t).reg \in 0 .. MaxWrites
      BY <2>2, ImportStack, FrameFacts DEF CallImport
    <3>. QED BY <3>1 DEF TypeOK
  <2>3. CASE ReturnFromImport(t)
    <3>1. link' = link /\ latest' = latest
      BY <2>3, Zenon DEF ReturnFromImport, runtimeVars
    <3>. QED BY <3>1 DEF TypeOK
  <2>. QED BY <2>1, <2>2, <2>3
<1>4. SignalTypes'
  BY <1>2, SameSignals
<1>. QED BY <1>1, <1>2, <1>3, <1>4 DEF TypeOK, SignalTypes

LEMMA TypesKept ==
  ASSUME TypeOK, Counted, NEW t \in Threads,
         LeaveGuard(t) \/ Unset(t) \/ \E r \in Runtimes : StartWithoutFunction(t, r) \/ SetGlobalFromHost(t, r)
  PROVE  TypeOK'
<1>1. CASE LeaveGuard(t)
  <2>1. UNCHANGED <<stack, reentry, frameRef, link, latest, start, skipped>> /\ UNCHANGED signalVars
    BY <1>1 DEF LeaveGuard, runtimeVars
  <2>2. /\ guard' \in [Threads -> {"none", "leaving", "unsetting"}]
        /\ pRuntime' \in [Threads -> Runtimes \union {NoRuntime}] /\ unnamed' \subseteq Threads
    BY <1>1 DEF LeaveGuard, Unguarded, TypeOK
  <2>. QED BY <2>1, <2>2, SameSignals DEF TypeOK, SignalTypes, Depth
<1>2. CASE Unset(t)
  <2>1. UNCHANGED <<stack, reentry, frameRef, link, latest, start, skipped, saved, persistent>>
    BY <1>2 DEF Unset, runtimeVars
  <2>2. /\ guard' \in [Threads -> {"none", "leaving", "unsetting"}]
        /\ pRuntime' \in [Threads -> Runtimes \union {NoRuntime}] /\ unnamed' \subseteq Threads
    BY <1>2 DEF Unset, Unguarded, TypeOK
  <2>3. counter' \in Nat /\ handler' \in {"ours", "theirs"}
    BY <1>2, CountUnset
  <2>. QED BY <2>1, <2>2, <2>3 DEF TypeOK, Depth
<1>3. ASSUME NEW r \in Runtimes, StartWithoutFunction(t, r) PROVE TypeOK'
  <2>1. UNCHANGED <<stack, reentry, frameRef, link, latest, skipped, unnamed>> /\ Guarded(t, r)
    BY <1>3 DEF StartWithoutFunction, history
  <2>2. /\ guard' \in [Threads -> {"none", "leaving", "unsetting"}]
        /\ start' \in [Runtimes -> {"none", "queued", "done"}]
        /\ pRuntime' \in [Threads -> Runtimes \union {NoRuntime}]
    BY <1>3 DEF StartWithoutFunction, Guarded, TypeOK
  <2>. QED BY <2>1, <2>2, AcquireTypes DEF TypeOK, SignalTypes, Guarded, Depth
<1>4. ASSUME NEW r \in Runtimes, SetGlobalFromHost(t, r) PROVE TypeOK'
  <2>1. UNCHANGED <<stack, guard, pRuntime, reentry, frameRef, start, skipped, unnamed>> /\ UNCHANGED signalVars
    BY <1>4 DEF SetGlobalFromHost, history
  <2>2. Written(r) \in 0 .. MaxWrites
    BY <1>4 DEF SetGlobalFromHost, Written, TypeOK
  <2>3. link' \in [Runtimes -> 0 .. MaxWrites] /\ latest' \in [Runtimes -> 0 .. MaxWrites]
    BY <1>4, <2>2 DEF SetGlobalFromHost, TypeOK
  <2>. QED BY <2>1, <2>3, SameSignals DEF TypeOK, SignalTypes, Depth
<1>. QED BY <1>1, <1>2, <1>3, <1>4

LEMMA TypesRefuse ==
  ASSUME TypeOK, NEW t \in Threads, NEW r \in Runtimes, Refuses(t, r)
  PROVE  TypeOK'
<1>1. PICK guarded \in BOOLEAN : Calling(t, r, guarded) /\ Refuse(t, r, guarded)
  BY Zenon DEF Refuses, Refused
<1>2. SignalTypes' /\ pRuntime' \in [Threads -> Runtimes \union {NoRuntime}]
  BY <1>1, CallingTypes
<1>3. UNCHANGED <<stack, link, latest, start, skipped, unnamed>>
  BY <1>1 DEF Refuse, history
<1>4. /\ frameRef' = [frameRef EXCEPT ![r] = Prepared(r)]
      /\ reentry' = [reentry EXCEPT ![r] = 0]
      /\ guard' = [guard EXCEPT ![t] = IF guarded THEN "leaving" ELSE @]
  BY <1>1 DEF Refuse
<1>5. /\ frameRef' \in [Runtimes -> 0 .. MaxDepth] /\ reentry' \in [Runtimes -> 0 .. MaxDepth]
      /\ guard' \in [Threads -> {"none", "leaving", "unsetting"}]
  BY <1>4 DEF TypeOK, Prepared
<1>. QED BY <1>2, <1>3, <1>5 DEF TypeOK, SignalTypes, Depth

LEMMA TypesOutside ==
  ASSUME TypeOK, Counted, Outside
  PROVE  TypeOK'
<1>1. UNCHANGED <<stack, guard, pRuntime, reentry, frameRef, link, latest, start, counter, skipped, unnamed>>
  BY DEF Outside, InitEnvironment, DestroyEnvironment, vars, runtimeVars, signalVars, history
<1>2. handler' \in {"ours", "theirs"} /\ saved' \in {"default", "theirs"}
  BY CountOutside
<1>3. persistent' \in BOOLEAN
  BY DEF Outside, InitEnvironment, DestroyEnvironment, vars, signalVars, TypeOK
<1>. QED BY <1>1, <1>2, <1>3 DEF TypeOK, Depth

LEMMA TypeOKKept ==
  ASSUME TypeOK, Alternating, GlobalsKept, Counted, [Next]_vars
  PROVE  TypeOK'
<1>1. Kind
  BY Steps
<1>2. ASSUME NEW t \in Threads, NEW r \in Runtimes, Entering(t, r) PROVE TypeOK'
  <2>1. Enters(t, r) \/ Refuses(t, r)
    BY <1>2, Zenon DEF Entering, Enters, Refuses
  <2>. QED BY <2>1, TypesEnter, TypesRefuse
<1>. QED BY <1>1, <1>2, TypesTrap, TypesImport, TypesReturn, TypesKept, TypesOutside DEF Kind, Outside

(***************************************************************************)
(* Where traps unwind to and the list of frames, as long as modules do not *)
(* call each other in a circle and the fence refuses no callback.          *)
(***************************************************************************)
Disciplined == Liberties \intersect {"crossing", "fence"} = {}

ContiguousOn(t) ==
  \A i, k \in DOMAIN stack[t] :
    stack[t][i].rt = stack[t][k].rt => \A j \in i .. k : stack[t][j].rt = stack[t][i].rt

LEMMA ContiguousStep ==
  ASSUME Contiguous, NEW t \in Threads, Others(t), ContiguousOn(t)'
  PROVE  Contiguous'
<1>1. ASSUME NEW u \in Threads PROVE ContiguousOn(u)'
  <2>1. CASE u # t
    BY <2>1 DEF Contiguous, ContiguousOn, Others
  <2>. QED BY <2>1
<1>. QED BY <1>1 DEF Contiguous, ContiguousOn

\* a module on the stack of a thread has a wrapper there
LEMMA UsesFrames ==
  ASSUME TypeOK, Alternating, NEW t \in Threads, NEW i \in 1 .. Len(stack[t])
  PROVE  FramesOf(t, stack[t][i].rt) # {}
<1>1. stack[t][i] \in Frame /\ stack[t][i].code \in {"wasm", "host"} /\ DOMAIN stack[t] = 1 .. Len(stack[t])
  BY StackFacts, FrameFacts
<1>2. CASE stack[t][i].code = "wasm"
  BY <1>1, <1>2 DEF FramesOf
<1>3. CASE stack[t][i].code = "host"
  <2>1. i # 1
    BY <1>1, <1>3, StackFacts DEF Alternating
  <2>2. i \in DOMAIN stack[t] \ {1} /\ i - 1 \in 1 .. Len(stack[t])
    BY <1>1, <2>1, StackFacts
  <2>3. stack[t][i].code # stack[t][i - 1].code /\ stack[t][i].rt = stack[t][i - 1].rt
    BY <1>3, <2>2, Zenon DEF Alternating
  <2>4. i - 1 \in FramesOf(t, stack[t][i].rt)
    BY <1>1, <1>3, <2>2, <2>3, StackFacts, FrameFacts DEF FramesOf
  <2>. QED BY <2>4
<1>. QED BY <1>1, <1>2, <1>3

LEMMA PushedContiguous ==
  ASSUME TypeOK, Alternating, Contiguous, NEW t \in Threads, NEW f \in Frame, Pushed(t, f),
         stack[t] # <<>> => f.rt = Top(t).rt \/ FramesOf(t, f.rt) = {}
  PROVE  Contiguous'
<1>. DEFINE n == Len(stack[t])
<1>1. /\ n \in Nat /\ DOMAIN stack[t] = 1 .. n /\ DOMAIN stack'[t] = 1 .. n + 1 /\ (stack[t] # <<>> <=> n # 0)
      /\ \A i \in 1 .. n : stack'[t][i] = stack[t][i]
      /\ stack'[t][n + 1] = f
      /\ n # 0 => Top(t) = stack[t][n]
  BY StackFacts, LenProperties DEF Pushed
<1>2. \A i \in 1 .. n : FramesOf(t, stack[t][i].rt) # {}
  BY UsesFrames
<1>. HIDE DEF n
<1>3. ASSUME NEW i \in 1 .. n + 1, NEW k \in 1 .. n + 1, stack'[t][i].rt = stack'[t][k].rt, NEW j \in i .. k
      PROVE  stack'[t][j].rt = stack'[t][i].rt
  <2>1. CASE i = n + 1
    <3>1. j = i
      BY <1>1, <2>1
    <3>. QED BY <3>1
  <2>2. CASE i \in 1 .. n /\ k \in 1 .. n
    <3>1. j \in 1 .. n /\ stack[t][i].rt = stack[t][k].rt /\ i \in DOMAIN stack[t] /\ k \in DOMAIN stack[t]
      BY <1>1, <1>3, <2>2
    <3>2. stack[t][j].rt = stack[t][i].rt
      BY <3>1, Zenon DEF Contiguous
    <3>. QED BY <1>1, <2>2, <3>1, <3>2
  <2>3. CASE i \in 1 .. n /\ k = n + 1
    <3>1. n # 0 /\ n \in 1 .. n /\ stack[t][i].rt = f.rt /\ stack'[t][i] = stack[t][i]
      BY <1>1, <1>3, <2>3
    <3>2. f.rt = stack[t][n].rt
      BY <1>1, <1>2, <2>3, <3>1
    <3>3. CASE j = n + 1
      BY <1>1, <3>1, <3>3
    <3>4. CASE j # n + 1
      <4>1. j \in i .. n /\ j \in 1 .. n
        BY <1>1, <2>3, <3>4
      <4>2. stack[t][i].rt = stack[t][n].rt /\ i \in DOMAIN stack[t] /\ n \in DOMAIN stack[t]
        BY <1>1, <2>3, <3>1, <3>2
      <4>3. stack[t][j].rt = stack[t][i].rt
        BY <4>1, <4>2, Zenon DEF Contiguous
      <4>. QED BY <1>1, <2>3, <4>1, <4>3
    <3>. QED BY <3>3, <3>4
  <2>. QED BY <1>1, <2>1, <2>2, <2>3
<1>4. ContiguousOn(t)'
  BY <1>1, <1>3, Zenon DEF ContiguousOn
<1>. QED BY <1>4, ContiguousStep DEF Pushed

LEMMA CutContiguous ==
  ASSUME TypeOK, Contiguous, NEW t \in Threads, NEW n, Cut(t, n)
  PROVE  Contiguous'
<1>1. /\ DOMAIN stack[t] = 1 .. Len(stack[t]) /\ Len(stack[t]) \in Nat /\ DOMAIN stack'[t] = 1 .. n /\ n \in 0 .. Len(stack[t])
      /\ \A i \in 1 .. n : stack'[t][i].rt = stack[t][i].rt
  BY StackFacts, LenProperties DEF Cut, Same
<1>2. ASSUME NEW i \in 1 .. n, NEW k \in 1 .. n, stack'[t][i].rt = stack'[t][k].rt, NEW j \in i .. k
      PROVE  stack'[t][j].rt = stack'[t][i].rt
  <2>1. /\ j \in 1 .. n /\ i \in DOMAIN stack[t] /\ k \in DOMAIN stack[t]
        /\ stack[t][i].rt = stack[t][k].rt
    BY <1>1, <1>2
  <2>2. stack[t][j].rt = stack[t][i].rt
    BY <2>1, Zenon DEF Contiguous
  <2>. QED BY <1>1, <2>1, <2>2
<1>3. ContiguousOn(t)'
  BY <1>1, <1>2, Zenon DEF ContiguousOn
<1>. QED BY <1>3, ContiguousStep DEF Cut

\* the frames from one of the module on top of the stack on are that module's
LEMMA LeavingOwn ==
  ASSUME TypeOK, Contiguous, NEW t \in Threads,
         NEW d \in 1 .. Len(stack[t]), NEW r, stack[t][d].rt = r, Top(t).rt = r
  PROVE  \A j \in d .. Len(stack[t]) : stack[t][j].rt = r
<1>1. /\ Len(stack[t]) \in DOMAIN stack[t] /\ d \in DOMAIN stack[t]
      /\ stack[t][d].rt = stack[t][Len(stack[t])].rt
  BY StackFacts
<1>. QED BY <1>1, Zenon DEF Contiguous

TargetOn(r) ==
  \/ reentry[r] = 0 /\ \A t \in Threads : FramesOf(t, r) = {}
  \/ \E t \in Threads : Outermost(t, r, reentry[r])

TraceOn(t, r) ==
  \A d \in FramesOf(t, r) :
    /\ Innermost(t, r, frameRef[r])
    /\ LET p == stack[t][d].ref
       IN  IF Outermost(t, r, d) THEN p = 0
           ELSE p \in FramesOf(t, r) /\ p < d /\ \A e \in FramesOf(t, r) : e <= p \/ d <= e

LEMMA OnParts ==
  /\ Targets <=> \A r \in Runtimes : TargetOn(r)
  /\ Traces <=> \A t \in Threads, r \in Runtimes : TraceOn(t, r)
  BY DEF Targets, TargetOn, Traces, TraceOn

LEMMA OnPartsNext ==
  /\ Targets' <=> \A r \in Runtimes : TargetOn(r)'
  /\ Traces' <=> \A t \in Threads, r \in Runtimes : TraceOn(t, r)'
  BY DEF Targets, TargetOn, Traces, TraceOn

LEMMA TargetSame ==
  ASSUME NEW r, \A u \in Threads : FramesOf(u, r)' = FramesOf(u, r), reentry'[r] = reentry[r], TargetOn(r)
  PROVE  TargetOn(r)'
  BY DEF TargetOn, Outermost

LEMMA TraceSame ==
  ASSUME NEW t, NEW r, FramesOf(t, r)' = FramesOf(t, r), frameRef'[r] = frameRef[r],
         \A d \in FramesOf(t, r) : stack'[t][d].ref = stack[t][d].ref, TraceOn(t, r)
  PROVE  TraceOn(t, r)'
  BY DEF TraceOn, Outermost, Innermost

LEMMA TraceNone ==
  ASSUME NEW t, NEW r, FramesOf(t, r)' = {}
  PROVE  TraceOn(t, r)'
  BY DEF TraceOn

\* only one thread can have frames of the module
LEMMA TargetOfUser ==
  ASSUME TypeOK, Targets, NEW t \in Threads, NEW r \in Runtimes, \A u \in Threads \ {t} : FramesOf(u, r) = {}
  PROVE  IF FramesOf(t, r) = {} THEN reentry[r] = 0 ELSE reentry[r] # 0 /\ Outermost(t, r, reentry[r])
<1>1. \A u \in Threads : Outermost(u, r, reentry[r]) => u = t /\ FramesOf(t, r) # {}
  BY DEF Outermost
<1>2. 0 \notin FramesOf(t, r)
  BY FramesFacts
<1>. QED BY <1>1, <1>2 DEF Targets, Outermost

LEMMA AloneUser ==
  ASSUME Alone, NEW t \in Threads, NEW r \in Runtimes, FramesOf(t, r) # {}
  PROVE  \A u \in Threads \ {t} : FramesOf(u, r) = {}
  BY DEF Alone

LEMMA OrderEnter ==
  ASSUME TypeOK, Alternating, Alone, Contiguous, Targets, Traces, Disciplined,
         NEW t \in Threads, NEW r \in Runtimes, Enters(t, r)
  PROVE  Contiguous' /\ Targets' /\ Traces'
<1>1. PICK guarded \in BOOLEAN, starting \in BOOLEAN : Calling(t, r, guarded) /\ Enter(t, r, guarded, starting)
  BY Zenon DEF Enters
<1>. DEFINE f == Wasm(r, link[r], Prepared(r), guarded, starting)
<1>2. f \in Frame /\ Pushed(t, f) /\ f.rt = r /\ f.code = "wasm" /\ f.ref = Prepared(r)
  BY <1>1, EnterStack DEF Wasm
<1>3. PICK n \in 0 .. MaxDepth : n = Depth(t) /\ n = Len(stack[t])
  BY StackFacts
<1>4. /\ frameRef' = [frameRef EXCEPT ![r] = n + 1]
      /\ reentry' = [reentry EXCEPT ![r] = IF reentry[r] = 0 THEN n + 1 ELSE reentry[r]]
  BY <1>1, <1>3 DEF Enter, FirstFrame
<1>5. /\ frameRef'[r] = n + 1 /\ reentry'[r] = (IF reentry[r] = 0 THEN n + 1 ELSE reentry[r])
      /\ \A q \in Runtimes \ {r} : frameRef'[q] = frameRef[q] /\ reentry'[q] = reentry[q]
  BY <1>4 DEF TypeOK
<1>6. stack[t] # <<>> => f.rt = Top(t).rt \/ FramesOf(t, f.rt) = {}
  BY <1>1, <1>2 DEF Calling, MayCallBack, Disciplined
<1>7. \A u \in Threads \ {t} : FramesOf(u, r) = {}
  BY <1>1 DEF Calling, UsedElsewhere
<1>. HIDE DEF f
<1>8. /\ \A u \in Threads, q \in Runtimes : u # t \/ q # r => FramesOf(u, q)' = FramesOf(u, q)
      /\ FramesOf(t, r)' = FramesOf(t, r) \union {n + 1}
  BY <1>2, <1>3, PushedFrames, ZenonT(60)
<1>9. /\ \A i \in 1 .. n : stack'[t][i] = stack[t][i]
      /\ stack'[t][n + 1] = f
      /\ \A u \in Threads \ {t} : stack'[u] = stack[u]
  BY <1>2, <1>3 DEF Pushed, Others
<1>10. \A i \in FramesOf(t, r) : i \in 1 .. n
  BY <1>3, FramesFacts
<1>11. IF FramesOf(t, r) = {} THEN reentry[r] = 0 ELSE reentry[r] # 0 /\ Outermost(t, r, reentry[r])
  BY <1>7, TargetOfUser
<1>12. Contiguous'
  BY <1>2, <1>6, PushedContiguous
<1>13. ASSUME NEW q \in Runtimes PROVE TargetOn(q)'
  <2>1. CASE q # r
    BY <1>5, <1>8, <2>1, TargetSame, OnParts
  <2>2. CASE q = r
    <3>1. PICK v : v = IF reentry[r] = 0 THEN n + 1 ELSE reentry[r]
      OBVIOUS
    <3>2. Outermost(t, r, v)' /\ reentry'[r] = v
      BY <1>5, <1>8, <1>10, <1>11, <3>1 DEF Outermost
    <3>3. Outermost(t, r, reentry[r])'
      BY <3>2 DEF Outermost
    <3>. QED BY <2>2, <3>3 DEF TargetOn
  <2>. QED BY <2>1, <2>2
<1>14. ASSUME NEW u \in Threads, NEW q \in Runtimes PROVE TraceOn(u, q)'
  <2>1. CASE q # r
    <3>1. \A d \in FramesOf(u, q) : stack'[u][d].ref = stack[u][d].ref
      <4>1. CASE u # t
        BY <1>9, <4>1
      <4>2. CASE u = t
        BY <1>3, <1>9, <4>2, FramesFacts
      <4>. QED BY <4>1, <4>2
    <3>. QED BY <1>5, <1>8, <2>1, <3>1, TraceSame, OnParts
  <2>2. CASE q = r /\ u # t
    BY <1>7, <1>8, <2>2, TraceNone
  <2>3. CASE q = r /\ u = t
    <3>1. Innermost(t, r, frameRef[r])'
      BY <1>5, <1>8, <1>10 DEF Innermost
    <3>2. ASSUME NEW d \in FramesOf(t, r)'
          PROVE  LET p == stack'[t][d].ref
                 IN  IF Outermost(t, r, d)' THEN p = 0
                     ELSE p \in FramesOf(t, r)' /\ p < d /\ \A e \in FramesOf(t, r)' : e <= p \/ d <= e
      <4>1. CASE d = n + 1 /\ FramesOf(t, r) = {}
        BY <1>2, <1>8, <1>9, <1>11, <4>1 DEF Outermost, Prepared
      <4>2. CASE d = n + 1 /\ FramesOf(t, r) # {}
        <5>1. stack'[t][d].ref = frameRef[r] /\ Innermost(t, r, frameRef[r])
          BY <1>2, <1>9, <1>11, <4>2 DEF Prepared, Traces
        <5>2. ~(Outermost(t, r, d)')
          BY <1>8, <1>10, <4>2 DEF Outermost
        <5>. QED BY <1>8, <1>10, <4>2, <5>1, <5>2 DEF Innermost
      <4>3. CASE d \in FramesOf(t, r)
        <5>1. d \in 1 .. n /\ stack'[t][d].ref = stack[t][d].ref
          BY <1>9, <1>10, <4>3
        <5>2. Outermost(t, r, d)' <=> Outermost(t, r, d)
          BY <1>8, <1>10, <4>3 DEF Outermost
        <5>3. LET p == stack[t][d].ref
              IN  IF Outermost(t, r, d) THEN p = 0
                  ELSE p \in FramesOf(t, r) /\ p < d /\ \A e \in FramesOf(t, r) : e <= p \/ d <= e
          BY <4>3 DEF Traces
        <5>. QED BY <1>8, <1>10, <5>1, <5>2, <5>3
      <4>. QED BY <1>8, <4>1, <4>2, <4>3
    <3>. QED BY <2>3, <3>1, <3>2 DEF TraceOn
  <2>. QED BY <2>1, <2>2, <2>3
<1>. QED BY <1>12, <1>13, <1>14, OnPartsNext

\* the wrapper's frame d is the outermost or the innermost one of its module
LEMMA OrderLeave ==
  ASSUME TypeOK, Alternating, Alone, Contiguous, Targets, Traces,
         NEW t \in Threads, NEW d, NEW reg, NEW r \in Runtimes, Leaving(t, d, reg), r = stack[t][d].rt,
         Top(t).rt = r,
         d = reentry[r] \/ (d = Depth(t) /\ frameRef'[r] = stack[t][d].ref),
         \A q \in Runtimes \ {r} : frameRef'[q] = frameRef[q]
  PROVE  Contiguous' /\ Targets' /\ Traces'
<1>1. PICK n \in 0 .. MaxDepth : n = Depth(t) /\ n = Len(stack[t])
  BY StackFacts
<1>2. d \in 1 .. n /\ d \in FramesOf(t, r) /\ Cut(t, d - 1)
  BY <1>1, LeavingFacts, LeavingStack
<1>3. \A j \in d .. n : stack[t][j].rt = r
  BY <1>1, <1>2, LeavingOwn
<1>4. \A u \in Threads \ {t} : FramesOf(u, r) = {}
  BY <1>2, AloneUser
<1>5. Outermost(t, r, reentry[r]) /\ reentry[r] # 0
  BY <1>2, <1>4, TargetOfUser
<1>6. /\ \A u \in Threads \ {t}, q \in Runtimes : FramesOf(u, q)' = FramesOf(u, q)
      /\ \A q \in Runtimes : FramesOf(t, q)' = {i \in FramesOf(t, q) : i <= d - 1}
  BY <1>2, CutFrames
<1>7. \A q \in Runtimes \ {r} : FramesOf(t, q)' = FramesOf(t, q)
  <2>. TAKE q \in Runtimes \ {r}
  <2>1. \A i \in FramesOf(t, q) : i \in 1 .. n /\ stack[t][i].rt = q
    BY <1>1, FramesFacts
  <2>2. \A i \in FramesOf(t, q) : i <= d - 1
    BY <1>2, <1>3, <2>1
  <2>. QED BY <1>6, <2>2
<1>8. \A i \in FramesOf(t, r) : i \in 1 .. n
  BY <1>1, FramesFacts
<1>15. \A i : i \in FramesOf(t, r)' <=> i \in FramesOf(t, r) /\ i \in 1 .. n /\ i <= d - 1
  BY <1>6, <1>8
<1>16. \A e \in FramesOf(t, r) : e \in Int /\ reentry[r] <= e
  BY <1>5, <1>8 DEF Outermost
<1>9. /\ \A i \in 1 .. d - 1 : stack'[t][i].ref = stack[t][i].ref
      /\ \A u \in Threads \ {t} : stack'[u] = stack[u]
  BY <1>2 DEF Cut, Same, Others
<1>10. reentry'[r] = (IF reentry[r] = d THEN 0 ELSE reentry[r]) /\ \A q \in Runtimes \ {r} : reentry'[q] = reentry[q]
  <2>1. reentry' = [reentry EXCEPT ![r] = IF @ = d THEN 0 ELSE @]
    BY DEF Leaving, Leave
  <2>. QED BY <2>1 DEF TypeOK
<1>11. \A q \in Runtimes \ {r} : frameRef'[q] = frameRef[q]
  OBVIOUS
<1>12. ASSUME NEW q \in Runtimes PROVE TargetOn(q)'
  <2>1. CASE q # r
    BY <1>6, <1>7, <1>10, <2>1, TargetSame, OnParts
  <2>2. CASE q = r /\ reentry[r] = d
    <3>1. FramesOf(t, r)' = {} /\ reentry'[r] = 0
      BY <1>2, <1>10, <1>15, <1>16, <2>2
    <3>. QED BY <1>4, <1>6, <2>2, <3>1 DEF TargetOn
  <2>3. CASE q = r /\ reentry[r] # d
    <3>1. PICK v : v = reentry[r]
      OBVIOUS
    <3>5. v \in FramesOf(t, r) /\ \A e \in FramesOf(t, r) : v <= e
      BY <1>5, <3>1, Zenon DEF Outermost
    <3>6. v \in 1 .. n /\ v <= d /\ v # d /\ d \in 1 .. n
      BY <1>2, <1>8, <2>3, <3>1, <3>5
    <3>2. v \in FramesOf(t, r) /\ v <= d - 1 /\ \A e \in FramesOf(t, r) : v <= e
      BY <3>5, <3>6
    <3>3. Outermost(t, r, v)' /\ reentry'[r] = v
      BY <1>8, <1>10, <1>15, <2>3, <3>1, <3>2 DEF Outermost
    <3>4. Outermost(t, r, reentry[r])'
      BY <3>3 DEF Outermost
    <3>. QED BY <2>3, <3>4 DEF TargetOn
  <2>. QED BY <2>1, <2>2, <2>3
<1>13. ASSUME NEW u \in Threads, NEW q \in Runtimes PROVE TraceOn(u, q)'
  <2>1. CASE u # t
    BY <1>4, <1>6, <1>9, <1>11, <2>1, TraceSame, TraceNone, OnParts
  <2>2. CASE u = t /\ q # r
    <3>1. \A i \in FramesOf(t, q) : i \in 1 .. d - 1
      BY <1>1, <1>2, <1>6, <1>7, <2>2, FramesFacts
    <3>. QED BY <1>7, <1>9, <1>11, <2>2, <3>1, TraceSame, OnParts
  <2>3. CASE u = t /\ q = r /\ d = reentry[r]
    <3>1. ASSUME NEW i \in FramesOf(t, r)' PROVE FALSE
      <4>1. i \in FramesOf(t, r) /\ i \in 1 .. n /\ i <= d - 1 /\ d \in 1 .. n
        BY <1>2, <1>15, <3>1
      <4>2. d <= i
        BY <1>16, <2>3, <4>1, Zenon
      <4>. QED BY <4>1, <4>2
    <3>2. FramesOf(t, r)' = {}
      BY <3>1
    <3>. QED BY <2>3, <3>2, TraceNone
  <2>4. CASE u = t /\ q = r /\ d # reentry[r]
    <3>1. PICK p : p = stack[t][d].ref
      OBVIOUS
    <3>2. frameRef'[r] = p
      BY <2>4, <3>1 DEF TypeOK
    <3>3. ~Outermost(t, r, d)
      BY <1>2, <1>5, <1>8, <2>4 DEF Outermost
    <3>4. p \in FramesOf(t, r) /\ p < d /\ \A e \in FramesOf(t, r) : e <= p \/ d <= e
      BY <1>2, <3>1, <3>3 DEF Traces
    <3>5. Innermost(t, r, p)'
      BY <1>2, <1>8, <1>15, <3>4 DEF Innermost
    <3>6. Innermost(t, r, frameRef[r])'
      BY <3>2, <3>5 DEF Innermost
    <3>7. ASSUME NEW c \in FramesOf(t, r)'
          PROVE  LET k == stack'[t][c].ref
                 IN  IF Outermost(t, r, c)' THEN k = 0
                     ELSE k \in FramesOf(t, r)' /\ k < c /\ \A e \in FramesOf(t, r)' : e <= k \/ c <= e
      <4>1. c \in FramesOf(t, r) /\ c \in 1 .. d - 1 /\ stack'[t][c].ref = stack[t][c].ref
        BY <1>2, <1>8, <1>9, <1>15
      <4>2. Outermost(t, r, c)' <=> Outermost(t, r, c)
        BY <1>2, <1>8, <1>15, <4>1 DEF Outermost
      <4>3. PICK k : k = stack[t][c].ref
        OBVIOUS
      <4>4. IF Outermost(t, r, c) THEN k = 0
            ELSE k \in FramesOf(t, r) /\ k < c /\ \A e \in FramesOf(t, r) : e <= k \/ c <= e
        BY <4>1, <4>3 DEF Traces
      <4>5. IF Outermost(t, r, c) THEN k = 0
            ELSE k \in FramesOf(t, r)' /\ k < c /\ \A e \in FramesOf(t, r)' : e <= k \/ c <= e
        <5>1. CASE Outermost(t, r, c)
          BY <4>4, <5>1
        <5>2. CASE ~Outermost(t, r, c)
          <6>1. k \in FramesOf(t, r) /\ k < c /\ \A e \in FramesOf(t, r) : e <= k \/ c <= e
            BY <4>4, <5>2
          <6>2. k \in 1 .. n /\ d \in 1 .. n
            BY <1>2, <1>8, <6>1
          <6>3. k \in FramesOf(t, r)'
            BY <1>15, <4>1, <6>1, <6>2
          <6>4. \A e \in FramesOf(t, r)' : e \in FramesOf(t, r)
            BY <1>15, Zenon
          <6>. QED BY <5>2, <6>1, <6>3, <6>4, Zenon
        <5>. QED BY <5>1, <5>2
      <4>. QED BY <4>1, <4>2, <4>3, <4>5
    <3>. QED BY <2>4, <3>6, <3>7 DEF TraceOn
  <2>. QED BY <2>1, <2>2, <2>3, <2>4
<1>14. Contiguous'
  BY <1>2, CutContiguous
<1>. QED BY <1>12, <1>13, <1>14, OnPartsNext

LEMMA OrderSame ==
  ASSUME Targets, Traces, UNCHANGED <<reentry, frameRef>>,
         \A u \in Threads, q \in Runtimes : FramesOf(u, q)' = FramesOf(u, q),
         \A u \in Threads, q \in Runtimes : \A d \in FramesOf(u, q) : stack'[u][d].ref = stack[u][d].ref
  PROVE  Targets' /\ Traces'
<1>1. ASSUME NEW q \in Runtimes PROVE TargetOn(q)'
  BY TargetSame, OnParts
<1>2. ASSUME NEW u \in Threads, NEW q \in Runtimes PROVE TraceOn(u, q)'
  BY TraceSame, OnParts
<1>. QED BY <1>1, <1>2, OnPartsNext

LEMMA OrderImport ==
  ASSUME TypeOK, Alternating, Contiguous, Targets, Traces, NEW t \in Threads,
         SetGlobal(t) \/ CallImport(t) \/ ReturnFromImport(t)
  PROVE  Contiguous' /\ Targets' /\ Traces'
<1>1. UNCHANGED <<reentry, frameRef>>
  BY Zenon DEF SetGlobal, CallImport, ReturnFromImport, runtimeVars
<1>2. PICK n \in 0 .. MaxDepth : n = Depth(t) /\ n = Len(stack[t])
  BY StackFacts
<1>3. \A q : \A i \in FramesOf(t, q) : i \in 1 .. n /\ stack[t][i].code = "wasm"
  BY <1>2, FramesFacts DEF FramesOf
<1>4. CASE CallImport(t)
  <2>. DEFINE f == Host(Top(t).rt)
  <2>1. f \in Frame /\ Pushed(t, f) /\ f.code = "host" /\ f.rt = Top(t).rt
    BY <1>4, ImportStack DEF Host
  <2>. HIDE DEF f
  <2>2. Contiguous'
    BY <2>1, PushedContiguous
  <2>3. \A u \in Threads, q \in Runtimes : FramesOf(u, q)' = FramesOf(u, q)
    BY <2>1, PushedFrames
  <2>4. \A u \in Threads, q \in Runtimes : \A d \in FramesOf(u, q) : stack'[u][d].ref = stack[u][d].ref
    BY <1>2, <1>3, <2>1 DEF Pushed, Others
  <2>. QED BY <1>1, <2>2, <2>3, <2>4, OrderSame
<1>5. CASE SetGlobal(t) \/ ReturnFromImport(t)
  <2>1. PICK m \in 0 .. n : Cut(t, m) /\ \A q : \A i \in FramesOf(t, q) : i <= m
    <3>1. CASE SetGlobal(t)
      <4>1. Cut(t, n)
        BY <1>2, <3>1, WriteStack
      <4>2. n \in 0 .. n /\ \A q : \A i \in FramesOf(t, q) : i <= n
        BY <1>3
      <4>. QED BY <4>1, <4>2
    <3>2. CASE ReturnFromImport(t)
      <4>1. n >= 2 /\ Cut(t, n - 1) /\ stack[t][n].code = "host"
        BY <1>2, <3>2, BackStack, StackFacts
      <4>2. \A q : \A i \in FramesOf(t, q) : i <= n - 1
        BY <1>2, <1>3, <4>1
      <4>3. n - 1 \in 0 .. n
        BY <4>1
      <4>. QED BY <4>1, <4>2, <4>3
    <3>. QED BY <1>5, <3>1, <3>2
  <2>2. Contiguous'
    BY <2>1, CutContiguous
  <2>3. \A u \in Threads, q \in Runtimes : FramesOf(u, q)' = FramesOf(u, q)
    BY <2>1, CutFrames
  <2>4. \A u \in Threads, q \in Runtimes : \A d \in FramesOf(u, q) : stack'[u][d].ref = stack[u][d].ref
    <3>1. \A i \in 1 .. m : stack'[t][i].ref = stack[t][i].ref
      BY <2>1 DEF Cut, Same
    <3>2. \A q : \A i \in FramesOf(t, q) : i \in 1 .. m
      BY <1>3, <2>1
    <3>. QED BY <2>1, <3>1, <3>2 DEF Cut, Others
  <2>. QED BY <1>1, <2>2, <2>3, <2>4, OrderSame
<1>. QED BY <1>4, <1>5

LEMMA OrderRefuse ==
  ASSUME TypeOK, Contiguous, Targets, Traces, Disciplined, NEW t \in Threads, NEW r \in Runtimes, Refuses(t, r)
  PROVE  Contiguous' /\ Targets' /\ Traces'
<1>1. PICK guarded \in BOOLEAN : Calling(t, r, guarded) /\ Refused(t, r, guarded)
  BY Zenon DEF Refuses
<1>2. UNCHANGED stack /\ reentry' = [reentry EXCEPT ![r] = 0] /\ frameRef' = [frameRef EXCEPT ![r] = Prepared(r)]
  BY <1>1 DEF Refused, Refuse
<1>3. \A u \in Threads : FramesOf(u, r) = {}
  BY <1>1 DEF Refused, Calling, UsedElsewhere, Disciplined
<1>4. \A u \in Threads, q \in Runtimes : FramesOf(u, q)' = FramesOf(u, q)
  BY <1>2 DEF FramesOf
<1>5. reentry'[r] = 0 /\ \A q \in Runtimes \ {r} : reentry'[q] = reentry[q] /\ frameRef'[q] = frameRef[q]
  BY <1>2 DEF TypeOK
<1>6. ASSUME NEW q \in Runtimes PROVE TargetOn(q)'
  <2>1. CASE q = r
    BY <1>3, <1>4, <1>5, <2>1 DEF TargetOn
  <2>2. CASE q # r
    BY <1>4, <1>5, <2>2, TargetSame, OnParts
  <2>. QED BY <2>1, <2>2
<1>7. ASSUME NEW u \in Threads, NEW q \in Runtimes PROVE TraceOn(u, q)'
  <2>1. CASE q = r
    BY <1>3, <1>4, <2>1, TraceNone
  <2>2. CASE q # r
    BY <1>2, <1>4, <1>5, <2>2, TraceSame, OnParts
  <2>. QED BY <2>1, <2>2
<1>8. Contiguous'
  BY <1>2 DEF Contiguous
<1>. QED BY <1>6, <1>7, <1>8, OnPartsNext

LEMMA OrderKept ==
  ASSUME TypeOK, Alternating, Alone, GlobalsKept, Contiguous, Targets, Traces, Disciplined, [Next]_vars
  PROVE  Contiguous' /\ Targets' /\ Traces'
<1>1. Kind
  BY Steps
<1>2. ASSUME NEW t \in Threads, NEW r \in Runtimes, Entering(t, r) PROVE Contiguous' /\ Targets' /\ Traces'
  <2>1. Enters(t, r) \/ Refuses(t, r)
    BY <1>2, Zenon DEF Entering, Enters, Refuses
  <2>. QED BY <2>1, OrderEnter, OrderRefuse
<1>3. ASSUME NEW t \in Threads, Return(t) PROVE Contiguous' /\ Targets' /\ Traces'
  <2>1. PICK r \in Runtimes : r = Top(t).rt
    BY <1>3, StackFacts, FrameFacts DEF Return, Runs
  <2>2. Leaving(t, Depth(t), Top(t).reg) /\ Top(t) = stack[t][Depth(t)]
    BY <1>3, ReturnLeaves DEF Top
  <2>3. frameRef' = [frameRef EXCEPT ![r] = Top(t).ref]
    BY <1>3, <2>1 DEF Return
  <2>4. frameRef'[r] = Top(t).ref /\ \A q \in Runtimes \ {r} : frameRef'[q] = frameRef[q]
    BY <2>3 DEF TypeOK
  <2>. QED BY <2>1, <2>2, <2>4, OrderLeave
<1>4. ASSUME NEW t \in Threads, NEW r \in Runtimes, Trapping(t, r) PROVE Contiguous' /\ Targets' /\ Traces'
  <2>1. PICK reg \in 0 .. MaxWrites : Leaving(t, reentry[r], reg)
    BY <1>4, TrapLeaves
  <2>2. stack[t][reentry[r]].rt = r /\ UNCHANGED frameRef
    BY <1>4, TrapLeaves
  <2>3. Top(t).rt = r
    BY <1>4 DEF Trapping, Disciplined
  <2>. QED BY <2>1, <2>2, <2>3, OrderLeave
<1>5. ASSUME UNCHANGED <<stack, reentry, frameRef>> PROVE Contiguous' /\ Targets' /\ Traces'
  BY <1>5, OrderSame DEF FramesOf, Contiguous
<1>6. ASSUME NEW t \in Threads,
             LeaveGuard(t) \/ Unset(t) \/ \E r \in Runtimes : StartWithoutFunction(t, r) \/ SetGlobalFromHost(t, r)
      PROVE  UNCHANGED <<stack, reentry, frameRef>>
  BY <1>6 DEF LeaveGuard, Unset, StartWithoutFunction, SetGlobalFromHost, runtimeVars
<1>7. ASSUME InitEnvironment \/ DestroyEnvironment \/ UNCHANGED vars
      PROVE  UNCHANGED <<stack, reentry, frameRef>>
  BY <1>7 DEF InitEnvironment, DestroyEnvironment, vars, runtimeVars
<1>. QED BY <1>1, <1>2, <1>3, <1>4, <1>5, <1>6, <1>7, OrderImport DEF Kind

(***************************************************************************)
(* The inductive invariant and what follows from it.                       *)
(***************************************************************************)
LEMMA InitIInv ==
  ASSUME Init
  PROVE  IInv
<1>1. \A t \in Threads : stack[t] = <<>> /\ Len(stack[t]) = 0 /\ DOMAIN stack[t] = {} /\ stack[t] \in Seq(Frame)
  BY EmptySeq DEF Init
<1>2. TypeOK
  <2>1. stack \in [Threads -> Seq(Frame)] /\ \A t \in Threads : Depth(t) <= MaxDepth
    BY <1>1 DEF Init, Depth
  <2>2. guard \in [Threads -> {"none", "leaving", "unsetting"}] /\ pRuntime \in [Threads -> Runtimes \union {NoRuntime}]
    BY DEF Init
  <2>3. /\ reentry \in [Runtimes -> 0 .. MaxDepth] /\ frameRef \in [Runtimes -> 0 .. MaxDepth]
        /\ link \in [Runtimes -> 0 .. MaxWrites] /\ latest \in [Runtimes -> 0 .. MaxWrites]
        /\ start \in [Runtimes -> {"none", "queued", "done"}]
    BY DEF Init
  <2>4. /\ handler \in {"ours", "theirs"} /\ saved \in {"default", "theirs"}
        /\ counter \in Nat /\ persistent \in BOOLEAN /\ skipped \in Nat /\ unnamed \subseteq Threads
    BY DEF Init
  <2>. QED BY <2>1, <2>2, <2>3, <2>4 DEF TypeOK
<1>3. \A t \in Threads, r \in Runtimes : FramesOf(t, r) = {}
  BY <1>1 DEF FramesOf
<1>4. Alternating /\ Alone /\ Contiguous /\ Targets /\ Traces /\ Named
  BY <1>1, <1>3 DEF Init, Alternating, Alone, Contiguous, Targets, Traces, Named
<1>5. GlobalsKept
  BY <1>1 DEF Init, GlobalsKept, RunsIn
<1>6. Outstanding = {}
  <2>1. \A u \in Threads, i \in 0 .. MaxDepth : ~Owes(u, i)
    BY <1>1 DEF Init, Owes
  <2>. QED BY <2>1 DEF Outstanding
<1>7. Counted
  BY <1>6, FS_EmptySet DEF Init, Counted
<1>. QED BY <1>2, <1>4, <1>5, <1>7 DEF IInv

LEMMA NextIInv ==
  ASSUME IInv, [Next]_vars
  PROVE  IInv'
<1>1. TypeOK /\ Alternating /\ Alone /\ GlobalsKept /\ Counted /\ Named /\ (Disciplined => Contiguous /\ Targets /\ Traces)
  BY DEF IInv, Disciplined
<1>2. Step
  BY <1>1, StepCases
<1>3. TypeOK' /\ Alternating' /\ Alone' /\ GlobalsKept' /\ Counted' /\ Named'
  BY <1>1, <1>2, TypeOKKept, AlternatingKept, AloneKept, GlobalsPreserved, CountedKept, NamedKept
<1>4. Disciplined => Contiguous' /\ Targets' /\ Traces'
  BY <1>1, OrderKept
<1>. QED BY <1>3, <1>4 DEF IInv, Disciplined

-----------------------------------------------------------------------------
(***************************************************************************)
(* The theorems.                                                           *)
(***************************************************************************)
LEMMA Inductive == Spec => []IInv
<1>1. Init => IInv
  BY InitIInv
<1>2. IInv /\ [Next]_vars => IInv'
  BY NextIInv
<1>. QED BY <1>1, <1>2, PTL DEF Spec

\* Whatever calls, callbacks, returns and traps follow each other, the wrapper
\* records, link data and signal handler state stay within their types.
THEOREM TypeCorrect == Spec => []TypeOK
<1>1. IInv => TypeOK
  BY DEF IInv
<1>. QED BY <1>1, Inductive, PTL

\* The global cached in a register of compiled code is never lost: not by an
\* import, a callback, a trap or an interruption (moveGlobalsToLinkData,
\* recoverGlobalsToRegs), for any number of modules, threads and frames.
THEOREM GlobalsSurvive == Spec => []GlobalsKept
<1>1. IInv => GlobalsKept
  BY DEF IInv
<1>. QED BY <1>1, Inductive, PTL

LEMMA NothingOutstanding ==
  ASSUME TypeOK, Quiet
  PROVE  Outstanding = {}
<1>1. \A u \in Threads, i \in 0 .. MaxDepth : ~Owes(u, i)
  <2>. SUFFICES ASSUME NEW u \in Threads, NEW i \in 0 .. MaxDepth, Owes(u, i)
                PROVE  FALSE
    OBVIOUS
  <2>1. guard[u] = "none" /\ stack[u] = <<>>
    BY DEF Quiet, Idle
  <2>2. DOMAIN stack[u] = {}
    BY <2>1
  <2>. QED BY <2>1, <2>2 DEF Owes
<1>. QED BY <1>1 DEF Outstanding

LEMMA HandlersOfIInv == IInv => HandlersRestored
<1>. SUFFICES ASSUME IInv, Quiet, ~persistent, skipped = 0
              PROVE  handler = "theirs" /\ counter = 0
  BY DEF HandlersRestored
<1>1. Outstanding = {}
  BY NothingOutstanding DEF IInv
<1>2. Cardinality(Outstanding) = 0
  BY <1>1, FS_EmptySet
<1>3. counter = 0
  BY <1>2 DEF IInv, Counted
<1>4. handler = "theirs"
  BY <1>3 DEF IInv, Counted
<1>. QED BY <1>3, <1>4

\* However guarded calls of any number of threads overlap, the last guard to go
\* gives the process its handler back (unsetSignalHandler, runningCounter).
THEOREM HandlersGivenBack == Spec => []HandlersRestored
<1>. QED BY HandlersOfIInv, Inductive, PTL

LEMMA OuterGuardOwed ==
  ASSUME TypeOK, Alternating, NEW t \in Threads, stack[t] # <<>>
  PROVE  <<t, 1>> \in Outstanding
<1>1. stack[t] \in Seq(Frame) /\ Len(stack[t]) <= MaxDepth
  BY DEF TypeOK, Depth
<1>2. 1 \in DOMAIN stack[t] /\ 1 \in 0 .. MaxDepth
  BY <1>1, SeqFacts
<1>3. stack[t][1].guarded
  BY DEF Alternating
<1>4. Owes(t, 1)
  BY <1>2, <1>3 DEF Owes
<1>. QED BY <1>2, <1>4 DEF Outstanding

LEMMA FaultsOfIInv ==
  ASSUME IInv, "late" \notin Liberties
  PROVE  FaultFindsRuntime
<1>. SUFFICES ASSUME NEW t \in Threads, Runs(t, "wasm")
              PROVE  /\ handler = "ours"
                     /\ t \notin unnamed /\ (\A i \in DOMAIN stack[t] : stack[t][i].rt = Top(t).rt)
                          => pRuntime[t] = Top(t).rt
  BY DEF FaultFindsRuntime
<1>1. guard[t] = "none" /\ stack[t] # <<>>
  BY DEF Runs
<1>2. ~Quiet
  BY <1>1 DEF Quiet, Idle
<1>3. <<t, 1>> \in Outstanding
  BY <1>1, OuterGuardOwed DEF IInv
<1>4. Cardinality(Outstanding) \in Nat /\ Cardinality(Outstanding) # 0
  BY <1>3, FS_CardinalityType, FS_EmptySet DEF IInv, Counted
<1>5. handler = "ours"
  <2>1. CASE persistent
    BY <2>1, <1>2 DEF IInv, Counted
  <2>2. CASE ~persistent
    <3>1. counter = skipped + Cardinality(Outstanding) /\ skipped \in Nat
      BY <2>2 DEF IInv, Counted, TypeOK
    <3>2. counter # 0
      BY <3>1, <1>4
    <3>. QED BY <3>2, <2>2 DEF IInv, Counted
  <2>. QED BY <2>1, <2>2
<1>6. ASSUME t \notin unnamed, \A i \in DOMAIN stack[t] : stack[t][i].rt = Top(t).rt
      PROVE  pRuntime[t] = Top(t).rt
  BY <1>6, <1>1 DEF IInv, Named
<1>. QED BY <1>5, <1>6

\* Where initEnvironment is called only while no call is under way, compiled
\* code never runs without the library's signal handler installed or, in a call
\* of one module, without the thread's runtime set.
THEOREM FaultsFindRuntime == "late" \notin Liberties => (Spec => []FaultFindsRuntime)
<1>. SUFFICES ASSUME "late" \notin Liberties PROVE Spec => []FaultFindsRuntime
  OBVIOUS
<1>1. IInv => FaultFindsRuntime
  BY FaultsOfIInv
<1>. QED BY <1>1, Inductive, PTL

LEMMA LowestIsOutermost ==
  ASSUME NEW t \in Threads, NEW r, NEW d, TypeOK, Outermost(t, r, d)
  PROVE  Lowest(FramesOf(t, r)) = d
<1>1. d \in FramesOf(t, r) /\ \A e \in FramesOf(t, r) : d <= e
  BY DEF Outermost
<1>2. \A e \in FramesOf(t, r) : e \in Nat
  <2>1. DOMAIN stack[t] = 1 .. Len(stack[t]) /\ Len(stack[t]) \in Nat
    BY SeqFacts DEF TypeOK
  <2>. QED BY <2>1 DEF FramesOf
<1>3. Lowest(FramesOf(t, r)) \in FramesOf(t, r) /\ Lowest(FramesOf(t, r)) <= d
  BY <1>1 DEF Lowest
<1>. QED BY <1>1, <1>2, <1>3

LEMMA TargetsOfIInv ==
  ASSUME IInv, Disciplined
  PROVE  TrapTargetLive
<1>. SUFFICES ASSUME NEW r \in Runtimes
              PROVE  IF \A t \in Threads : FramesOf(t, r) = {} THEN reentry[r] = 0
                     ELSE \E t \in Threads : FramesOf(t, r) # {} /\ reentry[r] = Lowest(FramesOf(t, r))
  BY DEF TrapTargetLive
<1>1. CASE reentry[r] = 0 /\ \A t \in Threads : FramesOf(t, r) = {}
  BY <1>1
<1>2. CASE \E t \in Threads : Outermost(t, r, reentry[r])
  <2>1. PICK t \in Threads : Outermost(t, r, reentry[r])
    BY <1>2
  <2>2. Lowest(FramesOf(t, r)) = reentry[r]
    BY <2>1, LowestIsOutermost DEF IInv
  <2>3. FramesOf(t, r) # {}
    BY <2>1 DEF Outermost
  <2>. QED BY <2>2, <2>3
<1>. QED BY <1>1, <1>2 DEF IInv, Disciplined, Targets

\* Where modules do not call each other in a circle and the stack fence lets
\* callbacks in, a trap of an executing module unwinds to its outermost wrapper
\* and an idle module has nothing to unwind to (trapStackReentry).
THEOREM TrapsReturn == Liberties \intersect {"crossing", "fence"} = {} => (Spec => []TrapTargetLive)
<1>. SUFFICES ASSUME Disciplined PROVE Spec => []TrapTargetLive
  BY DEF Disciplined
<1>1. IInv => TrapTargetLive
  BY TargetsOfIInv
<1>. QED BY <1>1, Inductive, PTL

\* A non-empty set of natural numbers has a least element.
LEMMA LeastOf ==
  ASSUME NEW S \in SUBSET Nat, S # {}
  PROVE  \E m \in S : \A n \in S : m <= n
<1>. DEFINE Below(n) == 1 .. n
            Family == {Below(n) : n \in S}
            R == StrictSubsetOrdering(Nat)
<1>1. IsWellFoundedOn(R, FiniteSubsetsOf(Nat))
  BY FS_StrictSubsetOrderingWellFounded
<1>2. \A n \in S : Below(n) \in FiniteSubsetsOf(Nat)
  BY FS_Interval DEF FiniteSubsetsOf
<1>3. Family \subseteq FiniteSubsetsOf(Nat) /\ Family # {}
  BY <1>2
<1>4. \E X \in Family : \A Y \in Family : ~ (<<Y, X>> \in R)
  <2>. HIDE DEF R, Family
  <2>. QED BY <1>1, <1>3, WFMin
<1>5. PICK m \in S : \A n \in S : <<Below(n), Below(m)>> \notin R
  BY <1>4
<1>6. ASSUME NEW n \in S, ~(m <= n)
      PROVE  FALSE
  <2>1. Below(n) \subseteq Below(m) /\ Below(n) # Below(m)
    <3>1. m \in Below(m) /\ m \notin Below(n)
      BY <1>6
    <3>. QED BY <3>1, <1>6
  <2>2. Below(n) \in SUBSET Nat /\ Below(m) \in SUBSET Nat
    OBVIOUS
  <2>. HIDE DEF Below
  <2>3. <<Below(n), Below(m)>> \in R
    BY <2>1, <2>2 DEF StrictSubsetOrdering
  <2>. QED BY <2>3, <1>5
<1>. QED BY <1>6

LEMMA TracesOfIInv ==
  ASSUME IInv, Disciplined
  PROVE  TraceLive
<1>. SUFFICES ASSUME NEW t \in Threads, NEW r \in Runtimes, FramesOf(t, r) # {}
              PROVE  /\ frameRef[r] \in FramesOf(t, r)
                     /\ \A d \in FramesOf(t, r) :
                          IF d = frameRef[r] THEN \A e \in FramesOf(t, r) : e <= d
                          ELSE \E e \in FramesOf(t, r) : stack[t][e].ref = d /\ ~ \E c \in FramesOf(t, r) : d < c /\ c < e
                     /\ stack[t][Lowest(FramesOf(t, r))].ref = 0
  BY DEF TraceLive
<1>1. Targets /\ Traces /\ TypeOK /\ Alone
  BY DEF IInv, Disciplined
<1>2. FramesOf(t, r) \subseteq Nat
  <2>1. DOMAIN stack[t] = 1 .. Len(stack[t]) /\ Len(stack[t]) \in Nat
    BY <1>1, SeqFacts DEF TypeOK
  <2>. QED BY <2>1 DEF FramesOf
<1>3. Innermost(t, r, frameRef[r])
  BY <1>1 DEF Traces
<1>4. Outermost(t, r, reentry[r])
  <2>1. PICK u \in Threads : Outermost(u, r, reentry[r])
    BY <1>1 DEF Targets
  <2>2. u = t
    BY <2>1, <1>1 DEF Outermost, Alone
  <2>. QED BY <2>1, <2>2
<1>5. stack[t][Lowest(FramesOf(t, r))].ref = 0
  <2>1. Lowest(FramesOf(t, r)) = reentry[r]
    BY <1>1, <1>4, LowestIsOutermost
  <2>2. reentry[r] \in FramesOf(t, r) /\ stack[t][reentry[r]].ref = 0
    BY <1>1, <1>4 DEF Traces, Outermost
  <2>. QED BY <2>1, <2>2
<1>6. ASSUME NEW d \in FramesOf(t, r), d # frameRef[r]
      PROVE  \E e \in FramesOf(t, r) : stack[t][e].ref = d /\ ~ \E c \in FramesOf(t, r) : d < c /\ c < e
  \* the next frame further in names d
  <2>. DEFINE Inner == {e \in FramesOf(t, r) : d < e}
  <2>1. d \in Nat /\ frameRef[r] \in Nat /\ d < frameRef[r]
    BY <1>2, <1>3, <1>6 DEF Innermost
  <2>2. frameRef[r] \in Inner
    BY <2>1, <1>3 DEF Innermost
  <2>3. PICK e \in Inner : \A c \in Inner : e <= c
    BY <2>2, <1>2, LeastOf
  <2>4. e \in FramesOf(t, r) /\ d < e /\ e \in Nat /\ ~Outermost(t, r, e)
    BY <2>3, <2>1, <1>2 DEF Outermost
  <2>5. PICK p : p = stack[t][e].ref
    OBVIOUS
  <2>6. p \in FramesOf(t, r) /\ p < e /\ \A c \in FramesOf(t, r) : c <= p \/ e <= c
    BY <2>4, <2>5, <1>1 DEF Traces
  <2>7. p = d
    BY <2>6, <2>4, <2>3, <2>1, <1>2
  <2>8. ~ \E c \in FramesOf(t, r) : d < c /\ c < e
    BY <2>3, <2>4, <2>1, <1>2
  <2>. QED BY <2>4, <2>5, <2>7, <2>8
<1>. QED BY <1>3, <1>5, <1>6 DEF Innermost

\* Where modules do not call each other in a circle and the stack fence lets
\* callbacks in, a stack trace lists exactly the frames on the stack
\* (lastFrameRefPtr), although traps leave the list as it was.
THEOREM TracesAreLive == Liberties \intersect {"crossing", "fence"} = {} => (Spec => []TraceLive)
<1>. SUFFICES ASSUME Disciplined PROVE Spec => []TraceLive
  BY DEF Disciplined
<1>1. IInv => TraceLive
  BY TracesOfIInv
<1>. QED BY <1>1, Inductive, PTL

=============================================================================
