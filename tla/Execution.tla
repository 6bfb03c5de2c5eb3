------------------------------ MODULE Execution ------------------------------
(***************************************************************************)
(* Calls between the embedder, compiled code and host functions: the       *)
(* wrapper every exported function is entered through, imports, traps that *)
(* unwind the stack, and the signal handlers that turn faults into traps   *)
(* (passive linear memory, active stack check).                            *)
(*                                                                         *)
(* A thread's stack holds frames of compiled code and of host functions    *)
(* that compiled code has called.  "latest" is the value the program last  *)
(* gave to its register global.  Liberties: "fence", the first check of    *)
(* the stack fence fails for a callback; "crossing", modules call each     *)
(* other in a circle or trap one another; "late", initEnvironment is       *)
(* called while calls are under way.                                       *)
(***************************************************************************)
EXTENDS Naturals, Sequences, FiniteSets

CONSTANTS
  Threads,
  Runtimes,
  MaxDepth,      \* bound on the frames of a thread
  MaxWrites,     \* bound on the values written to a global
  MaxSkipped,    \* bound on the guards that traps unwind past
  Liberties      \* what a run lets happen that the code does not cope with

ASSUME ExecutionAssumption ==
  /\ MaxDepth \in Nat /\ MaxWrites \in Nat /\ MaxSkipped \in Nat
  /\ Liberties \subseteq {"fence", "crossing", "late"}

VARIABLES
  stack,         \* [thread -> sequence of frames], the outermost first
  guard,         \* [thread -> "none", "leaving" or "unsetting" a guard]
  pRuntime,      \* [thread -> pRuntime_]
  reentry,       \* [runtime -> frame trapStackReentry points to], 0 for none
  frameRef,      \* [runtime -> frame lastFrameRefPtr points to], 0 for none
  link,          \* [runtime -> the global in the link data]
  latest,        \* [runtime -> the value the program last wrote to the global]
  start,         \* [runtime -> queuedStartFncOffset_]
  handler,       \* whose signal handler is installed
  saved,         \* saSEGVOld
  counter,       \* runningCounter
  persistent,    \* the negation of raiiSetSignalHandler
  skipped,       \* how many guards traps have unwound past
  unnamed        \* threads for which a nested guard has ended in their present call

history == <<skipped, unnamed>>
runtimeVars == <<reentry, frameRef, link, latest, start>>
signalVars == <<handler, saved, counter, persistent>>
vars == <<stack, guard, pRuntime, runtimeVars, signalVars, history>>

NoRuntime == "null"

Wasm(r, reg, ref, guarded, starting) ==
  [code |-> "wasm", rt |-> r, reg |-> reg, ref |-> ref,
   guarded |-> guarded, starting |-> starting]
Host(r) ==
  [code |-> "host", rt |-> r, reg |-> 0, ref |-> 0,
   guarded |-> FALSE, starting |-> FALSE]

Depth(t) == Len(stack[t])
Top(t) == stack[t][Depth(t)]

\* threads that run at the bottom of their stack, in compiled code, in a host function
Idle(t) == guard[t] = "none" /\ stack[t] = <<>>
Runs(t, code) == guard[t] = "none" /\ stack[t] # <<>> /\ Top(t).code = code

FramesOf(t, r) == {i \in DOMAIN stack[t] : stack[t][i].rt = r /\ stack[t][i].code = "wasm"}
UsedElsewhere(t, r) == \E u \in Threads \ {t} : FramesOf(u, r) # {}

-----------------------------------------------------------------------------
(***************************************************************************)
(* The signal handlers, RAIISignalHandler.cpp.                             *)
(***************************************************************************)
\* setSignalHandler: what it replaces is saved unless it is the runtime's own
Install ==
  /\ handler' = "ours"
  /\ saved' = IF handler = "ours" THEN saved ELSE handler

\* a faulty variant, to show what the properties detect
AcquireUncounted ==
  /\ IF persistent THEN UNCHANGED <<handler, saved, counter>>
     ELSE IF handler = "ours" THEN UNCHANGED <<handler, saved, counter>>
     ELSE Install /\ counter' = counter + 1
  /\ UNCHANGED persistent

\* RAIISignalHandler
Acquire ==
  /\ IF persistent THEN UNCHANGED <<handler, saved, counter>>
     ELSE /\ IF counter = 0 THEN Install ELSE UNCHANGED <<handler, saved>>
          /\ counter' = counter + 1
  /\ UNCHANGED persistent

\* restoreSignalHandler
Restored == saved

\* ~ScopedRuntimeGuard
Unguarded(t) ==
  /\ guard' = [guard EXCEPT ![t] = "none"]
  /\ pRuntime' = [pRuntime EXCEPT ![t] = NoRuntime]
  /\ unnamed' = IF stack[t] = <<>> THEN unnamed \ {t} ELSE unnamed \union {t}

\* ~RAIISignalHandler reads the flag without the mutex
LeaveGuard(t) ==
  /\ guard[t] = "leaving"
  /\ IF persistent
     THEN Unguarded(t)
     ELSE guard' = [guard EXCEPT ![t] = "unsetting"] /\ UNCHANGED <<pRuntime, unnamed>>
  /\ UNCHANGED <<stack, runtimeVars, signalVars, skipped>>

\* a faulty variant, to show what the properties detect
UnsetAlways(t) ==
  /\ guard[t] = "unsetting"
  /\ counter' = counter - 1
  /\ handler' = Restored
  /\ Unguarded(t)
  /\ UNCHANGED <<stack, runtimeVars, saved, persistent, skipped>>

\* a faulty variant, to show what the properties detect
UnsetLate(t) ==
  /\ guard[t] = "unsetting"
  /\ counter' = counter - 1
  /\ handler' = IF counter = 0 THEN Restored ELSE handler
  /\ Unguarded(t)
  /\ UNCHANGED <<stack, runtimeVars, saved, persistent, skipped>>

\* unsetSignalHandler, then ~ScopedRuntimeGuard
Unset(t) ==
  /\ guard[t] = "unsetting"
  /\ counter' = counter - 1
  /\ handler' = IF counter = 1 THEN Restored ELSE handler
  /\ Unguarded(t)
  /\ UNCHANGED <<stack, runtimeVars, saved, persistent, skipped>>

\* initEnvironment and destroyEnvironment enclose the use of the library
Quiet == \A t \in Threads : Idle(t)

InitEnvironment ==
  /\ Quiet \/ "late" \in Liberties
  /\ Install
  /\ persistent' = TRUE
  /\ UNCHANGED <<stack, guard, pRuntime, runtimeVars, counter, history>>

DestroyEnvironment ==
  /\ Quiet /\ persistent /\ handler = "ours"
  /\ handler' = Restored
  /\ UNCHANGED <<stack, guard, pRuntime, runtimeVars, saved, counter, persistent, history>>

\* the embedder calls modules only between the two, or never calls either
Environment == persistent => handler = "ours"

-----------------------------------------------------------------------------
(***************************************************************************)
(* Entering compiled code: prepareForFunctionCall and the wrapper.         *)
(***************************************************************************)
\* a faulty variant, to show what the properties detect
PreparedNever(r) == frameRef[r]

\* resetStacktraceAndDebugRecords, if no function of the runtime is active
Prepared(r) == IF reentry[r] = 0 THEN 0 ELSE frameRef[r]

\* a faulty variant, to show what the properties detect
FirstFrameAlways(t, r) == Depth(t) + 1

\* the wrapper stores where traps unwind to unless it is already executing
FirstFrame(t, r) == IF reentry[r] = 0 THEN Depth(t) + 1 ELSE reentry[r]

Enter(t, r, guarded, starting) ==
  /\ Depth(t) < MaxDepth
  /\ stack' = [stack EXCEPT ![t] = Append(@, Wasm(r, link[r], Prepared(r), guarded, starting))]
  /\ frameRef' = [frameRef EXCEPT ![r] = Depth(t) + 1]
  /\ reentry' = [reentry EXCEPT ![r] = FirstFrame(t, r)]
  /\ UNCHANGED <<guard, link, latest, start, history>>

\* the first check of the stack fence: the wrapper returns with a trap code
\* and handleTrapCode resets the trap information
Refuse(t, r, guarded) ==
  /\ frameRef' = [frameRef EXCEPT ![r] = Prepared(r)]
  /\ reentry' = [reentry EXCEPT ![r] = 0]
  /\ guard' = [guard EXCEPT ![t] = IF guarded THEN "leaving" ELSE @]
  /\ UNCHANGED <<stack, link, latest, start, history>>

EnterOrRefuse(t, r, guarded, starting) ==
  /\ ~UsedElsewhere(t, r)
  /\ \/ Enter(t, r, guarded, starting)
     \/ /\ FramesOf(t, r) = {} \/ "fence" \in Liberties
        /\ Refuse(t, r, guarded)

\* SignalFunctionWrapper::call and start
Guarded(t, r) ==
  /\ pRuntime' = [pRuntime EXCEPT ![t] = r]
  /\ Acquire

(***************************************************************************)
(* Runtime::start.  Without a start function it only notes that it was     *)
(* called, and it throws when called again; every other function is        *)
(* refused before (checkIsReady).                                          *)
(***************************************************************************)
Start(t, r) ==
  /\ Idle(t) /\ Environment /\ start[r] = "queued"
  /\ EnterOrRefuse(t, r, TRUE, TRUE)
  /\ Guarded(t, r)

StartWithoutFunction(t, r) ==
  /\ Idle(t) /\ Environment /\ ~UsedElsewhere(t, r) /\ start[r] \in {"none", "done"}
  /\ start' = [start EXCEPT ![r] = "done"]
  /\ guard' = [guard EXCEPT ![t] = "leaving"]
  /\ Guarded(t, r)
  /\ UNCHANGED <<stack, reentry, frameRef, link, latest, history>>

Call(t, r) ==
  /\ Idle(t) /\ Environment /\ start[r] = "done"
  /\ EnterOrRefuse(t, r, TRUE, FALSE)
  /\ Guarded(t, r)

\* a host function calls back into its module or into another one
MayCallBack(t, r) ==
  /\ start[r] = "done"
  /\ r = Top(t).rt \/ FramesOf(t, r) = {} \/ "crossing" \in Liberties

CallBack(t, r) ==
  /\ Runs(t, "host") /\ MayCallBack(t, r)
  /\ EnterOrRefuse(t, r, FALSE, FALSE)
  /\ UNCHANGED <<pRuntime, signalVars>>

CallBackGuarded(t, r) ==
  /\ skipped < MaxSkipped
  /\ Runs(t, "host") /\ MayCallBack(t, r)
  /\ EnterOrRefuse(t, r, TRUE, FALSE)
  /\ Guarded(t, r)

-----------------------------------------------------------------------------
(***************************************************************************)
(* What compiled code does: write the global in its register, call an      *)
(* import, return.                                                         *)
(***************************************************************************)
Written(r) == latest[r] + 1

SetGlobal(t) ==
  LET r == Top(t).rt
  IN  /\ Runs(t, "wasm") /\ latest[r] < MaxWrites
      /\ stack' = [stack EXCEPT ![t][Depth(t)].reg = Written(r)]
      /\ latest' = [latest EXCEPT ![r] = Written(r)]
      /\ UNCHANGED <<guard, pRuntime, reentry, frameRef, link, start, signalVars, history>>

\* ModuleGlobal::setValue, by the host function or before a call
SetGlobalFromHost(t, r) ==
  /\ \/ Idle(t) /\ ~UsedElsewhere(t, r)
     \/ Runs(t, "host") /\ Top(t).rt = r
  /\ latest[r] < MaxWrites
  /\ link' = [link EXCEPT ![r] = Written(r)]
  /\ latest' = [latest EXCEPT ![r] = Written(r)]
  /\ UNCHANGED <<stack, guard, pRuntime, reentry, frameRef, start, signalVars, history>>

\* moveGlobalsToLinkData, then the native call
CallImport(t) ==
  /\ Runs(t, "wasm") /\ Depth(t) < MaxDepth
  /\ link' = [link EXCEPT ![Top(t).rt] = Top(t).reg]
  /\ stack' = [stack EXCEPT ![t] = Append(@, Host(Top(t).rt))]
  /\ UNCHANGED <<guard, pRuntime, reentry, frameRef, latest, start, signalVars, history>>

Caller(t) == stack[t][Depth(t) - 1]

\* a faulty variant, to show what the properties detect
Unrecovered(t) == Caller(t).reg
\* recoverGlobalsToRegs
Recovered(t) == link[Top(t).rt]

ReturnFromImport(t) ==
  /\ Runs(t, "host")
  /\ stack' = [stack EXCEPT ![t] = [SubSeq(@, 1, Depth(t) - 1) EXCEPT ![Depth(t) - 1].reg = Recovered(t)]]
  /\ UNCHANGED <<guard, pRuntime, runtimeVars, signalVars, history>>

\* the wrapper's frame d of runtime r is left, with reg in the global's register
Leave(t, d, reg) ==
  LET f == stack[t][d]
      past == {i \in d + 1 .. Depth(t) : stack[t][i].guarded}
  IN  /\ stack' = [stack EXCEPT ![t] = SubSeq(@, 1, d - 1)]
      /\ link' = [link EXCEPT ![f.rt] = reg]
      /\ reentry' = [reentry EXCEPT ![f.rt] = IF @ = d THEN 0 ELSE @]
      /\ guard' = [guard EXCEPT ![t] = IF f.guarded THEN "leaving" ELSE @]
      /\ skipped' = skipped + Cardinality(past)
      /\ unnamed' = IF past = {} THEN unnamed ELSE unnamed \union {t}
      /\ UNCHANGED <<pRuntime, signalVars>>

Return(t) ==
  LET f == Top(t)
  IN  /\ Runs(t, "wasm")
      /\ Leave(t, Depth(t), f.reg)
      /\ frameRef' = [frameRef EXCEPT ![f.rt] = f.ref]
      /\ start' = [start EXCEPT ![f.rt] = IF f.starting THEN "done" ELSE @]
      /\ UNCHANGED latest

-----------------------------------------------------------------------------
(***************************************************************************)
(* Traps.  The stack is unwound to where reentry points, and that wrapper  *)
(* stores the register of the global; handleTrapCode resets the trap       *)
(* information.  The list of frames is left as it was; guards of nested    *)
(* calls are not left, their destructors are skipped.  A trap that would   *)
(* unwind to no frame or to a stale one is undefined and not a step.       *)
(***************************************************************************)
Unwind(t, r, reg) ==
  /\ reentry[r] \in FramesOf(t, r)
  /\ Leave(t, reentry[r], reg)
  /\ UNCHANGED <<frameRef, start>>

\* a trap instruction, or a fault that a signal handler turns into a trap
Trap(t) ==
  /\ Runs(t, "wasm")
  /\ Unwind(t, Top(t).rt, Top(t).reg)
  /\ UNCHANGED latest

\* an interruption request found on the return of an import, before
\* recoverGlobalsToRegs: the register is as it was before the call
InterruptAfterImport(t) ==
  /\ Runs(t, "host")
  /\ Unwind(t, Top(t).rt, Caller(t).reg)
  /\ latest' = [latest EXCEPT ![Top(t).rt] = Caller(t).reg]

\* tryTrap in a host function: native code may have used the register
TryTrap(t, r) ==
  /\ Runs(t, "host") /\ FramesOf(t, r) # {}
  /\ r = Top(t).rt \/ "crossing" \in Liberties
  /\ \E reg \in 0..latest[r] :
       /\ Unwind(t, r, reg)
       /\ latest' = [latest EXCEPT ![r] = reg]

-----------------------------------------------------------------------------
Init ==
  /\ stack = [t \in Threads |-> <<>>]
  /\ guard = [t \in Threads |-> "none"]
  /\ pRuntime = [t \in Threads |-> NoRuntime]
  /\ reentry = [r \in Runtimes |-> 0]
  /\ frameRef = [r \in Runtimes |-> 0]
  /\ link = [r \in Runtimes |-> 0]
  /\ latest = [r \in Runtimes |-> 0]
  /\ start \in [Runtimes -> {"none", "queued"}]
  /\ handler = "theirs" /\ saved = "default"
  /\ counter = 0 /\ persistent = FALSE
  /\ skipped = 0 /\ unnamed = {}

CompiledCode(t) == SetGlobal(t) \/ CallImport(t) \/ Return(t) \/ Trap(t)

HostCode(t) ==
  \/ ReturnFromImport(t) \/ InterruptAfterImport(t)
  \/ \E r \in Runtimes : CallBack(t, r) \/ CallBackGuarded(t, r) \/ TryTrap(t, r)

Embedder(t) ==
  \/ LeaveGuard(t) \/ Unset(t)
  \/ \E r \in Runtimes : Start(t, r) \/ StartWithoutFunction(t, r) \/ Call(t, r) \/ SetGlobalFromHost(t, r)

Next ==
  \/ InitEnvironment \/ DestroyEnvironment
  \/ \E t \in Threads : CompiledCode(t) \/ HostCode(t) \/ Embedder(t)

Spec == Init /\ [][Next]_vars

-----------------------------------------------------------------------------
(***************************************************************************)
(* Type invariant.                                                         *)
(***************************************************************************)
Frame ==
  [code : {"wasm", "host"}, rt : Runtimes, reg : 0..MaxWrites, ref : 0..MaxDepth,
   guarded : BOOLEAN, starting : BOOLEAN]

TypeOK ==
  /\ stack \in [Threads -> Seq(Frame)] /\ \A t \in Threads : Depth(t) <= MaxDepth
  /\ guard \in [Threads -> {"none", "leaving", "unsetting"}]
  /\ pRuntime \in [Threads -> Runtimes \union {NoRuntime}]
  /\ reentry \in [Runtimes -> 0..MaxDepth] /\ frameRef \in [Runtimes -> 0..MaxDepth]
  /\ link \in [Runtimes -> 0..MaxWrites] /\ latest \in [Runtimes -> 0..MaxWrites]
  /\ start \in [Runtimes -> {"none", "queued", "done"}]
  /\ handler \in {"ours", "theirs"} /\ saved \in {"default", "theirs"}
  /\ counter \in Nat /\ persistent \in BOOLEAN
  /\ skipped \in Nat /\ unnamed \subseteq Threads

Lowest(S) == CHOOSE d \in S : \A e \in S : d <= e

(***************************************************************************)
(* A trap of a runtime that executes unwinds to its outermost wrapper, and *)
(* a runtime that does not execute has nothing to unwind to: every way of  *)
(* leaving the outermost wrapper clears what entering it has stored, and   *)
(* no nested wrapper does either.                                          *)
(***************************************************************************)
TrapTargetLive ==
  \A r \in Runtimes :
    IF \A t \in Threads : FramesOf(t, r) = {} THEN reentry[r] = 0
    ELSE \E t \in Threads : FramesOf(t, r) # {} /\ reentry[r] = Lowest(FramesOf(t, r))

(***************************************************************************)
(* The list of frames a trap collects the stack trace from holds exactly   *)
(* the frames of the runtime that are on the stack, although traps leave   *)
(* the list as it was.                                                     *)
(***************************************************************************)
TraceLive ==
  \A t \in Threads, r \in Runtimes : FramesOf(t, r) # {} =>
    /\ frameRef[r] \in FramesOf(t, r)
    /\ \A d \in FramesOf(t, r) :
         IF d = frameRef[r] THEN \A e \in FramesOf(t, r) : e <= d
         ELSE \E e \in FramesOf(t, r) : stack[t][e].ref = d /\ ~ \E c \in FramesOf(t, r) : d < c /\ c < e
    /\ stack[t][Lowest(FramesOf(t, r))].ref = 0

(***************************************************************************)
(* The global that lives in a register of compiled code and in the link    *)
(* data elsewhere has the value last written, across imports, callbacks    *)
(* and traps.  What a trap taken in native code leaves in it counts as     *)
(* written.                                                                *)
(***************************************************************************)
RunsIn(t, r) == guard[t] = "none" /\ stack[t] # <<>> /\ Top(t).code = "wasm" /\ Top(t).rt = r

GlobalsKept ==
  \A r \in Runtimes :
    IF \E t \in Threads : RunsIn(t, r)
    THEN \A t \in Threads : RunsIn(t, r) => Top(t).reg = latest[r]
    ELSE link[r] = latest[r]

(***************************************************************************)
(* While compiled code runs, a fault finds the library's signal handler    *)
(* and the thread's runtime.  Two cases are not covered, as a thread has   *)
(* one runtime: a module that a host function of another module has        *)
(* called, and the rest of a call in which a nested guard has ended.       *)
(***************************************************************************)
FaultFindsRuntime ==
  \A t \in Threads : Runs(t, "wasm") =>
    /\ handler = "ours"
    /\ t \notin unnamed /\ (\A i \in DOMAIN stack[t] : stack[t][i].rt = Top(t).rt)
         => pRuntime[t] = Top(t).rt

(***************************************************************************)
(* When all calls have ended, the process has its own handlers back,       *)
(* unless a trap unwound past the guard of a nested call.                  *)
(***************************************************************************)
HandlersRestored ==
  Quiet /\ ~persistent /\ skipped = 0 => handler = "theirs" /\ counter = 0

(***************************************************************************)
(* Runtime.hpp:601, of tryTrap: "If the module has an active function      *)
(* frame/is currently executing, this function will not return".           *)
(***************************************************************************)
TryTrapDoesNotReturn == \A t \in Threads : Runs(t, "host") => reentry[Top(t).rt] # 0

-----------------------------------------------------------------------------
(***************************************************************************)
(* The inductive invariant.  Compiled code and host functions alternate on *)
(* a stack, whose outermost frame is a guarded call.                       *)
(***************************************************************************)
Alternating ==
  \A t \in Threads :
    /\ stack[t] # <<>> => stack[t][1].code = "wasm" /\ stack[t][1].guarded
    /\ \A i \in DOMAIN stack[t] \ {1} :
         /\ stack[t][i].code # stack[t][i - 1].code
         /\ stack[t][i].code = "host" => stack[t][i].rt = stack[t][i - 1].rt /\ ~stack[t][i].guarded
    /\ guard[t] # "none" => stack[t] = <<>> \/ Top(t).code = "host"

\* one thread at a time executes a module
Alone ==
  \A r \in Runtimes : \A t, u \in Threads : FramesOf(t, r) # {} /\ FramesOf(u, r) # {} => t = u

\* the frames of a module lie side by side unless modules call each other in a circle
Contiguous ==
  \A t \in Threads : \A i, k \in DOMAIN stack[t] :
    stack[t][i].rt = stack[t][k].rt => \A j \in i .. k : stack[t][j].rt = stack[t][i].rt

Outermost(t, r, d) == d \in FramesOf(t, r) /\ \A e \in FramesOf(t, r) : d <= e
Innermost(t, r, d) == d \in FramesOf(t, r) /\ \A e \in FramesOf(t, r) : e <= d

Targets ==
  \A r \in Runtimes :
    \/ reentry[r] = 0 /\ \A t \in Threads : FramesOf(t, r) = {}
    \/ \E t \in Threads : Outermost(t, r, reentry[r])

\* each record names the next outer one of its module
Traces ==
  \A t \in Threads, r \in Runtimes : \A d \in FramesOf(t, r) :
    /\ Innermost(t, r, frameRef[r])
    /\ LET p == stack[t][d].ref
       IN  IF Outermost(t, r, d) THEN p = 0
           ELSE p \in FramesOf(t, r) /\ p < d /\ \A e \in FramesOf(t, r) : e <= p \/ d <= e

\* guarded calls under way, and guards being left
Owes(t, i) ==
  IF i = 0 THEN guard[t] # "none" ELSE i \in DOMAIN stack[t] /\ stack[t][i].guarded
Outstanding == {w \in Threads \X (0 .. MaxDepth) : Owes(w[1], w[2])}
Unsetting == {w \in Outstanding : w[2] = 0 /\ guard[w[1]] = "unsetting"}

Counted ==
  /\ IsFiniteSet(Outstanding)
  /\ saved = "default" => handler = "theirs" /\ counter = 0 /\ ~persistent
  /\ IF persistent
     THEN /\ Cardinality(Unsetting) <= counter
          /\ "late" \notin Liberties => Unsetting = {} /\ (handler = "ours" \/ Quiet)
     ELSE /\ counter = skipped + Cardinality(Outstanding)
          /\ handler = IF counter = 0 THEN "theirs" ELSE "ours"

\* the thread's runtime is that of its innermost guarded call
Named ==
  \A t \in Threads \ unnamed : guard[t] = "none" /\ stack[t] # <<>> =>
    \E g \in DOMAIN stack[t] :
      /\ stack[t][g].guarded /\ stack[t][g].rt = pRuntime[t]
      /\ \A i \in DOMAIN stack[t] : stack[t][i].guarded => i <= g

IInv ==
  /\ TypeOK /\ Alternating /\ Alone /\ GlobalsKept /\ Counted /\ Named
  /\ Liberties \intersect {"crossing", "fence"} = {} => Contiguous /\ Targets /\ Traces
=============================================================================
