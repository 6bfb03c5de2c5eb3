# A TLA+ model of the WARP WebAssembly compiler and runtime

This directory specifies parts of the compiler and of the runtime in `src/` with
TLA+, checks them with TLC on small instances and proves the central invariants
with TLAPS. Everything is translated from the C++ source. `PROJECT.json` maps the
definitions to the lines they stand for (small helpers whose lines are those of the
operation that uses them are found there under that operation) and lists the runs, the
findings, the hazards and the theorems.

Contents: [the system](#the-system), [the modules](#the-modules),
[the runs](#the-runs), [the proofs](#the-proofs), [where code and documentation
disagree](#where-code-and-documentation-disagree), [what is not
modelled](#what-is-not-modelled-and-why), [the plan](#the-plan).

## The system

A `WasmModule` owns a compiler and a runtime. The **frontend** reads a WebAssembly
binary in one pass, validates each instruction and hands it to the **compiler**,
which defers values on a compile-time stack and lets one of three **backends**
(x86-64, AArch64, TriCore) emit machine code. The **runtime** loads the result,
sets up the *job memory* (the *basedata*, a block of runtime state, directly
followed by the linear memory) and calls exported functions. The compiled code
addresses both through one register. A build either checks bounds in software and
grows the job memory through a callback (active mode,
`LINEAR_MEMORY_BOUNDS_CHECKS`) or reserves the address space and relies on page
faults (passive mode).

| Component | State it keeps | Operations | Interacts with | Hard behaviour | Correct when |
|---|---|---|---|---|---|
| `ActiveMemoryManager` | `basedataStart_`, page limit, usable bytes, desired RAM of the last failure | `init`, `extend`, `probe`, `shrink`, sizes | the reallocation callback (called from within `probe`), `Runtime` | the block moves; the callback proposes more than it needs, may fail twice, may give less than was proposed; 32-bit ends | usable bytes are backed, read 0 when new, survive a move; limits hold |
| `WasmModule` | the block, `maxRam_`, `linearMemoryMutex_` | `runtimeMemoryAllocFnc`, `setMaxRam`, `requestInterruption`, set-up and calls | other threads | a thread writes into a block that another one reallocates | a request reaches the module; memory stays within `maxRam_` |
| `Runtime` | basedata fields: page count, actual size, status flag, trap target, frames | `initializeModule`, regions, shrinking, extension requests, traps, `start`, calls | manager, compiled code | traps unwind across nested calls; start state; narrow integers | the size in the basedata is the usable one; a trap ends exactly the call it belongs to |
| Compiled code: memory protocol | `linMem` and `memSize` registers | bounds check, extension request, `memory.grow`, bulk operations, function entry, loop header, import call | runtime, host functions, fault handler | registers are caches of values other code changes; overlapping copies; a fault in the middle of a store | registers are current whenever the code runs; a bulk operation is one indivisible move |
| Compiled code: calls and traps | frames, `trapStackReentry`, `lastFrameRefPtr`, globals in registers | wrappers, function entries, calls of host functions, trap handler | runtime, signal handlers | callbacks nest calls; a trap skips frames of both kinds | a trap returns to a frame that exists; globals survive it |
| `ParallelMoveResolver` | records, counters per location | `push`, `resolveLinear`, `resolveCycle` (scratch register or swaps) | call dispatch of each backend | order, cycles, widths, register pairs, replaced sources | every target gets the value its source had |
| Call dispatch | locations of arguments | pushes moves, emits moves and swaps, lays out frames | resolver, stack, register allocator | stack slots of 4 and 8 bytes, scratch registers, three calling conventions at once | arguments and results arrive, nothing that must survive is overwritten |
| `LinearMemoryAllocator`, `VirtualMemoryAllocator` | reserved and committed pages, limit | `init`, `extend`, `probe`, `shrink`, `setMemoryLimit` | operating system, fault handler | partial pages; the limit is set from another thread | as the active manager |
| Signal handlers | process-wide counter and previous handlers; a runtime pointer per thread | install, remove, fault, scoped guard | all threads, compiled code | nested guards, set-up by several threads | a fault of compiled code reaches its runtime, any other the previous handler |
| `ValidationStack` | one list of value types and open blocks | one method per kind of instruction | frontend, which keeps its own stack in step | unreachable code is polymorphic | accepts exactly what the specification's algorithm accepts |
| `Frontend`, readers | reader position, module information | sections, function bodies, the sections of the binary | compiler | sections that are missing or out of order, limits, UTF-8; places computed in several rounds | accepts exactly the valid modules; the binary says what the module declares |
| Compile-time stack | elements, chains of references to one storage, register state | push, pop, condense, spill | backends | a location changes while deferred values refer to it | a deferred value is the one it was at its place |
| Branch patching (`RelPatchObj`) | chains of open branches in the binary | prepare, link | `MemWriter` | links are offsets inside the code being written | every branch ends at its target |
| Compiler memory | output, bump allocator | resize, step, reset | the allocator callback | moves; failure | nothing is lost or leaked |
| Instruction selection and encoding | – | tables, emission | register allocation | operands in registers that are overwritten on the way; traps | code means what the instruction says |
| Binary module, executable memory | positions within the binary | reading a layout from its end, copying | frontend that wrote it, runtime | sizes and paddings recomputed by the reader | what is read is what was written |
| Extensions, disassembler, bindings, fuzzers | – | debug data, statistics, drivers | – | – | – |

Two properties of the design shape the models. One thread executes a module and
the host functions it imports, so compiled code, runtime and host alternate; the
only concurrency within a module is `requestInterruption` and, for passive memory,
`setMemoryLimit`. Several threads with modules of their own share the signal handlers.
And the job memory may move: every address into it is a cache, held in registers of the
compiled code, in the manager, and for a moment in an interrupting thread.

## The modules

| Module | What it is |
|---|---|
| `MemoryAccess` | accesses to a linear memory and the answers to them |
| `WasmLinearMemory` | the abstract specification: what a linear memory promises to program and embedder, whichever manager stands behind it |
| `ActiveJobMemory` | the job memory in active mode: manager, runtime, callback, compiled code, host, interrupting threads |
| `PassiveMemory` | the job memory in passive mode: allocator, unchecked accesses, fault handler, landing pad |
| `BulkMemory` | `memory.copy` and `memory.fill` as the three backends emit them |
| `Execution` | calls, callbacks, traps, globals and signal handlers of several threads and modules |
| `ParallelMoveResolver` | the resolver together with the machine that executes what it emits |
| `WasmInstructions` | instructions and the matching of operands with types |
| `WasmValidation` | the abstract specification: the validation algorithm of the WebAssembly specification |
| `FunctionBody` | the frontend's passage through a function body: `ValidationStack` and the control structure of the compile-time stack |
| `CompileStack` | the compile-time stack, register allocation and storage of locals, together with the machine that executes the emitted code |
| `CallMachine` | operands and instructions of the code around calls, and what each does to registers and stack |
| `CallsX86`, `CallsArm`, `CallsTriCore` | the code each backend emits around a call, computed from the call |
| `CallFrames` | a call of each kind on each target, with the callee as one step |
| `Words`, `WasmArithmetic` | machine words and floating point numbers of a few bits; the abstract side: the result or the trap of every numeric instruction |
| `NumericCode`, `ArithTriCore`, `Arithmetic` | operands and machine instructions; what TriCore's backend selects for each numeric instruction; the translation followed by the execution of what it gave |
| `BranchCode` | emitted code as a function from positions to instructions, chains of branches that wait for their target, and the machine that follows them |
| `BranchesX86`, `BranchesArm`, `BranchesTriCore` | how each backend emits, links and patches branches |
| `BranchPatching` | the frontend's way through the control flow of functions, which calls them |
| `ModuleCompilation` | how the frontend reads the sections of a module and writes the sections of the binary |
| `ModuleInstance` | from bytecode to a running module: compilation, reading the binary, linking, lookups; and what a valid module and its instance are |
| `MC…` | the instances for TLC |
| `…_proofs` | the theorems about `ActiveJobMemory`, `PassiveMemory`, `BulkMemory`, `Execution`, `ParallelMoveResolver` and `FunctionBody` (`FunctionValidation_proofs`: its refinement) |

### ActiveJobMemory

State:

| Variables | In the code |
|---|---|
| `data`, `size`, `bytes` | the block `jobMemory_`: address, size, contents behind the basedata |
| `basedataStart`, `allowed`, `usable`, `maxDesired` | `ActiveMemoryManager`: `basedataStart_`, the page limit of `extend`, `usableLinMemBytes_`, `maxDesiredRamOnMemoryExtendFailed_` |
| `linMemWasmSize`, `actual`, `status` | fields of the basedata: `linMemWasmSize`, `actualLinMemByteSize`, `statusFlags` |
| `regLinMem`, `regMemSize` | the registers of the compiled code; `memSize` is the actual size less 8 |
| `maxRam`, `mutex` | `WasmModule::maxRam_`, `linearMemoryMutex_` |
| `pc`, `op`, `answer` | where the executing thread is, the operation it has begun, what the operation reported |
| `ipc`, `iptr` | per interrupting thread: its place, and the address it computed |

| Actions | In the code |
|---|---|
| `Construct`, `LoadSegments` | `ActiveMemoryManager::init`, `Runtime::initializeModule` |
| `EnsureCapacity`, `Probe`, `Succeed`, `Rejected` | `ensureCapacityForLinearSize`, `probe`, `ensureLinearSize` and what each caller makes of the result |
| `Reallocate`, `Synchronize` | `WasmModule::runtimeMemoryAllocFnc` under the mutex; `syncBasedataStart` and the rest of the call after it |
| `Call`, `Return`, `CallImport`, `ReturnFromImport`, `Interrupt` | the wrapper and function entry, calls of host functions, the check at loop headers |
| `AccessDirectly`, `RequestExtension`, `MemoryGrow` | `emitLinMemBoundsCheck`, the extension request routine with `handleExtensionRequest`, `executeMemGrow` |
| `Region`, `ShrinkToSize`, `ShrinkToActiveSize`, `SetMaxRam` | host calls: `getLinearMemoryRegion`, `shrinkToSize` (length 0 is `reallocShrinkToBasedataSize`), `reallocShrinkToActiveSize`, `setMaxRam` |
| `LockMutex`, `WriteFlag` | `requestInterruption` of another thread |

An operation that needs no reallocation is one step. One that does takes three,
because other threads may act in between: up to the callback, the callback (which
holds the mutex), and the continuation. The callback may serve its proposal or the
minimum, at any address of the set, or fail.

A few choices deserve a word. Addresses are opaque and may be reused by a later
reallocation, as those of `realloc` may. A write through the address of a block
that was given up reaches no flag: the outcome of a write to freed memory that
matters here is that the request is lost. An access through a stale `regLinMem`
would read bytes nobody knows (`Junk`). Memory not written yet is `Junk` as well;
that a program reads 0 there is the manager's doing. The x86-64 backend is the
reference for the compiled code.

### WasmLinearMemory

The state is the page count, the bytes and the last answer. It allows a load, a store, a
trap for an access that leaves the pages, a failure for want of memory, `memory.grow`,
a discard of what lies behind the minimum the embedder names, and refusals. An access that is reported out of bounds
must be out of bounds, and an access out of bounds is never done. `ActiveJobMemory` implements it under the mapping
`pages <- linMemWasmSize`, `mem[o] <- bytes[o]` for usable bytes and 0 for the
others. The discard takes effect when the block shrinks, one step before `shrink` returns; `Discard` says that at
least the minimum stays, as `IMemoryManager.hpp:94` ("must remain usable") and `Runtime.hpp:438` do.

### PassiveMemory

| Variables | In the code |
|---|---|
| `limit`, `newLimit`, `committed`, `linMemPages` | `LinearMemoryAllocator`: `pagedMemoryLimit_` (and the value `setMemoryLimit` has accepted but not stored), `committedSize_`, `linMemPages_` |
| `linMemWasmSize`, `bytes` | the page count in the basedata, the contents of committed pages |
| `landing`, `cell`, `drift` | `landingPadData_`, the cell `landingPadTarget` of the basedata, how far the stack pointer is from where the fault struck |
| `pc`, `op`, `answer` | the executing thread |

`Execute` is the compiled access, which succeeds, or faults on a page that is not committed;
before a store that might tear a probing load is emitted (`NeedsProbe`). `Fault` is
the signal handler with `prepareLandingPad`, `LandingPad` the landing pad's code,
`ProbeLanding` and `Commit` the call of `MemoryHelper` and the commit, after which the
access is tried again. `Region`, `ShrinkToSize`, `CheckLimit` and `StoreLimit` are the
embedder's operations (the minimum a shrink names is the width of its access, `FirstBytes`); the last two are the halves of `setMemoryLimit`, between which,
if `Concurrent`, the executing thread goes on. It implements `WasmLinearMemory` as the active
module does.

Four settings describe what the code does not cope with, and the run leaves them out:
with `Concurrent` the committed memory may exceed the limit (`WasmModule.hpp:69` says
that calls are not thread-safe); with `Eager` a failed extension leaves `linMemPages_` raised, so that
an access beyond the page count no longer faults; and a region whose end passes 32 bits
is narrowed as in active mode; and a shrink to a length that ends within a page of the operating system
rounds it down (`LinearMemoryAllocator.cpp:132`) and drops bytes below the length it promises to keep. So
`ImplementsLinearMemory` holds for shrinks to whole pages (`WholePages`), and `WasmLinearMemory` is not weakened
for the others: with 1 or 5 among `ShrinkLengths`, TLC finds it violated.

### BulkMemory

`req` is the instruction, `mem` what each address holds (its own name at first), `done`
how far the pointers moved, `left` the size register, `phases` what is still to be
executed. The compiler chooses the phases from target, direction and, on x86-64, a
constant size; each phase moves chunks of one width a fixed number of times, or as long
as the size register satisfies the loop's condition, which is signed in some places. `Check`
is the bounds check with the choice of the direction, `Chunk` one
chunk, `NextPhase` the step to the next phase, `Finish` the end. `Unsound` names the requests that go wrong:
`EmptyFillAtOddAddress` (a finding) and `HugeConstantCopy` (a constant size whose
byte loop counts in a signed register; such a copy cannot pass its bounds check on a module of realistic size).

### ParallelMoveResolver

`records` and `usage` are the resolver's record array and its two maps; `content` is the machine
that runs the emitted instructions, a value per location with the information
whether its upper half is still there; `goal` remembers which value each target is
to get; `machine` is the backend: its strategy for cycles, its locations and scratch
registers, its register pairs, and which stack slots overlap. `Push` and `PushExtended` are what call dispatch pushes: each argument has a
target of its own; a TriCore register pair is an *extend* record followed by a
*placeholder*. `ResolveLinear` counts the readers, `TryMove` emits the first
move whose target no record reads (with `storageReplacement`), `BreakCycle`, `FillHole` and
`CloseCycle` resolve a cycle through a scratch register, `BeginSwaps` and `Swap` by
exchanges. AArch64, TriCore and x86-64 indirect tail calls use the former, the other
x86-64 calls the latter. Each action is one iteration of a loop and emits at most one instruction.

### FunctionBody

| Variables | In the code |
|---|---|
| `elements`, `current` | the list of `ValidateElement`s and `currentBlock_` (a position; the function's element is the first) |
| `blocks` | `FunctionState::unreachable` and the chain of structural elements from `lastBlockReference`: kind, signature, `blockUnreachable`, and how many valent blocks lie directly in it |
| `verdict`, `instruction` | whether a `ValidationException` was thrown or the function has ended, and at which instruction |

Each action is one `case` of the loop in `Frontend::parseCodeSection`: the call of
the validation stack, which may reject, and what then happens to the blocks. An
instruction that only pops and pushes (`PlainInstruction`) stands for constants,
variables, arithmetic, memory accesses and calls. The body is arbitrary: any
instruction of the set may come next.

The two stacks differ in form. In `elements` the operands of all blocks lie in one
list; an `if` keeps two copies of its parameters with a fence between them, the
first for the branch that may come. In `blocks` an `if` is a block within a block;
the inner one ends at the `else`. They differ in what they call unreachable as
well: `formallyUnreachable` is the specification's notion and ends with the block;
`blockUnreachable` also covers what a constant condition excludes (`known`; which
constants the compiler can fold is left open) and is inherited by nested blocks. In an unreachable
block no code is generated, so `count` is 0 there whatever the stack still holds.

`WasmValidation` is written from the specification, not from the code: control
frames with operands of their own. The mapping follows `prev` outwards from the current
element: each structural element on the way becomes a frame, whose operands are what the list
holds if it ends before the next such element (`Held`), so only what lies above the fence
while an `if` has one. It deviates in one point, on
purpose: of a `br_table` in dead code (`dead`, the compiler's notion) it checks the
first label's types and of the others only their number. The release notes (`RELEASENOTES.md`, "target
result types mismatched `br_table` in unreachable block") ask for such code to be accepted.

What an `else` needs is saved in the list itself: between an `if` and its fence lie the parameters of its signature
(`SavedOK`). `validateElse` cuts the list at the fence and never looks at them.

### CompileStack

One record `c` holds the compiler's knowledge and the machine side by side:

| Fields | In the code |
|---|---|
| `stk` | the `Stack` of `StackElement`s: constants, locals, globals, scratch registers, spill slots, deferred actions, open blocks; `ref` says whether an element is in the chain of references of its variable |
| `st`, `pend` | `ModuleInfo::LocalDef::currentStorageType` and `hasPendingSideEffectInstructions_` |
| `m`, `val` | the machine: contents of registers and slots, and what each local and the global hold by the semantics of WebAssembly |
| `to`, `res` | where the execution is: at the end of what is emitted, or at a label whose code is not emitted yet, with the results it carries |
| `overtaken`, `wrong` | an effect happened before an earlier one; an execution saw a wrong value |

An instruction of the function is one step: the frontend's case for it with everything it
calls (spilling, condensing, allocation of registers, branches). The machine executes what is
emitted at the same time; where the execution branches, the step chooses. So the invariants
speak of every function and every path through it. Values are names of results, so that no two
computations agree by accident.

Abstracted: conditions and comparisons of constants (folded by the compiler), `br_table`, host calls,
tail calls (see `CallFrames`), floats and 64-bit values (which differ in the register file only), blocks opened in dead code
(`FunctionBody` covers them). The moves of call parameters are one step here, which they may be on x86-64: it has no
register pairs and its stack slots do not overlap, and for such machines `ParallelMoveResolver` shows that they happen as
if at once.

### Execution

| Variables | In the code |
|---|---|
| `stack` | per thread the frames of compiled code and of host functions |
| `guard`, `pRuntime` | `SignalFunctionWrapper`: a guard that is being left, and the thread's runtime pointer |
| `reentry`, `frameRef`, `link`, `start` | basedata: `trapStackReentry`, `lastFrameRefPtr`, the global's cell in the link data; `queuedStartFncOffset_` |
| `latest` | the value the program last gave to the global |
| `handler`, `saved`, `counter`, `persistent` | whose handler is installed, the previous one, `runningCounter`, `raiiSetSignalHandler` |
| `skipped`, `unnamed` | history: how many guards traps have skipped, threads whose runtime pointer a nested guard has reset |

`Start`, `StartWithoutFunction`, `Call`, `CallBack` and `CallBackGuarded` enter compiled
code (guarded through `SignalFunctionWrapper::call`); `CallImport`, `ReturnFromImport` and
`InterruptAfterImport` go to the host and back; `SetGlobal` and `SetGlobalFromHost` write the global;
`Return`, `Trap` and `TryTrap` leave; `LeaveGuard` and `Unset` are the end of a guard, whose
counter another thread may change in between; `InitEnvironment` and `DestroyEnvironment` are the
persistent installation.

Three things an embedder might do and the code does not cope with are set apart as `Liberties`, none of which
the run takes: *crossing*, where modules call each other in a circle (a trap then unwinds frames of
the other module); *late*, where `initEnvironment` is called while calls are under way; and *fence*, where the first
stack check of a nested wrapper fails before its frame becomes the trap target (`x86_64_backend.cpp:1221`).

### CallMachine, CallsX86, CallsArm, CallsTriCore, CallFrames

| Variables | In the code |
|---|---|
| `job` | which call: target and operating system, kind (`entry`, `call`, `return_call`, `adapter`, `enter`), callee (WebAssembly function, table entry, import of version 1 or 2), signature, where the arguments are, the frame of the caller, the compiler's options |
| `code` | what the backend emits around it, still to be executed |
| `cells` | registers, stack, basedata and link data in cells of four bytes |

`CallsX86`, `CallsArm` and `CallsTriCore` are the code generators: `emitFunctionEntryPoint`, `emitWasmToNativeAdapter`,
`emitFunctionEntry`, the direct and indirect calls, tail calls, imports of both versions, and the
classes of `*_call_dispatch.cpp` they use, which lay out frames, pass parameters and fetch results. Each returns a sequence of
instructions for a job; `Instruct` runs one of them. `WasmFunction` and `HostFunction` are
what a callee does: it spoils what its convention lets it spoil and everything below the stack pointer, moves and grows the
linear memory, changes the global, and leaves its results. `Trap` is the way back through the wrapper.
Parameters are moved one by one, in the order in which `ParallelMoveResolver` emits the moves: `Resolved` in `CallMachine` is that
algorithm over the operands of a call (`Step` is `tryMove`; the rest of the moves form cycles, which are broken through a scratch register
or, on x86-64 calls, by swaps). One consequence is excluded from `ValuesArrive` by name: `UnderPair`, an
argument in the second register of a pair into which another argument is loaded, which TriCore's order may lose. In the run these are
a call and a tail call of an import of version 1 with the parameters `(i32, i64)` six times: `D4` gets `D6`, then the pair `D6:D7` its value from the
stack, then `D5` what was in `D7`. A cell that was not written holds its own name, so what has to survive is
what still holds its name at the end.

Abstracted: the encoding of instructions, the amount of stack checked by the fences, the code
of the trap handler beyond what it restores.

### WasmArithmetic, NumericCode, ArithTriCore, Arithmetic

| Variables | In the code |
|---|---|
| `phase` | nothing yet, translated, or run |
| `job` | an instruction, its operands (constant, scratch register, register of a local, memory), the place the result is wanted at, what lies below on the compile-time stack; and the code `emitInstruction` and its callees emit for it |
| `outcome` | the trap, or the result, and whether what had to survive did |

`Compile` is the backend's choice of instructions: `selectInstr` with its tables, and the cases
that have sequences of their own (division, shifts and rotations of register pairs, comparisons, conversions,
truncations, `select`). `Run` executes the sequence on whatever values the operands have. `WasmArithmetic` says what
comes out, and does not know of the compiler. Two errors of the code are named and excluded (`KnownWrong`): `ConstantMissesHint` and
`LowWordStaysBehind`, see [below](#where-code-and-documentation-disagree). Only TriCore, whose backend has to build
64-bit operations and double precision from 32-bit ones, is modelled.

### BranchCode, BranchesX86, BranchesArm, BranchesTriCore, BranchPatching

| Variables | In the code |
|---|---|
| `s` | the output, the frontend's open blocks with the head of each one's chain (`RelPatchObj`), the frame size, `checkedStackFrameSize`, the pending traps |
| `plan`, `steps` | which program is compiled: the kinds of control flow it may use and how many it used |
| `groups`, `labels`, `inherited`, `ended` | history: the branches and what they are meant to do, where their targets are, which functions have ended |

A branch whose target is not known holds in its displacement field the distance to the previous
branch to the same target. The chain lives in the emitted code, so its links must fit the field as the
final displacement does. The actions are the frontend's cases for the instructions of control flow, each with all that the backend emits for
it, in one pass. `BranchesLand` runs the emitted code for every outcome of every condition; `NoFalseLimit` says that a
compilation is given up for want of range only if some branch really is too far from its target.

### ModuleCompilation, ModuleInstance

| Variables | In the code |
|---|---|
| `plan`, `slot`, `bytecode` | which module is compiled: the settings, the sections that may come next, those read so far |
| `phase` | reading sections, compiled, or loaded |
| `c` | the frontend's `ModuleInfo`, the error it threw and its output, a sequence of words |
| `instance` | `Runtime`: link data, memory, page count, `queuedStartFncOffset_` |
| `written` | what the host wrote to a global last |

`ModuleCompilation` has an operator for each section of the bytecode and of the binary: `ParseTypeSection` to
`ParseDataSection` with every check in the order the code makes them, each with the
`ErrorCode` it throws; `MoveToTargetSection` and `PostSectionAction` for the order of sections and
what a missing one leaves to be done; and the `Serialize…` operators. A word of the output is a number, four
bytes of a name, part of a value, or of generated code, so that reading it at a wrong place gives something else than what is
looked for. The actions of `ModuleInstance` are one per section
(`ReadTypeSection` …), `Compile`, `InitFromBytecode` and `InitFromCompiledBinary`, which read the
binary backwards (`BinaryModule`) and initialise the runtime from it (`InitializeModule`), `Start` and
`SetValue`. The lookups of the runtime (`FindExportedFunctionByName` …) are operators on the binary as well.

Two descriptions stand against that, written without the code's tables: `Valid` says what a valid module is, section by
section, with the well-formed UTF-8 sequences of the Unicode standard; `LinkDataHolds` to `LayoutHolds` say what an instance
of a module is. Bodies of functions are the outcome of compiling them, which `FunctionBody` and
`CompileStack` describe.

## The runs

Each run ends within three minutes. Deadlock checking is off where the system does stop: a
module whose construction failed stays dead, a resolver or a bulk operation that is done has nothing
left to do, and a function body ends or is rejected.

| Run | Question | Result |
|---|---|---|
| `active_memory` | Is the state well-formed, are registers current, is what is usable backed, does the block grow within `maxRam_`, and does the program see `WasmLinearMemory`? Is a block kept while another thread holds the mutex, and does its request end the execution if it finds the block in use? | holds |
| `passive_memory` | Do faults, landing pad and retry make unchecked accesses a `WasmLinearMemory`, shrunk by whole OS pages; does every access end; does the memory stay within its limit? | holds |
| `bulk_memory` | Does each emitted copy or fill end and do what one indivisible move would, or trap before it writes? | holds |
| `execution` | Does a trap return to a frame that exists, do globals survive, does a fault find its runtime, are the handlers given back? | holds |
| `move` | Does every target get its value, through a scratch register, by exchanges of mixed widths, and with register pairs? | holds |
| `function_body` | Is a body accepted exactly if the specification's algorithm accepts it, and do the two stacks of the compiler agree, dead code and constant conditions included? | holds |
| `compile_stack` | Is every operand and local where the compiler believes it to be, whichever way an execution takes, and do effects happen in order? | holds |
| `calls` | On every target and for every kind of call: do arguments and results arrive, is the caller's frame kept, are the registers of the module's state current on both sides? | holds |
| `arithmetic` | On TriCore: does the code for each numeric instruction compute its result or trap as it must, and leave everything else alone? | holds |
| `branches` | On every target: does each branch end where its instruction says, under each condition, and is every growth of the frame checked? | holds |
| `module_loading` | Does the compiler accept exactly the valid modules, and is an instance, read from the binary, the module its bytecode declares? | holds |
| `stack_check` | Is the frame checked after every `if` without `else`, as a comment has it? | violated, see below |

Properties by what they are for:

- `RegistersCurrent`: a host function or an extension request moved the block, and the code goes on with what it cached.
- `UsableBacked`: rounding, a failed or partial reallocation, or a shrink leaves bytes usable that the block does not have; or the page count and the limit drift apart.
- `ImplementsLinearMemory`: a byte is lost in a move, exposed again after a shrink without being zeroed, or an access goes through that should trap (or the reverse); in passive mode also a store that is half done when it traps.
- `GrowthWithinMaxRam`: the slack the callback adds passes the limit in force.
- `RequestNotOvertaken`, `RequestEndsExecution`: the mutex, and the checks on every cycle of the compiled code.
- `OutsideFaults`, `AccessEnds`: the page that is committed is the page that faulted, neither more nor fewer; else an access out of bounds succeeds or one within them faults for ever.
- `StackPointerRestored`: the landing pad's one cell serves two purposes in turn.
- `UsageWithinLimit`: the limit is rounded as the committed size is.
- `DoneAsIfAtOnce`, `Ends`: direction and chunk widths of overlapping copies, carries in the bounds check, TriCore's alignment, the loops' conditions. (`OnlyDestinationWritten` and `EvenAddresses` are proved, and checked by no run.)
- `TrapTargetLive`, `TraceLive`: the trap target and the head of the stack trace are frames that exist, after callbacks, traps, refused calls and start functions.
- `GlobalsKept`: where a global's value is (register, saved frame, link data) is passed on at every border.
- `FaultFindsRuntime`, `HandlersRestored`: the counter and the thread's runtime pointer follow the guards of all threads.
- `Resolved`, `NothingLost`: the moves happen as if all at once; between two instructions, what is still to be moved is somewhere the counters protect.
- `Terminates`: each pass retires a record; a scratch register is found.
- `ImplementsValidation`: made-up operands, the fence, and the flags of nested blocks make the list stand for the algorithm's frames.
- `AnyOnlyWhereUnreachable`: an operand of no known type never leaves the dead block it arose in.
- `CompileStackAgrees`: the frontend pops blocks and operands without looking, because the validation is believed to have seen the same ones.
- `StateDenotes` (of operands and of locals): a register or slot is overwritten while something refers to its former value, or ways that meet disagree on where a local is.
- `EffectsInOrder`: loads and divisions wait on the stack while stores, calls and branches are emitted.
- `ValuesArrive` (arguments and results): two of the three conventions (WebAssembly, native version 1 and 2) meet in one call; a register is a source and a target, so that the order of the moves counts, or both an argument and scratch.
- `FrameKept`: padding, parameters of a tail call that are wider than the caller's own, trap records; the stack pointer at the end is where it was, also after a trap.
- `StateCoherent`: the callee moves the memory and changes the global, and what is in registers is stale on return.
- `CallSite`: alignment of the stack at each call, and the records of the stack trace, which the debugger and the trap message walk.
- `ResultMatches`: a result is written while an operand in the same register is still to be read; a carry is lost between the words of a pair; an immediate does not fit; a conversion at the end of its range.
- `TrapsExactly`: division by 0 and of the least integer by -1, and truncation of a number that has no integer, trap, and nothing else does, also where constants let the compiler leave the check out.
- `OperandsKept`: a sequence takes a register as scratch that a local or an element below still needs.
- `BranchesLand`: a chain loses a branch or is followed past its end; a condition is negated or its operands swapped once too often; a branch jumps over a correction of the stack pointer.
- `NoFalseLimit`: a link of a chain is too far where the branch is not.
- `StackChecked`: the compiler leaves out a comparison because another path has made it.
- `ExecutesAsWritten`: results and arguments are the values the program computes, on every path.
- `InstanceAsDeclared`: a place is computed differently where the binary is written and where it is read; globals and pointers overlap in the link data or are unaligned; a table entry, an export or the start function reaches another function's code, or has another signature.
- `AcceptsExactly`: a check is missing, is made against the wrong limit or number of items, or is left out because a section is.

**Bounds.** *Active memory*: sizes are the code's, scaled down so that every boundary stays within reach: `MaxUint` 7,
`PageSize` 2 and `PageLimit` 4, so that a full memory has `MaxUint + 1` bytes as
65536 pages have 2^32; `BasedataSize` 1, so that the even lengths and the odd ones
both need rounding; `AccessMax` 2 for the 8 bytes of the bounds check;
`MinLength` 1 and `Slack` 2, so that the proposal can exceed the limit; two
limits of RAM, one of which is below what the module may ask for; two addresses, so that a reallocation can move or
stay; a byte value besides 0. The accesses lie inside the initial page, across its end, behind
it and at the end of the address space. One interrupting thread suffices: others
only wait for the mutex. *Passive memory*: two OS pages per Wasm page, two Wasm pages; accesses across OS pages and across the
end of each size; limits that are and are not multiples of a page; shrinks to nothing, to one OS page and to three. *Bulk*: chunk widths and unrolling thresholds
are the code's, sizes lie around each of them, and a register holds 128 values, so that signs and carries come into
play. *Execution*: two threads, two modules, five frames per thread, two writes of the
global, one skipped guard; threads and modules are symmetric. *Moves*: up to four moves over three registers, a
slot and constants of both costs, which includes a cycle of four, two cycles of two, several
readers of one location, and a chain that ends in a cycle; with pairs, two pairs and a pair of
scratch registers with up to five records. *Function bodies*: two number types and twenty
instructions: constants of both types, every kind of block (one with a label type that no
other has, one loop with a parameter, ifs with and without), all branches, at two depths, and with
constant conditions. Six elements hold an `if` with its two copies and the fence, and
what one block around it adds; four blocks are the function, one more and an `if`. A signature with as
many parameters as results has the same types on both sides: otherwise
an `if` without `else` may be accepted that the specification rejects (below). States that differ only in the last instruction are
one (`VIEW`), since nothing reads it. *Compile stack*: `Shapes` lists families of functions of up to ten instructions, each position a
set of choices (expression trees, hints and targets, register pressure, effects,
selects, ifs, loops, nested blocks, calls), with four scratch registers of which two are reserved, so that allocation has
to spill; a local in a register, a local in memory and a global in a register.

*Calls*: eight signatures with none to
twelve parameters, which fill the registers of each convention and go on the stack, with 32- and 64-bit values alternating so
that stack slots of both widths and register pairs meet; so do cycles, broken by each target's scratch registers and by swaps; arguments from temporaries, from parameters of the caller in another
order, and from registers; a caller with fewer, as many and more stack parameters than the callee.

*Arithmetic*: a 32-bit value has 8 bits and a 64-bit value 16; an F32 has 5 bits of
exponent and 2 of mantissa, an F64 5 and 10, so that, as in the program, the mantissa of an F32 is shorter than an I32, and that of an F64 lies
between the two integers. Immediates shrink likewise, and still need a high part of their own. The values
lie around 0, the signs and the ends of immediates; operands are constants, scratch registers,
registers of locals and memory, in every combination, equal ones included. *Branches*: displacements of 8 and 9 bits, and
a stretch of code of 130 bytes, so that one or two of them put a target out of reach; bodies of up to five instructions
of the kinds a plan lists, with up to two functions, on three targets each.

*Loading*: `Plans` lists families of modules, each slot a set of sections or none, so that every
kind of section meets every way it can be wrong, alone and behind others; all but one of the error codes of
the sections occur (the version of a binary differs between builds only). Limits are 3 or 4 items, names have up to
four bytes, pages 8 bytes, the address space 4 pages. The globals of a module mix sizes and mutability, imports are of
every linkage, and pointers have 4 and 8 bytes; two data segments overlap; a binary is linked with the symbols it was compiled with and with others.

**Fairness.** `active_memory` assumes, for requests, that the executing thread continues its
reallocation (weak), that a loop header and the return from a host function happen again and
again (strong: execution is not always there, but each cycle of compiled code
passes a header or a function entry, and host functions return), and that a thread
inside `requestInterruption` leaves it (weak). It does not assume that the program
ends by itself. Elsewhere fairness says that a thread that has begun an access, a bulk operation or a
resolution goes on (weak): these are straight-line code and calls that run to their end.

**Mutants.** Beside some definitions stands a faulty variant of it (a guard dropped, a
width ignored, a count forgotten). Each checked property is violated when its
variant, named in `PROJECT.json`, takes the definition's place.

## The proofs

Everything here holds for all values of the constants that satisfy the assumptions of
the module, which TLC evaluates on each instance. Each component's proofs are in its own module; `IInv`, the inductive
invariant, stands with the component, was first checked by TLC on the run's
instance, and is proved by one lemma per action.

| Theorem | States | If |
|---|---|---|
| `ActiveJobMemory_proofs`: `TypeCorrect`, `RegistersNeverStale`, `UsableIsBacked`, `GrowthIsLimited`, `MutexKeepsBlock` | `TypeOK`, `RegistersCurrent`, `UsableBacked`, `GrowthWithinMaxRam`, `RequestNotOvertaken` | |
| … `ImplementsArray` | `ImplementsLinearMemory` | `RegionsInWord` |
| `PassiveMemory_proofs`: `TypeCorrect`, `FaultLeavesNoTrace` | `TypeOK`, `StackPointerRestored` | |
| … `LimitIsKept` | `UsageWithinLimit` | `~Concurrent` |
| … `OutsideAlwaysFaults` | `OutsideFaults` | `Regular` |
| … `ImplementsArray` | `ImplementsLinearMemory` | `Regular`, `WholePages` |
| `BulkMemory_proofs`: `MovesAtOnce`, `WritesDestinationOnly`, `WordsAtEvenAddresses` | `DoneAsIfAtOnce`, `OnlyDestinationWritten`, `EvenAddresses` | `AllSound` |
| `Execution_proofs`: `TypeCorrect`, `GlobalsSurvive`, `HandlersGivenBack` | `TypeOK`, `GlobalsKept`, `HandlersRestored` | |
| … `FaultsFindRuntime` | `FaultFindsRuntime` | no *late* |
| … `TrapsReturn`, `TracesAreLive` | `TrapTargetLive`, `TraceLive` | no *crossing*, no *fence* |
| `ParallelMoveResolver_proofs`: `ArgumentsMoveAtOnce`, `ValuesAreProtected` | `Resolved`, `NothingLost` | `SingleRegisters` |
| `FunctionBody_proofs`: `TypeCorrect`, `NoAnyOutside`, `StacksAgree` | `TypeOK`, `AnyOnlyWhereUnreachable`, `CompileStackAgrees` | |
| `FunctionValidation_proofs`: `ParametersSaved` | `SavedOK` | |
| … `ValidatesAsSpecified` | `ImplementsValidation` | `SameIfTypes` |

The conditions of the last column exclude what the code does not cope with, as the
sections above describe. The instances of the runs satisfy them, except that `move` also takes
TriCore's pairs.

**ActiveJobMemory.** *Assumptions.* `SizeAssumption`: sizes are naturals, `MaxUint` is odd (so an even size
that fits in 32 bits is at most `MaxUint - 1`), the basedata is not empty and fits,
and a full memory has at most `MaxUint + 1` bytes. `ValueAssumption`: 0 is a byte,
the special values are not. `InputAssumption`: accesses have a width between 1 and `AccessMax`, segments end
within 32 bits. *Argument.* None of the properties is inductive by itself, because an operation is
interrupted by the callback. `IInv` adds what is known meanwhile:

- `OperationOK`: an operation is pending exactly while the callback is under way, and it knows where to return;
- `LengthOK`: the length it asked for was permitted when it asked, and the new block is large enough for it: this is what makes `usable` backed after `Succeed`;
- `BaseOK`: the manager's address is stale only between the callback and `syncBasedataStart`: with it, reloading from `basedataStart` gives current registers;
- `ActualOK`: the size in the basedata is the usable size, from which `memSize` is reloaded;
- `NewOK`: before construction nothing is usable;
- `MutexOK`: a thread that is about to write the flag owns the mutex.

`RoundedBounds`, `ProposedBounds` and `Wraps` isolate the arithmetic (rounding modulo 2 and the
minimum of limits), so that the steps about states need no arithmetic beyond
comparison. *Refinement.* The abstract memory is `Mem`, the bytes in use and 0 behind them. A reallocation changes
none of it, since it keeps what is in use and what becomes usable is zeroed; an access that is carried
out after one is the access that was asked for (`AccessOK`: its bytes lie within the length that was ensured). Every
action has a lemma that it is one step of `WasmLinearMemory` or a stutter. `RegionsInWord`
excludes the regions whose last byte the runtime narrows to 32 bits (below).

**PassiveMemory.** `OperationOK` ties the place in the code to the operation; `PadOK` says that the stack pointer is off by
what the landing pad's cell holds, while the pad is at work; `LimitOK` that
what is committed, and what an operation is about to commit, is within the limit and
within the one being set. With `Regular` (no eager
allocation, regions within the address space) `SizesOK` and `TargetOK` bound the committed size by the formal one, a target
reaches what it is committed for, and `ProbingOK` says that a store of several bytes is under way only after its probe, or where
it cannot fault. That a page is committed which the program may not
touch is excluded by an argument about remainders, since both page sizes divide each other and the basedata ends at a
page. The refinement follows from these and
from `OutsideFaults`: an access that does not fault is within the pages. A shrink keeps its minimum because, with `WholePages`, rounding leaves it as it is.

**BulkMemory.** The code is a sequence of phases, chosen by the compiler from the target, the direction and a constant size, so an
invariant has to say of a *sequence of phases* that it does the rest of the work. `Before` is the weakest precondition of a phase:
the pairs (bytes to do, contents of the size register) from which the phase, ending wherever its condition
lets it, leaves a pair from which what follows does the rest. `Exactly` composes it along the sequence. One group of lemmas
shows that what the compiler emits satisfies `Exactly` for every size, the other that executing a chunk keeps it and
keeps `Moved`: memory is the initial one with the effect on the bytes dealt with. That needs the
direction (`Backwards`): a chunk reads nothing that an earlier chunk wrote. `Aligned` adds the parity of addresses on TriCore.
`AllSound` excludes the instructions `Unsound` names.

**Execution.** `Alternating`: compiled code and host functions alternate on a stack that starts with a guarded
call. `Alone`: one thread at a time executes a module. `Counted`: the counter is the number of guards under way
and guards being left, plus those that traps have skipped, and decides whose handler is installed; the proof is about
cardinalities of a set that every action changes by at most one element. `Named`: the thread's runtime pointer is that of the innermost
guarded call. With nested modules that do not call each other in a circle (`Contiguous`), `Targets` says that the trap target
of a module is its outermost frame, and `Traces` that the records form the list of its frames from the innermost
outwards. A trap that cuts the stack at the target thus removes all frames of the module and no other's, and restores the list.

**ParallelMoveResolver.** `Counted`: the usage maps count the records that read a location, which
makes `tryMove` safe: it overwrites what nobody reads. When no record can move every target is read by another record
(`Circular`); as there are as many readers as targets, an injection of a finite set into itself is onto, so each
location is read once and the records form cycles. `WithHole` (scratch register): nobody reads the hole, and its reader's value
is in the scratch register. `WithSwaps` (exchanges): the value that the first location of the cycle held has come to the
target of the swap that is next, everything else still has its own; usage counts have become marks of the targets. `Settled` then gives
`Resolved`: every target is pending or has its value. `SingleRegisters` says
that the machines are those without register pairs and without stack slots that overlap: x86-64 and
AArch64, in both strategies and for every number of registers, slots and constants. `GoalAssumption`: the mark of a target without a goal is not a goal.

**FunctionBody.** *Assumptions.* `NumberAssumption`: the types of values are none of the marks in the list.
`InstructionAssumption`: signatures are sequences of such types and labels are naturals. `BoundAssumption`: the bounds are naturals.
*Argument.* `CompileStackAgrees` relates each block to a structural element found by following `prev`
from the current one. That is not inductive alone: nothing in it says that `prev` leads to the element around, or what an `else` will
find when it cuts the list at the fence. `ListOK` adds both: the function's element is the first and the only one of its
kind, each other structural element names the one that encloses it (`Encloses`: no structural element in between), and a fence lies
just above the copy of the parameters with which its `if` began. An operand is popped, and a type made up, only above the
*floor*, the current element or its fence, so an instruction that does not touch the structure changes one block's end only
(`SameBlockGood`). One that opens a block leaves everything below as it was (`OpenList`, `EnteredBlock`, `EnteredIf`); one that
closes it cuts the list at a position that the block around it encloses (`CutGood`), and what it leaves of the current part, at
most the copy of the parameters, has known types, because `Kept` has given them. An `end` that finds the inner block of an `if` still open is proved as an `else` followed by an `end`,
which is what the code does to the compile-time stack (`WithoutElse`).

*Refinement* (`FunctionValidation_proofs`). The frames are a recursive function of the position of an element (`FramesAround`). The
library's induction theorems cannot be used, but a fact about all positions can be written as a set of
naturals that contains each number whose predecessors it contains (`StrongInduction`, proved from the least element of a
set). So the function is shown to exist and is unfolded once (`AroundFacts`), and depends only on what the list says
up to there (`FrameSame`, `AroundSame`). With it, each thing the code does to the list is one thing done to the frames:
popping and pushing above the floor replaces the last frame (`StaysFrames`), an element pushed on top appends one,
a cut at the element's position removes one, and the frame that a label counts to is the one of the element that `prev`, followed as
often, leads to. There is one lemma `…Specified` per action: it is the corresponding action of `WasmValidation`, with the same verdict.
Two facts are needed beyond `IInv`, and stand in `SavedOK`: the parameters that an `if` puts aside are those of its
signature, and the function's element has the function's signature. `SameIfTypes`: no `if` has as many parameters as results but of
other types. For such an `if` without `else` the code accepts what the specification rejects (below), so the condition
cannot be dropped; the instructions of the run satisfy it. That labels denote the same block on both
stacks is part of this proof, because the frontend looks at the compile-time stack to
decide whether a `br_table` is in dead code.

**Only model-checked.**

- Liveness (`RequestEndsExecution`, `AccessEnds`, `Ends`, `Terminates`): beyond the prover.
- `BranchPatching` and `Arithmetic`: they need recursive operators (following a chain, running a sequence, arithmetic of bits), with which the prover cannot work.
- `CompileStack`, `CallFrames`: what they emit is a sequence built by folds over operands or parameters, and what such a sequence does is a fold again; a fact about each would need an induction of its own over the definition inside a library's operator.
- `ModuleCompilation`, `ModuleInstance`: a section is a fold over its items and the binary is read by another; that one undoes the other would need an induction over both.
- Register pairs and overlapping slots in the resolver: the code is wrong about some of them (below), `move` shows what holds.

## Where code and documentation disagree

The run `stack_check` refutes a statement of the repository, quoted in `PROJECT.json`:
"checkedStackFrameSize = std::min(checkedStackFrameSize of potential branch)" (`Common.cpp:1112`). The end of an `if`
without `else` whose condition is the constant true restores the end state of a block that no
branch reaches (`Frontend.cpp:1690`), in which `checkedStackFrameSize` is still `UINT32_MAX` (`Common.cpp:1125`,
`StackElement.hpp:213`): for the rest of the function the frame grows unchecked. `StackChecked`, which
`branches` checks, leaves out what follows such an `if`.

Met on the way and not the subject of a run. In validation and control flow:

- The end of an `if` without `else` compares the number of parameters and results, not their types (`Frontend.cpp:1657`): an `if` that takes an `i32` and returns an `i64` is accepted, against `docs/implementation_details/Multi-value.md:237`.
- At the end of an `if` without `else` that has results, the branch to the end is emitted before the locals are brought into the one state that ways may meet in (`Frontend.cpp:1672`, against `Common.cpp:1118`). What follows believes a local to be in its register and in memory where it is in one of them only.
- On AArch64 a conditional branch is chained to an earlier unconditional one that may be more than 1 MB away while its target is not (`aarch64_backend.cpp:2786`); the compilation is then given up. `NoFalseLimit` excludes it.

In the instructions of TriCore:

- A `memory.fill` of no bytes at an odd address sets the aligning byte and decrements the size 0 (`tricore_backend.cpp:2860`). `BulkMemory` names it `EmptyFillAtOddAddress`.
- The reversed subtraction of a global from a small constant ignores where the result is wanted (`tricore_assembler.cpp:1133`, against the comment before it). `Arithmetic` names it `ConstantMissesHint`.
- `F64_ABS` and `F64_NEG` write the high word only where the result goes to another register than the operand's (`tricore_backend.cpp:4046`). `Arithmetic` names it `LowWordStaysBehind`.
- `loadWordDRegDerefARegDisp16sx` encodes the destination in the form for A15 by `setDc` (`tricore_assembler.cpp:759`).

In the compiler's memory:

- A second compilation with the same `Compiler` finds the output object moved from, whose move constructor clears the request only (`ExtendableMemory.cpp:36`), against the comment at `Frontend.cpp:3161`.
- `compilerRealloc` forgets the old block when the allocation fails, and keeps the larger size (`WasmModule.cpp:185`).

In loading (the run's modules stay clear of these, except for the first):

- Where data segments overlap, the bytes of the first one win, since they are read from the end of the binary (`Runtime.cpp:258`); WebAssembly, whose MVP `src/README.md:33` claims, writes them in order, so that the last one wins. The run has such a pair. `DeclaredByte` is what WebAssembly says, and `InstanceAsDeclared` claims nothing of the value of the bytes that are `CoveredTwice`.
- A number of data segments is accepted without a data section to follow (`Frontend.cpp:3147`), and a table section of no tables makes element segments of no entries pass (`Frontend.cpp:754`).
- A data segment that ends at the last byte of the address space is refused (`Frontend.cpp:2668`).
- `Runtime::initializeModule` reads the place of a global as 16 bits (`Runtime.cpp:248`), where the compiler writes 32.
- Names are compared up to a NUL: an export whose name begins as another's, up to a NUL and with the same length, counts as its duplicate (`Frontend.cpp:1037`).
- A lookup of the empty name finds the wrapper of a table entry that has no export of its own (`Frontend.cpp:2972`).
- Of several lists of function names in a name section all names are written, but only those of the last are counted (`Frontend.cpp:3077`).
- `BinaryModule.hpp:77` says of the landing pad's address that in active mode it is that of the routine which extends the memory; it is null there.

In calls and memory:

- The usage map of the resolver compares stack positions for equality (`ParallelMoveResolver.hpp:225`), but TriCore parameters have 4 or 8 bytes; a tail call may store over half of a parameter it still has to read. (`overlapsWith`, `VariableStorage.hpp:273`, is not used there and would look at the wrong side of the position.)
- An imported function of version 2 that is exported again gets the entry wrapper of version 1 (`Frontend.cpp:2896`), against `docs/implementation_details/ImportFunction.md:24`.
- The entry wrapper of an exported import loads the global before and stores it after the host call, so what the host changes in between is lost.
- The stack check at the entry of a function uses D0 (TriCore, `tricore_call_dispatch.cpp:57`) or R9 (AArch64), which may hold a parameter of an import.
- On TriCore, `selectOffsetRegisterHelper` (`tricore_backend.hpp:1016`) advances A4 for displacements from the stack pointer beyond ten bits as well, and a call of an import whose link data lies beyond 16 bits loads from the second address register instead of the first (`tricore_backend.cpp:696`).
- The AArch64 adapter for imports of version 1 does not reload the size of the memory after the host call (`aarch64_backend.cpp:1549`), as the other adapter and the direct calls do (1384, 1697, 1748); `StateCoherent` excludes it.
- `runtimeMemoryAllocFnc` releases the mutex before `syncBasedataStart` (`ActiveMemoryManager.cpp:157`); a thread that takes it in between writes the flag through the address of the block given up, although `WasmModule.hpp:636` calls the mutex the protection of the reallocation.
- `requestInterruption` on an idle module interrupts the next call, where `WasmModule.hpp:209` has it do nothing.
- `reallocShrinkToActiveSize` (`Runtime.cpp:538`) passes a size that counts the basedata where a linear length is expected, and is refused, against `Runtime.hpp:350`.
- `getLinearMemoryRegion` (`Runtime.cpp:666`) narrows the offset of the last byte to 32 bits before it probes it, so a region that passes the end of the address space is granted, against `Runtime.hpp:290`.
- `tryMove` looks at the first register of a target pair only (`ParallelMoveResolver.hpp:225`). On TriCore a call of an import of version 1 with the parameters `(i32, i64)` six times may find its first arguments in `D6`, on the stack and in `D7`, and loses the third: it loads `D6:D7` before it reads `D7`. `CallFrames` names these arguments `UnderPair` and excludes them from `ValuesArrive`, `Tricore` in `MCParallelMoveResolver` shows the case in the resolver alone.
- An access whose end, together with the basedata, exceeds 32 bits traps for want of memory without the manager being asked, and
`isTrapOnMemoryExtendFailed` says no (`Runtime.cpp:684`, `WasmModule.hpp:305`); the reported desired RAM is that of the
last failure (`ActiveMemoryManager.cpp:162`) where `IMemoryManager.hpp:125` calls it the
maximum; and `setMaxRam` may set a limit below the size of the block, whose bytes become usable all the
same.
- A nested guarded call resets the thread's runtime pointer, so a fault of the outer call that follows is taken for a foreign one; a trap past a nested guard leaves `runningCounter` raised, so the handlers stay; a foreign fault removes the handlers for all threads. `execution` keeps account of these (`unnamed`, `skipped`) and shows what holds beside them.
- `Runtime.hpp:606` says of `tryTrap` "executing, this function will not return"; a callback's trap handler clears `trapStackReentry`, and it does return.
- With passive memory, `shrink` drops the bytes between the last page boundary and the length it was asked to keep (`LinearMemoryAllocator.cpp:132`, against `IMemoryManager.hpp:94` and `Runtime.hpp:438`). `WholePages` leaves such lengths out.

## What is not modelled, and why

- A runtime without a reallocation callback: its memory never changes size.
- `memory.init` and instructions on tables: not supported by the compiler.
- Encoding of instructions: tables of bit patterns, for which a model would be the table again.
- Executable memory, extensions, disassembler, bindings, fuzzers: data handling around the core.
- Memory of the compiler: growth of its output and of its bump allocator are sequential and copy data; two errors met there are listed above.
- LEB128 numbers: pure decoding, one value at a time. Constant folding: the operations of the host's arithmetic.

## The plan

| | Module | Abstract side | Proof |
|---|---|---|---|
| done | `ActiveJobMemory` | `WasmLinearMemory` | invariants and refinement |
| done | `PassiveMemory` | `WasmLinearMemory` | invariants and refinement |
| done | `ParallelMoveResolver` | simultaneous assignment | invariants; register pairs remain |
| done | `BulkMemory` | one move or fill | invariants |
| done | `Execution` | – | invariants |
| done | `FunctionBody` | `WasmValidation` | invariants and refinement |
| done | `CompileStack` | the semantics of WebAssembly | – |
| done | `CallFrames` and the modules below it | the calling conventions | – |
| done | `BranchPatching` and the modules below it | where WebAssembly's branches lead | – |
| done | `Arithmetic` for TriCore | `WasmArithmetic` | – |
| done | `ModuleCompilation`, `ModuleInstance` | valid modules and their instances | – |
| open | `Arithmetic` for x86-64 and AArch64 | `WasmArithmetic` | – |
