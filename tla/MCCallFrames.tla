---------------------------- MODULE MCCallFrames ----------------------------
(***************************************************************************)
(* Signatures and calls for CallFrames.                                    *)
(***************************************************************************)
EXTENDS CallFrames

CONSTANTS CalledOn,      \* targets, with the conventions of the host on them
          Signatures     \* pairs of the types of the parameters and of the results

Alternating(n, a, b) == [i \in 1 .. n |-> IF i % 2 = 1 THEN a ELSE b]

Kinds(callee) ==
    CASE callee = "wasm"     -> {"entry", "call", "return_call", "enter"}
      [] callee = "indirect" -> {"call", "return_call"}
      [] callee = "v1"       -> {"entry", "call", "return_call", "adapter"}
      [] callee = "v2"       -> {"call", "return_call", "adapter"}
IsCall(kind) == kind \in {"call", "return_call"}

(* Where the arguments of a call come from: temporaries on the stack, the  *)
(* parameters of a caller of the same signature in another order, or       *)
(* registers first.                                                        *)
Origins(kind) == IF IsCall(kind) THEN {"stack", "params", "registers"} ELSE {"none"}

Record(target, os, kind, callee, params, results, trace, debug, global, nested, sources, index, frame) ==
    [target |-> target, os |-> os, kind |-> kind, callee |-> callee, params |-> params, results |-> results,
     trace |-> trace, debug |-> debug, global |-> global, nested |-> nested, limit |-> 512,
     sources |-> sources, index |-> index, frame |-> frame]

Width(j) == On(j, T!OldWidth(j), X!OldWidth(j), R!OldWidth(j))
Homes(j) == On(j, T!Homes(j.params, T!Start(j)), X!Homes(j), R!Homes(j))

(* The parameter of the same type that comes next, in turn.                *)
Other(params, i) ==
    LET same == {k \in DOMAIN params : params[k] = params[i]}
        later == {k \in same : k > i}
        first(S) == CHOOSE k \in S : \A m \in S : k <= m
    IN  IF later # {} THEN first(later) ELSE first(same)

(* The registers of a pool for the integer (floating-point, TriCore 64-bit) *)
(* arguments in turn, and the stack for what is left.                      *)
Class(j, type) == IF j.target = "tricore" THEN (IF Is64(type) THEN "wide" ELSE "int")
                  ELSE IF IsInt(type) THEN "int" ELSE "float"
Pool(j, class) ==
    CASE class = "wide"  -> T!WideSources
      [] class = "int"   -> On(j, T!IntSources, X!IntSources, R!IntSources)
      [] class = "float" -> On(j, T!FloatSources, X!FloatSources, R!FloatSources)

Temp(params, base, i) == Pos(base + 8 * i, Size(params[i]))
Sources(j, origin, base) ==
    CASE origin = "stack"  -> [i \in DOMAIN j.params |-> Temp(j.params, base, i)]
      [] origin = "params" -> [i \in DOMAIN j.params |-> Homes(j)[Other(j.params, i)]]
      [] origin = "none"   -> <<>>
      [] origin = "registers" ->
            [i \in DOMAIN j.params |->
                LET n == (IF j.global THEN 1 ELSE 0) +
                         Cardinality({k \in 1 .. i : Class(j, j.params[k]) = Class(j, j.params[i])})
                    pool == Pool(j, Class(j, j.params[i]))
                IN  IF n <= Len(pool) THEN Reg(pool[n], Size(j.params[i])) ELSE Temp(j.params, base, i)]

(* The width of the caller's own parameters on the stack: none, as many as *)
(* the callee's, more.                                                     *)
CallerWidths(kind, origin, own) ==
    IF origin = "params" THEN {own} ELSE IF kind = "call" THEN {16} ELSE {0, own, own + 16}

Alignment(j) == On(j, 8, 16, 16)
AlignedSize(j, width, size) == RoundUp(size - width, Alignment(j)) + width

(* The frame of the function that calls: its parameters, the return        *)
(* address, the temporaries and a few bytes more that the call gives up.   *)
WithFrame(j, origin, width) ==
    LET base == width + 8
        last == base + 8 * (Len(j.params) + 1)
        size == AlignedSize(j, width, last) + 32
    IN  Record(j.target, j.os, j.kind, j.callee, j.params, j.results, j.trace, j.debug, j.global, j.nested,
               Sources(j, origin, base), Pos(last, 4),
               [paramWidth |-> width, lastMax |-> last, size |-> size, checked |-> 10000, locals |-> 8])
NoFrameYet == [paramWidth |-> 0, lastMax |-> 0, size |-> 0, checked |-> 0, locals |-> 8]

(* Compiled with stack trace records and a global in a register, with      *)
(* neither, or in debug mode.                                              *)
Modes(target) == {"plain", "full"} \cup (IF target = "tricore" THEN {} ELSE {"debug"})
Plain(on, kind, callee, sig, mode, nested) ==
    Record(on[1], on[2], kind, callee, sig[1], sig[2], mode = "full", mode = "debug", mode = "full", nested,
           <<>>, Pos(0, 4), NoFrameYet)

(* A host function of version 1 has one result at most.                    *)
Possible(callee, sig) == callee = "v1" => Len(sig[2]) <= 1
JobsOf(on, kind, callee, sig, mode) ==
    IF IsCall(kind)
    THEN LET j == Plain(on, kind, callee, sig, mode, FALSE)
         IN  UNION {{WithFrame(j, origin, width) : width \in CallerWidths(kind, origin, Width(j))} :
                    origin \in Origins(kind)}
    ELSE {Plain(on, kind, callee, sig, mode, nested) : nested \in IF kind = "entry" THEN BOOLEAN ELSE {FALSE}}

Cases ==
    {c \in CalledOn \X {"entry", "call", "return_call", "enter", "adapter"} \X {"wasm", "indirect", "v1", "v2"}
              \X Signatures \X {"plain", "full", "debug"} :
        c[2] \in Kinds(c[3]) /\ Possible(c[3], c[4]) /\ c[5] \in Modes(c[1][1])}
AllJobs == UNION {JobsOf(c[1], c[2], c[3], c[4], c[5]) : c \in Cases}

AllTargets == {<<"tricore", "linux">>, <<"x86_64", "posix">>, <<"x86_64", "windows">>, <<"aarch64", "linux">>,
               <<"aarch64", "apple">>}
SomeSignatures ==
    {<<<<>>, <<"i32">>>>,
     <<<<"i64">>, <<>>>>,
     <<Alternating(3, "i32", "i64"), <<"f64">>>>,
     <<Alternating(5, "i64", "i32"), Alternating(3, "i64", "i32")>>,
     <<Alternating(6, "f64", "i32"), Alternating(4, "f32", "i32")>>,
     <<Alternating(9, "i32", "i32"), <<"i64">>>>,
     <<Alternating(11, "i64", "f32"), Alternating(4, "i64", "f64")>>,
     <<Alternating(12, "i32", "i64"), <<>>>>}
=============================================================================
