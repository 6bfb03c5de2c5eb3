--------------------------- MODULE MCCompileStack ---------------------------
\* Four scratch registers, two of which the calling convention uses for results, one
\* for a parameter; the first parameter register is the one local x lives in.
EXTENDS CompileStack

FourScratch == <<"B", "A", "D", "C">>
Params == <<"X", "B">>
Rets == <<"A", "C">>
Sigs == {<<0, 0>>, <<1, 1>>, <<2, 1>>}

Push == {"const", "x.get", "y.get", "global.get", "memory.size"}
Set == {"x.set", "y.set", "global.set"}
Two == {"add", "sub", "cmp", "div"}
One == {"load", "loado"}
Sink == Set \union {"x.tee", "store", "drop", "memory.grow", "call"}
Body == Set \union {"call", "drop", "x.tee"}

\* The bound: the functions explored have one instruction of each set, in this order.
Trees == <<Push, Push, Two, Push, One \union Two, Sink, Sink>>
Hints == <<{"x.get", "y.get", "global.get"}, Push, Push, One \union Two, Set \union {"x.tee"},
           One \union Two \union {"store"}, Set, Sink>>
\* More live results than there are registers.
Pressure == <<{"memory.size"}, {"memory.size"}, {"memory.size"}, Push, Push,
              One \union Two \union {"select"}, Two \union Sink, Two \union Sink>>
Selects == <<Push, Push, Push, One \union Two \union {"select"}, {"select"} \union Sink,
             Sink \union {"select"}, Sink>>
Effects == <<Push, One, Push, One \union Two, Push, Sink, Sink, Sink>>
Ifs == <<Push, Push, Push \union One, {"if"}, Push \union Body, Body, {"else", "end", "br"},
         Push \union {"end"}, {"end"} \union Body, {"end"} \union Body>>
Loops == <<Push, Push, {"loop"}, Body, Push, Push \union One, {"br_if", "br"},
           {"end"} \union Body, Body>>
Nested == <<Push, Push, Push \union One \union Two, {"block"}, Body, Push,
            {"br_if", "br", "x.set"}, Body \union {"end"}, {"end"}, Body>>
Calls == <<Push, Push, One \union Two \union Push, {"call"}, Push, Sink>>

TheShapes == {Trees, Hints, Pressure, Selects, Effects, Ifs, Loops, Nested, Calls}
=============================================================================
