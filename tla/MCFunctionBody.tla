--------------------------- MODULE MCFunctionBody ---------------------------
(***************************************************************************)
(* Bodies of a function that returns an i32, over two number types.        *)
(***************************************************************************)
EXTENDS FunctionBody

Produce == Signature(<<>>, <<"i32">>)
Transform == Signature(<<"i32">>, <<"i32">>)
Consume == Signature(<<"i32">>, <<>>)
Wide == Signature(<<>>, <<"i64">>)

Constants == {Plain(<<>>, <<"i32">>), Plain(<<>>, <<"i64">>)}
Leaving == {Simple("unreachable"), Simple("return"),
            ReturnCall(Transform), ReturnCall(Wide)}
Branches ==
  {Br(0), Br(1), BrIf(0, "nothing"), BrIf(0, "true"),
   BrTable(<<0, 1>>), BrTable(<<1, 0>>)}

\* The label types of a wide block and of the function around it differ.  An if
\* with as many results as parameters has the same types: without an else the
\* code compares their numbers only.
AllInstructions ==
  Constants \union Leaving \union Branches
    \union {Simple("drop"), Simple("select"), Simple("else"), Simple("end")}
    \union {Structured("block", Wide), Structured("loop", Consume)}
    \union {If(Produce, "false"), If(Transform, "nothing"), If(Transform, "true")}

\* States that differ in the last instruction only have the same successors; the
\* properties about an instruction are checked on the steps.
View == <<elements, current, blocks, verdict>>
=============================================================================
