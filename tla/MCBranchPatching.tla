-------------------------- MODULE MCBranchPatching --------------------------
(***************************************************************************)
(* Programs for BranchPatching: each plan is a kind of control flow. The   *)
(* code called "far" is 130 bytes long and the branches reach 128 and 256  *)
(* bytes, so that one or two stretches of it are too far.                  *)
(***************************************************************************)
EXTENDS BranchPatching

All == {"x86", "arm", "tricore"}
Plan(ops, conds, length) ==
    [isas |-> All, debug |-> {FALSE}, ops |-> ops, conds |-> conds, length |-> length, functions |-> 1]

Conditions == IntConditions \cup FloatConditions \cup {"VALUE", "EQZ"}

MCPlans ==
    { Plan({"BLOCK", "IF", "ELSE", "BR_IF", "SPILL"}, {"VALUE"}, 4),
      Plan({"LOOP", "BLOCK", "BR", "BR_IF", "SPILL"}, {"VALUE"}, 4),
      Plan({"BLOCK", "IF", "BR_IF"}, Conditions, 2),
      Plan({"BLOCK", "SPILL", "BR_IF"}, {"LT_F", "NE_F", "GE_U"}, 3),
      Plan({"BLOCK", "LOOP", "SPILL", "BR_TABLE"}, {}, 3),
      Plan({"BLOCK", "IF_constant", "ELSE", "BR", "SPILL"}, {}, 4),
      Plan({"BLOCK", "IF_constant", "ELSE", "BR", "SPILL", "RESULTS"}, {}, 3),
      Plan({"IF", "ELSE", "BR_IF", "RESULTS"}, {"VALUE"}, 3),
      Plan({"BLOCK", "BR", "BR_IF", "OTHER"}, {"VALUE"}, 5),
      [Plan({"CHECK", "UNREACHABLE", "OTHER", "LOOP"}, {}, 5) EXCEPT !.debug = BOOLEAN],
      [Plan({"CALL", "OTHER", "LOOP", "SPILL"}, {}, 4) EXCEPT !.functions = 2] }
=============================================================================
