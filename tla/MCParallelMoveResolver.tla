----------------------- MODULE MCParallelMoveResolver -----------------------
(***************************************************************************)
(* Instances of ParallelMoveResolver for TLC.                              *)
(***************************************************************************)
EXTENDS ParallelMoveResolver, TLC

CONSTANTS a, b, c, e, s, t, u, s4, s8, s12

Backend(strategy, widths, targets, sources, temps, pairs, capacity) ==
  [strategy |-> strategy, widths |-> widths, targets |-> targets,
   sources |-> [target \in targets |-> sources], temps |-> temps, pairs |-> pairs,
   overlaps |-> {}, capacity |-> capacity]

NoPairs == [l \in {} |-> l]

\* a and b, c and e, t and u are extended registers
Pairs == a :> b @@ c :> e @@ t :> u

\* AArch64, and indirect tail calls on x86-64; 1 is a cheap constant, 2 a costly one
OneTemp == Backend("temp", {FALSE}, {a, b, c, s}, {a, b, c, s, 1, 2}, {t}, NoPairs, 4)

\* x86-64
Swaps == Backend("swap", BOOLEAN, {a, b, c, s}, {a, b, c, s}, {}, NoPairs, 4)

\* TriCore, when single registers are loaded from slots and constants only
Extended == Backend("temp", {FALSE}, {a, b, c, e, s}, {s, 1}, {t, u}, Pairs, 5)

\* TriCore
ExtendedAndSingle == Backend("temp", {FALSE}, {a, b, c, e, s}, {a, b, c, e, s, 1}, {t, u}, Pairs, 5)

Sound == {OneTemp, Swaps, Extended}
Tricore == {ExtendedAndSingle}
=============================================================================
