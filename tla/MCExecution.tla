---------------------------- MODULE MCExecution ----------------------------
(***************************************************************************)
(* Two threads, two modules.                                               *)
(***************************************************************************)
EXTENDS Execution, TLC

CONSTANTS t1, t2, r1, r2

Symmetry == Permutations({t1, t2}) \union Permutations({r1, r2})
=============================================================================
