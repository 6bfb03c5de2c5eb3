--------------------------- MODULE MCPassiveMemory ---------------------------
(***************************************************************************)
(* An OS page has 2 bytes, a Wasm page 4, the address space 2 Wasm pages.  *)
(***************************************************************************)
EXTENDS PassiveMemory

At(at, width, byte) == [at |-> at, width |-> width, byte |-> byte]

MCByte == {0, 1}
Segments == {NoAccess, At(1, 2, 1)}

\* accesses across OS pages, across the end of each size, and beyond all of them
Accesses == {At(0, 2, 1), At(1, 2, Nothing), At(3, 2, 1), At(5, 1, 1), At(7, 2, 1), At(9, 1, Nothing)}
Regions == {At(2, 3, Nothing), At(6, 1, 1)}
=============================================================================
