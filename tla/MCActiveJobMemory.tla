------------------------- MODULE MCActiveJobMemory --------------------------
(***************************************************************************)
(* Instances of ActiveJobMemory for TLC.  MaxUint is 7 and a page has two  *)
(* bytes, so that 4 pages are MaxUint + 1 bytes as 65536 pages are 2^32.   *)
(***************************************************************************)
EXTENDS ActiveJobMemory

At(at, width, byte) == [at |-> at, width |-> width, byte |-> byte]

MCAddress == {"p", "q"}
MCByte == {0, 1}

NoSegment == {NoAccess}
OneSegment == {NoAccess, At(0, 1, 1)}

\* loads and stores, one of them across the end of the smaller sizes
SomeAccesses == {At(0, 1, Nothing), At(1, 2, Nothing), At(2, 1, 1), At(3, 2, 1), At(6, 2, 1)}
FewAccesses == {At(1, 1, Nothing), At(3, 2, 1)}

NoRegions == {}
SomeRegions == {At(2, 2, Nothing)}
=============================================================================
