---------------------------- MODULE MemoryAccess ----------------------------
(***************************************************************************)
(* Accesses to a linear memory and the answers they get, shared by the     *)
(* abstract memory and the managers that implement it.                     *)
(***************************************************************************)
EXTENDS Integers

(***************************************************************************)
(* The offsets of an access of the given width.                            *)
(***************************************************************************)
Covers(at, width) == at .. (at + width - 1)

(***************************************************************************)
(* Answers.  "bytes" holds the bytes an access read or wrote, "count" the  *)
(* result of memory.grow, or the length a shrink was asked to keep.        *)
(***************************************************************************)
Said(kind) == [kind |-> kind, bytes |-> <<>>, count |-> 0]
Accessed(kind, bytes) == [kind |-> kind, bytes |-> bytes, count |-> 0]
Grown(count) == [kind |-> "grown", bytes |-> <<>>, count |-> count]
Shrinking(minimum) == [kind |-> "shrinking", bytes |-> <<>>, count |-> minimum]
Shrunk(minimum) == [kind |-> "shrunk", bytes |-> <<>>, count |-> minimum]
=============================================================================
