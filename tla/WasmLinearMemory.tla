-------------------------- MODULE WasmLinearMemory --------------------------
(***************************************************************************)
(* What a linear memory promises the program that uses it, whatever        *)
(* manager stands behind it (IMemoryManager): a byte array that reads 0    *)
(* where nothing was stored, a size in pages that only memory.grow         *)
(* changes, a trap for every access that leaves that size, and a discard   *)
(* that keeps at least the length the embedder names.                      *)
(*                                                                         *)
(* The detailed specifications ActiveJobMemory and PassiveMemory implement *)
(* this one.                                                               *)
(***************************************************************************)
EXTENDS MemoryAccess

CONSTANTS
  Offset,       \* offsets of the bytes that are tracked
  Byte,         \* values a byte of a module may hold, 0 among them
  PageSize,     \* bytes of a page
  PageLimit,    \* the page count memory.grow may reach
  Reach         \* the numbers a caller names: addresses, widths, lengths, pages

VARIABLES
  pages,        \* the formal size, in pages
  mem,          \* [Offset -> Byte]
  answer        \* what the last operation reported to its caller

lmVars == <<pages, mem, answer>>

WithinPages(at, width) == at + width <= pages * PageSize

LMInit ==
  /\ pages \in 0 .. PageLimit
  /\ mem = [o \in Offset |-> 0]
  /\ answer = Said("none")

Load(at, width) ==
  /\ WithinPages(at, width)
  /\ Covers(at, width) \subseteq Offset
  /\ answer' = Accessed("loaded", [o \in Covers(at, width) |-> mem[o]])
  /\ UNCHANGED <<pages, mem>>

Store(at, width, byte) ==
  /\ WithinPages(at, width)
  /\ Covers(at, width) \subseteq Offset
  /\ mem' = [o \in Offset |-> IF o \in Covers(at, width) THEN byte ELSE mem[o]]
  /\ answer' = Accessed("stored", [o \in Covers(at, width) |-> byte])
  /\ UNCHANGED pages

(***************************************************************************)
(* The access leaves the formal size: it must trap, and only such an       *)
(* access may be reported as out of bounds.  Any access may fail for want  *)
(* of memory.                                                              *)
(***************************************************************************)
OutOfBounds(at, width) ==
  /\ ~WithinPages(at, width)
  /\ answer' = Said("outofbounds")
  /\ UNCHANGED <<pages, mem>>

OutOfMemory ==
  /\ answer' = Said("couldnotextend")
  /\ UNCHANGED <<pages, mem>>

(***************************************************************************)
(* memory.grow returns the previous size or -1.                            *)
(***************************************************************************)
Grow(delta) ==
  IF pages + delta <= PageLimit
  THEN /\ pages' = pages + delta
       /\ answer' = Grown(pages)
       /\ UNCHANGED mem
  ELSE /\ answer' = Grown(-1)
       /\ UNCHANGED <<pages, mem>>

(***************************************************************************)
(* The embedder gives back memory, except for the minimum it names: that   *)
(* "must remain usable" (IMemoryManager::shrink, shrinkLinearMemory).  The *)
(* bytes behind it may be gone before the call has returned.               *)
(***************************************************************************)
Discard(minimum) ==
  /\ \E length \in Reach :
       /\ length >= minimum
       /\ mem' = [o \in Offset |-> IF o < length THEN mem[o] ELSE 0]
  /\ answer' \in {Shrinking(minimum), Shrunk(minimum)}
  /\ UNCHANGED pages

(***************************************************************************)
(* A call that starts, is refused or is interrupted: no byte changes.      *)
(***************************************************************************)
Refuse ==
  /\ answer' \in {Said("none"), Said("refused"), Said("interrupted")}
  /\ UNCHANGED <<pages, mem>>

LMNext ==
  \/ Refuse
  \/ OutOfMemory
  \/ \E delta \in Reach : Grow(delta)
  \/ \E minimum \in Reach : Discard(minimum)
  \/ \E at \in Reach, width \in Reach :
       \/ OutOfBounds(at, width)
       \/ Load(at, width)
       \/ \E byte \in Byte : Store(at, width, byte)

LMSpec == LMInit /\ [][LMNext]_lmVars
=============================================================================
