---------------------------- MODULE MCBulkMemory ----------------------------
(***************************************************************************)
(* Sizes around every threshold of the three backends and around Word/2;   *)
(* operands apart, overlapping by less than a chunk either way, and equal. *)
(***************************************************************************)
EXTENDS BulkMemory

MCSizes == [t \in Targets |-> IF t = "tricore" THEN Word \div 2 ELSE Word - 2]

Small == {0, 1, 2, 3, 7, 8, 9, 11, 12, 16, 17, 23, 27, 31, 32, 35, 36, 41}
Large == {47, 48, 49, 52, 59, 63, 64, 65, 72, 79, 80, 81, 84, 90, 93, 120, 127}

Operands == {<<0, 0>>, <<0, 1>>, <<1, 0>>, <<0, 5>>, <<5, 0>>, <<3, 11>>, <<12, 4>>, <<9, 30>>, <<40, 1>>}

Request(t, k, c, o, n) ==
  [target |-> t, kind |-> k, constant |-> c, dst |-> o[1], src |-> o[2], size |-> n]

All == {Request(t, k, c, o, n) : t \in Targets, k \in {"copy", "fill"}, c \in BOOLEAN,
                                 o \in Operands, n \in Small \union Large}

MCRequests == {r \in All : /\ r.kind = "fill" => ~r.constant /\ r.src = 0
                           /\ ~Unsound(r)}

FillRequests == {r \in All : r.kind = "fill" /\ r.target = "tricore" /\ r.size = 0}
=============================================================================
