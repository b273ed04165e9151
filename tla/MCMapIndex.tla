----------------------------- MODULE MCMapIndex -----------------------------
(***************************************************************************)
(* MapIndex with three contents.  Two hash to the last bucket of every     *)
(* table, so the second one wraps around to the first bucket and displaces *)
(* the third, which belongs there.  With at least four buckets the first   *)
(* and the third insertion build a table, the second finds room in it.     *)
(***************************************************************************)
EXTENDS MapIndex

CONSTANTS k1, k2, k3, r1, r2, r3, v1, v2

Hashes == [c \in Contents |-> IF c = k3 THEN 0 ELSE 7]

=============================================================================
