--------------------------- MODULE MCHeapStorage ---------------------------
(***************************************************************************)
(* HeapStorage with a handful of objects.  Every behaviour is finite: each *)
(* object is allocated once and grows at most to the largest width, so the *)
(* storage that compactions can move is used up.                           *)
(***************************************************************************)
EXTENDS HeapStorage, TLC

CONSTANTS o1, o2, o3, o4

TenantsAreSymmetric == Permutations(Tenants)

=============================================================================
