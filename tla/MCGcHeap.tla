------------------------------ MODULE MCGcHeap ------------------------------
(***************************************************************************)
(* Small instances of GcHeap: two or three root cells and a few objects of *)
(* the kinds that each run is about.                                       *)
(***************************************************************************)
EXTENDS GcHeapSafety

CONSTANTS c1, c2, c3, A, B

CellsAreSymmetric == Permutations(Cells \ RawCells)

Shape(kind, length, refs) == [kind |-> kind, length |-> length, refs |-> refs]

ShortCell == Shape("Pair", 2, 2)       \* width 1
OneField  == Shape("Record", 1, 1)     \* width 2
Leaf      == Shape("ScalarArray", 1, 0)
Weak      == Shape("WeakRef", 0, 1)
Ephemeron == Shape("Ephemeron", 0, 2)
EmptyMap  == Shape("Map", 0, 0)
Text      == Shape("Str", 8, 0)
EmptyBuilder == Shape("Builder", 8, 0)

Host(shapes, calls) ==
  [shapes |-> shapes, calls |-> calls, owners |-> {c1, c2}, raw |-> {},
   length |-> 0, stress |-> {{}}]

\* Atomic collections between stores of a young generation.
AtomicHost ==
  Host(<<{OneField, Leaf}, {OneField, Weak}, {OneField, Weak, Ephemeron}>>,
       {"major", "minor"})

\* Chains of ephemerons; nothing is stored after construction.
SoftHost ==
  [Host(<<{Leaf}, {Leaf}, {Ephemeron}, {Ephemeron}>>, {"compaction"})
     EXCEPT !.owners = {}]

\* A map that grows while marking is under way.
MarkingHost ==
  [Host(<<{EmptyMap}, {Leaf}, {Text}>>, {"marking"}) EXCEPT !.length = 1]

\* Stores and a raw id while objects are moved.
CompactionHost ==
  [Host(<<{OneField}, {Ephemeron}, {Leaf}>>, {"compaction"})
     EXCEPT !.raw = {c3}]

\* The same, with the raw id as the owner of stores.
ForwardedOwnerHost ==
  [Host(<<{OneField}, {OneField}, {Leaf}>>, {"minor", "compaction"})
     EXCEPT !.raw = {c3}, !.owners = {c1, c2, c3}]

TextHost ==
  [Host(<<{EmptyBuilder, Text}, {Text}, {Text}>>,
        {"minor", "marking", "compaction"}) EXCEPT !.length = 2]

StressHost ==
  [Host(<<{OneField}, {Weak}, {OneField}>>, {"marking", "compaction"})
     EXCEPT !.stress = {{"before"}, {"after"}, {"barrier"}}]

AtomicHosts      == {AtomicHost}
IncrementalHosts == {SoftHost, MarkingHost, CompactionHost}
ForwardedHosts   == {ForwardedOwnerHost}
TextHosts        == {TextHost}
StressHosts      == {StressHost}

=============================================================================
