---------------------------- MODULE GcHeapSafety ----------------------------
(***************************************************************************)
(* The inductive invariants of the heap, as predicates on the heap record  *)
(* that every operation of Collector and GcHeap maps to another one.       *)
(* LayoutInv is about slots, ids and what the collector owns; it holds of  *)
(* every host.  ReferenceInv adds the references between objects and the   *)
(* two barriers; it needs stores to name their owner by a current id.      *)
(* ShadowInv relates a compaction to the snapshot it is checked against.   *)
(***************************************************************************)
EXTENDS GcHeapProperties

HeapFields ==
  {"objects", "generations", "remembered_set", "weak_refs", "ephemerons", "intern_table",
   "cells", "extra", "stress", "phase", "worklist", "plan", "cursor", "shadow", "allocated"}

Relocations == [source_id : Ids, destination_id : Ids]

HeapIsTyped(h) ==
  /\ DOMAIN h = HeapFields
  /\ Size(h) \in Nat
  /\ h.objects \in [0 .. Size(h) - 1 -> Objects \cup {None}]
  /\ h.generations \in [0 .. Size(h) - 1 -> Nat]
  /\ {h.remembered_set, h.weak_refs, h.ephemerons, h.intern_table, h.worklist} \subseteq SUBSET Ids
  /\ h.cells \in [Cells -> Values]
  /\ h.extra \in Seq(Values)
  /\ h.phase \in {"idle", "marking", "compacting"}
  /\ h.plan \in Seq(Relocations)
  /\ h.cursor \in 0 .. Len(h.plan)
  /\ h.allocated \in Nat

Width(h, s) == storage_slot_count(h.objects[s])

\* Every base has a current generation, and runs follow each other.
RunsFollow(h) ==
  /\ \A s \in Headers(h) : /\ validate_descriptor_shape(h.objects[s])
                           /\ h.generations[s] > 0
                           /\ s + Width(h, s) <= Size(h)
  /\ \A s, t \in Headers(h) : s < t => s + Width(h, s) <= t

(***************************************************************************)
(* A compaction cycle: the entries up to the cursor have moved.            *)
(***************************************************************************)
Source(h, i) == slot_from(h.plan[i].source_id)
Destination(h, i) == slot_from(h.plan[i].destination_id)

\* Where the survivor of entry i is, and its current id.
Base(h, i) == IF i <= h.cursor THEN Destination(h, i) ELSE Source(h, i)
Name(h, i) == IF i <= h.cursor THEN h.plan[i].destination_id ELSE h.plan[i].source_id

\* Survivors slide down in slot order, and no destination id is the source
\* id of another survivor.
PlanSlides(h) ==
  /\ \A i \in DOMAIN h.plan :
       /\ 0 <= Destination(h, i) /\ Destination(h, i) <= Source(h, i)
       /\ Source(h, i) + Width(h, Base(h, i)) <= Size(h)
       /\ Destination(h, i) = Source(h, i) => h.plan[i].destination_id = h.plan[i].source_id
       /\ generation_from(h.plan[i].source_id) > 0
       /\ generation_from(h.plan[i].destination_id) > 0
  /\ \A i, j \in DOMAIN h.plan : i < j =>
       /\ Source(h, i) + Width(h, Base(h, i)) <= Source(h, j)
       /\ Destination(h, i) + Width(h, Base(h, i)) <= Destination(h, j)
  /\ \A i, j \in DOMAIN h.plan : i # j => h.plan[i].source_id # h.plan[j].destination_id

PlanIsCurrent(h) ==
  /\ Headers(h) = {Base(h, i) : i \in DOMAIN h.plan}
  /\ \A i \in DOMAIN h.plan : IdAt(h, Base(h, i)) = Name(h, i)
  /\ PlanSlides(h)

PhaseIsClean(h) ==
  /\ h.phase # "compacting" => h.plan = <<>> /\ h.cursor = 0 /\ h.shadow = None
  /\ h.phase = "compacting" => PlanIsCurrent(h)
  /\ h.phase # "marking" => h.worklist = {}

\* What the registries promise (validate_weak_targets, validate_ephemerons,
\* validate_intern_table), and that remembered owners exist.
RegistriesName(h) ==
  /\ \A id \in h.remembered_set : Resolves(h, id)
  /\ h.weak_refs = OfKind(h, "WeakRef")
  /\ h.ephemerons = OfKind(h, "Ephemeron")
  /\ h.intern_table \subseteq OfKind(h, "Str")
  /\ \A s \in Headers(h) : \A v \in SoftReferences(h.objects[s]) : Resolves(h, v)
  /\ \A a, b \in h.intern_table : ObjectOf(h, a).text = ObjectOf(h, b).text => a = b

\* Objects are numbered by their allocation, and the capacity ladder of a
\* builder has a first rung.
NamesAreUsed(h) ==
  \A s \in Headers(h) : /\ h.objects[s].data < h.allocated
                        /\ h.objects[s].kind = "Builder" => h.objects[s].length > 0

LayoutInv(h) ==
  HeapIsTyped(h) /\ RunsFollow(h) /\ PhaseIsClean(h) /\ RegistriesName(h) /\ NamesAreUsed(h)

\* A running method's operands can be used.
OperandsResolve(h) == \A i \in DOMAIN h.extra : is_object(h.extra[i]) => Resolves(h, h.extra[i])

(***************************************************************************)
(* References.                                                             *)
(***************************************************************************)
MarksAreClear(h) == \A s \in Headers(h) : ~h.objects[s].marked

StrongResolve(h) ==
  \A s \in Headers(h) : \A v \in visit_reference_fields(h.objects[s]) : Resolves(h, v)

\* Visited roots are current at every step of a compaction.
RootsAreCurrent(h) == \A c \in Cells \ RawCells : is_object(h.cells[c]) => Physical(h, h.cells[c])

\* Only a marking cycle leaves marks, and what it has marked refers to
\* nothing that is neither marked nor on the worklist.
MarksAreSafe(h) ==
  IF h.phase = "marking"
  THEN validate_incremental_marking(h) /\ \A id \in h.worklist : Physical(h, id)
  ELSE MarksAreClear(h)

ReferenceInv(h) ==
  StrongResolve(h) /\ RootsAreCurrent(h) /\ MarksAreSafe(h) /\ validate_remembered_set(h)

(***************************************************************************)
(* The mutator's view.                                                     *)
(***************************************************************************)
\* No two objects have the same identity.
NamesAreUnique(h) ==
  \A s, t \in Headers(h) : h.objects[s].data = h.objects[t].data => s = t

(***************************************************************************)
(* The snapshot of an active compaction.  It names every survivor by its   *)
(* source id, whether that has moved or not.                               *)
(***************************************************************************)
SourceNames(h, values) ==
  [i \in DOMAIN values |-> normalize_incremental_compaction_shadow_value(h, values[i])]

SourceIds(h, ids) == {normalize_incremental_compaction_shadow_value(h, id) : id \in ids}

\* q is what the snapshot has of the survivor o.
Mirrors(h, o, q) ==
  /\ q.kind = o.kind /\ q.length = o.length /\ q.data = o.data /\ q.text = o.text
  /\ q.strong = SourceNames(h, o.strong) /\ q.soft = SourceNames(h, o.soft)

Sources(h) == {Source(h, i) : i \in DOMAIN h.plan}

\* The plan is the slide of the snapshot.
SnapshotIsPlanned(h, s) ==
  LET to   == Destinations(s.objects, Sources(h))
      gens == MovedGenerations(s.generations, to)
  IN  \A i \in DOMAIN h.plan :
        LET from == Source(h, i)
        IN  h.plan[i] = [source_id      |-> make_object_id(from, s.generations[from]),
                         destination_id |-> make_object_id(to[from], gens[to[from]])]

\* The snapshot has the survivors, where and as they were before they moved
\* but for what was stored into them since, and nothing else.
SnapshotMirrors(h, s) ==
  /\ DOMAIN s = {"objects", "generations", "weak_refs", "intern_table", "ephemerons"}
  /\ s.objects \in [DOMAIN h.objects -> Objects \cup {None}]
  /\ s.generations \in [DOMAIN h.objects -> Nat]
  /\ \A t \in DOMAIN h.objects : s.objects[t] # None <=> t \in Sources(h)
  /\ \A i \in DOMAIN h.plan : Mirrors(h, h.objects[Base(h, i)], s.objects[Source(h, i)])
  /\ \A t \in DOMAIN h.objects :
       (\A i \in 1 .. h.cursor : Destination(h, i) # t) => h.generations[t] = s.generations[t]
  /\ s.weak_refs = SourceIds(h, h.weak_refs)
  /\ s.intern_table = SourceIds(h, h.intern_table)
  /\ s.ephemerons = SourceIds(h, h.ephemerons)

MovedAreOld(h) == \A i \in 1 .. h.cursor : h.objects[Destination(h, i)].age = "Old"

ShadowInv(h) ==
  h.phase = "compacting" =>
    SnapshotIsPlanned(h, h.shadow) /\ SnapshotMirrors(h, h.shadow) /\ MovedAreOld(h)

\* Slots, ids, plan and registries are consistent between any two steps of the
\* collector and whatever the host calls there.
GcLayoutInv == LayoutInv(heap) /\ allocated <= MaxObjects /\ host \in Hosts

\* References resolve, and what the two barriers and the marks promise holds.
GcReferenceInv == ReferenceInv(heap)
GcInv == GcLayoutInv /\ GcReferenceInv

\* Every store during a compaction is repeated on the shadow: the snapshot is
\* the heap as it would be had nothing moved, under source ids, and the plan is
\* the slide of that snapshot.
GcShadowInv == ShadowInv(heap)

\* The host names the owner of a store through registered cells only.
OwnersAreCurrent == host.owners \cap RawCells = {}

\* The host keeps references in registered cells only.
NothingIsRaw == OwnersAreCurrent /\ host.raw = {}

\* No growth, compaction or interning leaves a second copy of an object.  When
\* nothing is raw, the raw cells stay as they were made.
GcNameInv == /\ NamesAreUnique(heap)
             /\ host.raw = {} => \A c \in RawCells : cells[c] = Nil

=============================================================================
