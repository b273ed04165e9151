-------------------------- MODULE GcHeapProperties --------------------------
(***************************************************************************)
(* What the heap guarantees: the checks that heap.cpp runs on itself, and  *)
(* what they are for, stated over the mutator's view.                      *)
(***************************************************************************)
EXTENDS GcHeap

(***************************************************************************)
(* The validators of heap.cpp.                                             *)
(***************************************************************************)
validate_heap_storage_layout(h) ==
  \A s \in Headers(h) :
    LET run == Run(s, storage_slot_count(h.objects[s]))
    IN  /\ validate_descriptor_shape(h.objects[s])
        /\ run \subseteq DOMAIN h.objects
        /\ \A t \in Headers(h) \ {s} : run \cap Run(t, storage_slot_count(h.objects[t])) = {}

validate_remembered_set(h) ==
  /\ \A id \in h.remembered_set : Resolves(h, id) /\ is_old_slot(h, checked_slot(h, id))
  /\ \A s \in Headers(h) :
       is_old_slot(h, s) /\ HasYoungReference(h, s) => IdAt(h, s) \in h.remembered_set

OfKind(h, kind) == {IdAt(h, s) : s \in {t \in Headers(h) : h.objects[t].kind = kind}}

\* Registry order is by slot in the code; a set of ids carries the same.
validate_weak_targets(h) ==
  /\ h.weak_refs = OfKind(h, "WeakRef")
  /\ \A id \in h.weak_refs : \A v \in SoftReferences(ObjectOf(h, id)) : Resolves(h, v)

validate_ephemerons(h) ==
  /\ h.ephemerons = OfKind(h, "Ephemeron")
  /\ \A id \in h.ephemerons : \A v \in SoftReferences(ObjectOf(h, id)) : Resolves(h, v)

validate_intern_table(h) ==
  /\ h.intern_table \subseteq OfKind(h, "Str")
  /\ \A a, b \in h.intern_table : ObjectOf(h, a).text = ObjectOf(h, b).text => a = b

validate_incremental_marking(h) ==
  \A s \in Headers(h) :
    h.objects[s].marked =>
      \A v \in visit_reference_fields(h.objects[s]) :
        ObjectOf(h, v).marked \/ v \in h.worklist

(***************************************************************************)
(* Properties.                                                             *)
(***************************************************************************)
IsObject(o) ==
  /\ o.kind \in Kinds /\ o.length \in Nat /\ o.data \in 0 .. MaxObjects - 1
  /\ o.age \in {"Young", "Old"} /\ o.marked \in BOOLEAN

\* Every variable has the type that heap.hpp declares.
TypeOK ==
  /\ DOMAIN objects = 0 .. Cardinality(DOMAIN objects) - 1
  /\ \A s \in DOMAIN objects : objects[s] = None \/ IsObject(objects[s])
  /\ DOMAIN generations = DOMAIN objects
  /\ \A s \in DOMAIN generations : generations[s] \in Nat
  /\ phase \in {"idle", "marking", "compacting"}
  /\ phase # "marking" => worklist = {}
  /\ phase # "compacting" => plan = <<>> /\ shadow = None
  /\ cursor \in 0 .. Len(plan)
  /\ allocated \in 0 .. MaxObjects

\* Descriptor runs never overlap and never leave the heap: allocation into
\* holes, growth in place and both kinds of compaction reuse the same slots.
StorageIsDisjoint == validate_heap_storage_layout(heap)

\* A minor collection looks for young objects only at the roots and behind
\* the remembered set, so every old object with a young child must be in it:
\* after stores, promotions one object at a time, and growth.
RememberedIsComplete == validate_remembered_set(heap)

\* While marking is under way no black object refers to a white one.
NoBlackToWhite == phase = "marking" => validate_incremental_marking(heap)

\* Registries name exactly the live weak references and ephemerons, and what
\* those hold can be dereferenced.
RegistriesAreExact == validate_weak_targets(heap) /\ validate_ephemerons(heap)

\* No two canonical strings have the same contents.
CanonicalIsUnique == validate_intern_table(heap)

\* The differential check of heap.cpp, taken at every point of the cycle and
\* not only at its end: whatever the mutator stored meanwhile, finishing now
\* gives what an atomic slide of the source snapshot gives.
CompactionMatchesAtomic ==
  phase = "compacting" =>
    LET done     == finish_incremental_compaction_impl(heap)
        expected == AtomicSlide(shadow)
    IN  /\ done.objects = expected.objects
        /\ done.generations = expected.generations
        /\ done.weak_refs = expected.weak_refs
        /\ done.intern_table = expected.intern_table
        /\ done.ephemerons = expected.ephemerons

(***************************************************************************)
(* The mutator's view: an object is its data, whatever id it has now.      *)
(***************************************************************************)
ASSUME NamesAssumption == Nil \notin Int

NameIn(h, v) == IF v = Nil THEN Nil ELSE IF Resolves(h, v) THEN ObjectOf(h, v).data ELSE -1

NodeIn(h, object) ==
  [kind   |-> object.kind,
   strong |-> [i \in DOMAIN object.strong |-> NameIn(h, object.strong[i])],
   soft   |-> [i \in DOMAIN object.soft |-> NameIn(h, object.soft[i])],
   text   |-> object.text]

NamesIn(h) == {h.objects[s].data : s \in Headers(h)}
SlotNamed(h, n) == CHOOSE s \in Headers(h) : h.objects[s].data = n

RootIn(h)     == [c \in Registered |-> NameIn(h, h.cells[c])]
GraphIn(h)    == [n \in NamesIn(h) |-> NodeIn(h, h.objects[SlotNamed(h, n)])]
InternedIn(h) == {ObjectOf(h, id).data : id \in h.intern_table}

Graph == INSTANCE ObjectGraph WITH
  Roots    <- Registered,
  root     <- RootIn(heap),
  graph    <- GraphIn(heap),
  interned <- InternedIn(heap),
  next     <- allocated

\* Collection, movement, promotion, barriers, growth and incremental cycles
\* are invisible to the mutator, except that garbage goes.
ImplementsObjectGraph == Graph!Spec

ReachableNames == Graph!Reachable(RootIn(heap), GraphIn(heap))

\* The state that a major collection leaves if it runs now, in the middle of
\* whatever cycle is active; an active marking cycle is finished by itself.
MajorCollectionNow ==
  IF phase = "marking" THEN finish_incremental_marking_impl(heap)
  ELSE collect_impl(heap, "Major")

\* A major collection keeps exactly what the roots reach, whatever an
\* interrupted incremental cycle had already shaded or moved, and leaves
\* neither a young object nor a mark for the next cycle to trip over.
MajorCollectionIsPrecise ==
  LET after == MajorCollectionNow
  IN  /\ NamesIn(after) = ReachableNames
      /\ \A s \in Headers(after) : after.objects[s].age = "Old" /\ ~after.objects[s].marked

=============================================================================
