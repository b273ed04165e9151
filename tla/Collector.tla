----------------------------- MODULE Collector -----------------------------
(***************************************************************************)
(* The collections of lang::gc::Heap: the atomic major and minor           *)
(* collections, the incremental marking cycle and the incremental          *)
(* compaction cycle, as functions on the heap record.                      *)
(***************************************************************************)
EXTENDS HeapState

(***************************************************************************)
(* Marking.  The grey objects are a LIFO vector in the code; the order in  *)
(* which they are scanned decides nothing, so all of them are scanned at   *)
(* once.  `black' is the set of slots that this marking has marked.        *)
(***************************************************************************)

\* What enqueue_mark_value accepts: unmarked, and young in a minor collection.
Enqueued(h, values, kind) ==
  LET slots == {checked_slot(h, v) : v \in values \ {Nil}} \ {NoSlot}
  IN  {s \in slots : /\ ~h.objects[s].marked
                     /\ kind = "Minor" => is_young_slot(h, s)}

\* One object turns black.
ScanObject(h, slot) == [h EXCEPT !.objects[slot].marked = TRUE]

Scanned(h, black, kind) ==
  black \cup UNION {Enqueued(h, visit_reference_fields(h.objects[s]), kind) : s \in black}

\* The slots that are marked when the worklist is empty again.
drain_mark_worklist(h, grey, kind) ==
  LET drain[black \in SUBSET Headers(h)] ==
        IF Scanned(h, black, kind) = black THEN black ELSE drain[Scanned(h, black, kind)]
  IN  drain[grey]

\* In a minor collection every old object counts as live.
IsLive(h, black, slot, kind) ==
  slot \in black \/ h.objects[slot].marked \/ (kind = "Minor" /\ is_old_slot(h, slot))

\* The values of live ephemerons with a live key that are not live yet.
ActivatedValues(h, black, kind) ==
  {h.objects[o].soft[2] :
     o \in {s \in {checked_slot(h, id) : id \in h.ephemerons} :
              /\ IsLive(h, black, s, kind)
              /\ is_object(h.objects[s].soft[1])
              /\ IsLive(h, black, checked_slot(h, h.objects[s].soft[1]), kind)
              /\ is_object(h.objects[s].soft[2])
              /\ ~IsLive(h, black, checked_slot(h, h.objects[s].soft[2]), kind)}}

Activated(h, black, kind) ==
  drain_mark_worklist(h, black \cup Enqueued(h, ActivatedValues(h, black, kind), kind), kind)

\* Mutant: the list of ephemerons is passed over once.
single_ephemeron_pass(h, black, kind) == Activated(h, black, kind)

process_ephemeron_fixpoint(h, black, kind) ==
  LET pass[marked \in SUBSET Headers(h)] ==
        IF ActivatedValues(h, marked, kind) = {} THEN marked
        ELSE pass[Activated(h, marked, kind)]
  IN  pass[black]

\* Mutant: a minor collection starts from the roots alone.
NoRememberedReferences(h) == {}

RememberedReferences(h) ==
  UNION {visit_reference_fields(ObjectOf(h, id)) : id \in h.remembered_set}

MarkRoots(h, kind) ==
  RootValues(h) \cup (IF kind = "Minor" THEN RememberedReferences(h) ELSE {})

\* The heap with the marks of the black slots set.
Blackened(h, black) ==
  [h EXCEPT !.objects = [s \in DOMAIN @ |-> IF s \in black THEN [@[s] EXCEPT !.marked = TRUE]
                                             ELSE @[s]]]

Mark(h, kind) ==
  Blackened(h,
    process_ephemeron_fixpoint(h,
      drain_mark_worklist(h, Enqueued(h, MarkRoots(h, kind), kind), kind), kind))

(***************************************************************************)
(* Sliding compaction.                                                     *)
(***************************************************************************)

\* Mutant: every survivor counts for one slot.
DestinationsByHeader(objs, live) ==
  [s \in live |-> Cardinality({t \in live : t < s})]

\* Where the loop over all slots, with its cursor next_live_slot, puts each
\* live object.
Destinations(objs, live) ==
  LET next_live_slot[s \in 0 .. Cardinality(DOMAIN objs)] ==
        IF s = 0 THEN 0
        ELSE next_live_slot[s - 1] +
               (IF s - 1 \in live THEN storage_slot_count(objs[s - 1]) ELSE 0)
  IN  [s \in live |-> next_live_slot[s]]

MovedGenerations(gens, to) ==
  [t \in DOMAIN gens |->
     IF \E s \in DOMAIN to : to[s] = t /\ s # t THEN generation_for_new_base(gens[t])
     ELSE gens[t]]

\* A survivor is unmarked and, if it was young, promoted.
Survivor(object) == [object EXCEPT !.marked = FALSE, !.age = "Old"]

\* Mutant: the object table is cut to the last survivor, and the generation
\* table is not.
compact_and_shrink(h, live) ==
  LET to   == Destinations(h.objects, live)
      gens == MovedGenerations(h.generations, to)
  IN  [objects |->
         [t \in 0 .. Cardinality(live) - 1 |->
            IF \E s \in live : to[s] = t
            THEN Survivor(h.objects[CHOOSE s \in live : to[s] = t])
            ELSE None],
       generations |-> gens,
       forwarding  |-> [s \in live |-> make_object_id(to[s], gens[to[s]])]]

compact_live_objects(h, live) ==
  LET to   == Destinations(h.objects, live)
      gens == MovedGenerations(h.generations, to)
  IN  [objects |->
         [t \in DOMAIN h.objects |->
            IF \E s \in live : to[s] = t
            THEN Survivor(h.objects[CHOOSE s \in live : to[s] = t])
            ELSE None],
       generations |-> gens,
       forwarding  |-> [s \in live |-> make_object_id(to[s], gens[to[s]])]]

rewrite_value(h, forwarding, value) ==
  IF ~is_object(value) THEN value
  ELSE LET s == checked_slot(h, value)
       IN  IF s \in DOMAIN forwarding THEN forwarding[s] ELSE Lost

Forwarded(h, forwarding, value) ==
  is_object(value) /\ checked_slot(h, value) \in DOMAIN forwarding

\* Mutant: a dead weak target stays in place.
SoftKeptAfterMove(h, forwarding, object) ==
  [i \in DOMAIN object.soft |->
     IF Forwarded(h, forwarding, object.soft[i])
     THEN rewrite_value(h, forwarding, object.soft[i]) ELSE object.soft[i]]

\* A weak target survives only with a forwarding entry; an ephemeron loses
\* key and value together when its key has none.
SoftAfterMove(h, forwarding, object) ==
  CASE object.kind = "WeakRef" ->
         IF Forwarded(h, forwarding, object.soft[1])
         THEN <<rewrite_value(h, forwarding, object.soft[1])>> ELSE <<Nil>>
    [] object.kind = "Ephemeron" ->
         IF Forwarded(h, forwarding, object.soft[1])
         THEN <<rewrite_value(h, forwarding, object.soft[1]),
                rewrite_value(h, forwarding, object.soft[2])>>
         ELSE <<Nil, Nil>>
    [] OTHER -> object.soft

RewrittenObject(h, forwarding, object) ==
  [object EXCEPT
     !.strong = [i \in DOMAIN @ |-> rewrite_value(h, forwarding, @[i])],
     !.soft   = SoftAfterMove(h, forwarding, object)]

\* Mutant: entries of dead objects are kept.
KeptRegistry(h, forwarding, ids) == {rewrite_value(h, forwarding, id) : id \in ids}

\* Registry entries whose object has no forwarding entry are dropped.
RewrittenRegistry(h, forwarding, ids) ==
  {rewrite_value(h, forwarding, id) : id \in {i \in ids : Forwarded(h, forwarding, i)}}

\* Every root, field and registry of h follows the forwarding table into the
\* moved objects: rewrite_references, rewrite_remembered_set,
\* process_weak_targets, process_intern_table and process_ephemerons.
InstallMovement(h, moved_objects, moved_generations, forwarding) ==
  LET rooted == trace_collection_roots(h, LAMBDA v : rewrite_value(h, forwarding, v))
  IN  [rooted EXCEPT
         !.objects = [t \in DOMAIN moved_objects |->
                        IF moved_objects[t] = None THEN None
                        ELSE RewrittenObject(h, forwarding, moved_objects[t])],
         !.generations    = moved_generations,
         !.remembered_set = RewrittenRegistry(h, forwarding, h.remembered_set),
         !.weak_refs      = RewrittenRegistry(h, forwarding, h.weak_refs),
         !.intern_table   = RewrittenRegistry(h, forwarding, h.intern_table),
         !.ephemerons     = RewrittenRegistry(h, forwarding, h.ephemerons),
         !.worklist       = RewrittenRegistry(h, forwarding, h.worklist)]

\* From marked heap to compacted heap.
Evacuate(h, kind) ==
  LET live == {s \in Headers(h) : IsLive(h, {}, s, kind)}
      compacted == compact_live_objects(h, live)
  IN  prune_remembered_set(
        InstallMovement(h, compacted.objects, compacted.generations, compacted.forwarding))

(***************************************************************************)
(* The final pause of incremental marking derives liveness again from the  *)
(* current roots.                                                          *)
(***************************************************************************)
Unmarked(h) ==
  [h EXCEPT !.objects = [s \in DOMAIN @ |-> IF @[s] = None THEN None
                                             ELSE [@[s] EXCEPT !.marked = FALSE]]]

\* Mutant: the final pause starts from the marks of the cycle.
finish_from_old_marks(h) == Mark(h, "Major")

finish_incremental_marking_liveness(h) == Mark(Unmarked(h), "Major")

finish_incremental_marking_impl(h) ==
  [Evacuate([finish_incremental_marking_liveness(h) EXCEPT !.worklist = {}], "Major")
     EXCEPT !.phase = "idle"]

(***************************************************************************)
(* Incremental compaction.                                                 *)
(***************************************************************************)
\* The loop over all slots that appends an entry for each live one.
PlanEntries(h, live, to, gens) ==
  LET entry(s) == [source_id      |-> IdAt(h, s),
                   destination_id |-> make_object_id(to[s], gens[s])]
      entries[s \in 0 .. Size(h)] ==
        IF s = 0 THEN <<>>
        ELSE IF s - 1 \in live THEN Append(entries[s - 1], entry(s - 1))
        ELSE entries[s - 1]
  IN  entries[Size(h)]

\* Mutant: a survivor that stays where it is gets a new generation too.
CompactionPlanBumpingAll(h, live) ==
  LET to == Destinations(h.objects, live)
  IN  PlanEntries(h, live, to, [s \in live |-> generation_for_new_base(h.generations[to[s]])])

\* The whole plan, with the destination generations, is fixed before the
\* first object moves.
CompactionPlan(h, live) ==
  LET to   == Destinations(h.objects, live)
      gens == MovedGenerations(h.generations, to)
  IN  PlanEntries(h, live, to, [s \in live |-> gens[to[s]]])

MarkedIds(h, ids) == {id \in ids : ObjectOf(h, id).marked}

\* Mutant: nothing is cleared before the plan is made.
SoftNotCleared(h, object) == object.soft

\* Dead weak targets and ephemeron keys are cleared before anything moves.
ClearedSoft(h, object) ==
  LET dead(v) == is_object(v) /\ ~ObjectOf(h, v).marked
  IN  CASE object.kind = "WeakRef" /\ dead(object.soft[1])   -> <<Nil>>
        [] object.kind = "Ephemeron" /\ dead(object.soft[1]) -> <<Nil, Nil>>
        [] OTHER                                             -> object.soft

prepare_incremental_compaction_from_marked(h) ==
  LET live  == {s \in Headers(h) : h.objects[s].marked}
      swept == [h EXCEPT
        !.objects = [s \in DOMAIN @ |->
                       IF s \in live
                       THEN [@[s] EXCEPT !.marked = FALSE, !.soft = ClearedSoft(h, h.objects[s])]
                       ELSE None],
        !.weak_refs      = MarkedIds(h, @),
        !.intern_table   = MarkedIds(h, @),
        !.ephemerons     = MarkedIds(h, @),
        !.remembered_set = MarkedIds(h, @),
        !.plan = CompactionPlan(h, live), !.cursor = 0, !.phase = "compacting"]
  IN  [swept EXCEPT !.shadow =
         [objects |-> swept.objects, generations |-> swept.generations,
          weak_refs |-> swept.weak_refs, intern_table |-> swept.intern_table,
          ephemerons |-> swept.ephemerons]]

finish_incremental_marking_to_incremental_compaction(h) ==
  prepare_incremental_compaction_from_marked(
    [finish_incremental_marking_liveness(h) EXCEPT !.worklist = {}])

prepare_incremental_compaction(h) ==
  prepare_incremental_compaction_from_marked(Mark(h, "Major"))

\* Mutant: promotion records nothing.
promote_without_edges(h, slot) == h

\* A promoted object that still refers to a young one is remembered at once.
record_promoted_object_edges(h, slot) ==
  IF HasYoungReference(h, slot) THEN record_remembered_object(h, IdAt(h, slot)) ELSE h

\* One relocation: copy, clear the source, install the destination with its
\* generation, publish the forwarding address, rewrite every root, then the
\* registries that name this object, and record the edges of a promotion.
RelocateNext(h) ==
  LET entry == h.plan[h.cursor + 1]
      src   == slot_from(entry.source_id)
      dst   == slot_from(entry.destination_id)
      copy  == Survivor(h.objects[src])
      moved == [h EXCEPT
        !.objects = [s \in DOMAIN @ |-> IF s = dst THEN copy ELSE IF s = src THEN None ELSE @[s]],
        !.generations[dst] = generation_from(entry.destination_id),
        !.cursor = @ + 1]
      rooted == trace_collection_roots(moved,
                  LAMBDA v : canonicalize_incremental_compaction_read(moved, v))
      forward_owner(ids) == {IF id = entry.source_id THEN entry.destination_id ELSE id : id \in ids}
      registered == [rooted EXCEPT
        !.remembered_set = forward_owner(@), !.weak_refs    = forward_owner(@),
        !.intern_table   = forward_owner(@), !.ephemerons   = forward_owner(@)]
  IN  IF h.objects[src].age = "Young" THEN record_promoted_object_edges(registered, dst)
      ELSE registered

RelocateAll(h) ==
  LET after[i \in h.cursor .. Len(h.plan)] ==
        IF i = h.cursor THEN h ELSE RelocateNext(after[i - 1])
  IN  after[Len(h.plan)]

\* The final canonical rewriting of every root and every field.
CanonicalFields(h, object) ==
  [object EXCEPT
     !.strong = [i \in DOMAIN @ |-> canonicalize_incremental_compaction_read(h, @[i])],
     !.soft   = [i \in DOMAIN @ |-> canonicalize_incremental_compaction_read(h, @[i])]]

finalize_incremental_compaction(h) ==
  LET rooted == trace_collection_roots(h, LAMBDA v : canonicalize_incremental_compaction_read(h, v))
      final  == [rooted EXCEPT !.objects =
                   [s \in DOMAIN @ |-> IF @[s] = None THEN None ELSE CanonicalFields(h, @[s])]]
  IN  [prune_remembered_set(final) EXCEPT
         !.phase = "idle", !.plan = <<>>, !.cursor = 0, !.shadow = None]

finish_incremental_compaction_impl(h) == finalize_incremental_compaction(RelocateAll(h))

\* The independent recomputation that the finished cycle is compared with:
\* an atomic slide of the snapshot the cycle started from.
AtomicSlide(s) ==
  LET source == [heap EXCEPT !.objects = s.objects, !.generations = s.generations,
                             !.weak_refs = s.weak_refs, !.intern_table = s.intern_table,
                             !.ephemerons = s.ephemerons, !.plan = <<>>, !.cursor = 0,
                             !.remembered_set = {}, !.cells = [c \in Cells |-> Nil]]
      compacted == compact_live_objects(source, Headers(source))
  IN  InstallMovement(source, compacted.objects, compacted.generations, compacted.forwarding)

(***************************************************************************)
(* A collection finishes whatever cycle is active before it starts.        *)
(***************************************************************************)
FinishActiveCycle(h) ==
  LET still == IF h.phase = "compacting" THEN finish_incremental_compaction_impl(h) ELSE h
  IN  IF still.phase = "marking" THEN finish_incremental_marking_impl(still) ELSE still

collect_impl(h, kind) == Evacuate(Mark(FinishActiveCycle(h), kind), kind)

\* Mutant: the operands of the running method are not roots.
collect_without_operands(h, roots, kind) ==
  [collect_impl([h EXCEPT !.extra = <<>>], kind) EXCEPT !.extra = roots]

collect_with_extra_roots(h, roots, kind) == collect_impl([h EXCEPT !.extra = roots], kind)

=============================================================================
