----------------------------- MODULE HeapState -----------------------------
(***************************************************************************)
(* The private state of lang::gc::Heap and the lookups on it.  A public    *)
(* method of Heap runs several internal operations in sequence (finish the *)
(* active cycle, collect, allocate, collect again), so operations are      *)
(* functions on a record `h' of the whole state, and an action installs    *)
(* the record its method ends with.                                        *)
(*                                                                         *)
(* cells are the mutable slots that hold Values outside the heap: operand  *)
(* stacks, locals and Handle slots, all visited by trace_collection_roots. *)
(* RawCells are ids that a host keeps in a variable of its own, which no   *)
(* visitor sees.  h.extra are the extra_roots of the running method and    *)
(* h.stress its stress configuration.                                      *)
(***************************************************************************)
EXTENDS GcObjects

CONSTANTS
  Cells,      \* slots outside the heap that may hold a reference
  RawCells    \* the cells among them that are not registered as roots

ASSUME CellsAssumption == RawCells \subseteq Cells

VARIABLES
  objects,         \* slot -> Object or None; the domain is 0 .. size-1
  generations,     \* slot -> generation of the last base installed there
  remembered_set,  \* ids of old objects that may refer to young ones
  weak_refs,       \* ids of the WeakRef objects
  ephemerons,      \* ids of the Ephemeron objects
  intern_table,    \* ids of the canonical strings
  cells,           \* Cells -> Value
  phase,           \* "idle", "marking" or "compacting"
  worklist,        \* the grey ids of an incremental marking cycle
  plan,            \* the relocations of an incremental compaction cycle
  cursor,          \* how many of them are done
  shadow,          \* the source snapshot the cycle is checked against
  allocated        \* number of allocations so far; names the next object

vars == <<objects, generations, remembered_set, weak_refs, ephemerons, intern_table,
          cells, phase, worklist, plan, cursor, shadow, allocated>>

heap ==
  [objects |-> objects, generations |-> generations, remembered_set |-> remembered_set,
   weak_refs |-> weak_refs, ephemerons |-> ephemerons, intern_table |-> intern_table,
   cells |-> cells, extra |-> <<>>, stress |-> {}, phase |-> phase, worklist |-> worklist,
   plan |-> plan, cursor |-> cursor, shadow |-> shadow, allocated |-> allocated]

Become(h) ==
  /\ objects' = h.objects
  /\ generations' = h.generations
  /\ remembered_set' = h.remembered_set
  /\ weak_refs' = h.weak_refs
  /\ ephemerons' = h.ephemerons
  /\ intern_table' = h.intern_table
  /\ cells' = h.cells
  /\ phase' = h.phase
  /\ worklist' = h.worklist
  /\ plan' = h.plan
  /\ cursor' = h.cursor
  /\ shadow' = h.shadow
  /\ allocated' = h.allocated

(***************************************************************************)
(* Lookups.                                                                *)
(***************************************************************************)
Size(h) == Cardinality(DOMAIN h.objects)
Headers(h) == {s \in DOMAIN h.objects : h.objects[s] # None}
IdAt(h, slot) == make_object_id(slot, h.generations[slot])

is_old_slot(h, slot) == h.objects[slot].age = "Old"
is_young_slot(h, slot) == h.objects[slot].age = "Young"

\* The relocations already performed in the active compaction cycle: the
\* entries with an installed forwarding address.
Moved(h) == {h.plan[i] : i \in 1 .. h.cursor}

Physical(h, id) ==
  /\ slot_from(id) \in DOMAIN h.objects
  /\ generation_from(id) # 0
  /\ h.generations[slot_from(id)] = generation_from(id)
  /\ h.objects[slot_from(id)] # None

NoSlot == -1

\* An id resolves when it is physically current, or when it is the exact
\* saved source id of a survivor that has moved in the active cycle.
checked_slot(h, id) ==
  IF Physical(h, id) THEN slot_from(id)
  ELSE IF \E e \in Moved(h) : e.source_id = id /\ Physical(h, e.destination_id)
       THEN slot_from((CHOOSE e \in Moved(h) : e.source_id = id).destination_id)
       ELSE NoSlot

Resolves(h, value) == is_object(value) /\ checked_slot(h, value) # NoSlot
ObjectOf(h, id) == h.objects[checked_slot(h, id)]

\* The id a reference is rewritten to while compaction is under way: the
\* forwarding address when it names a moved survivor, itself otherwise.
canonicalize_incremental_compaction_read(h, value) ==
  IF is_object(value) /\ \E e \in Moved(h) : e.source_id = value
  THEN (CHOOSE e \in Moved(h) : e.source_id = value).destination_id
  ELSE value

\* The inverse, into the names of the source snapshot.
normalize_incremental_compaction_shadow_value(h, value) ==
  LET entries == {h.plan[i] : i \in DOMAIN h.plan}
  IN  IF is_object(value) /\ (\A e \in entries : e.source_id # value)
                          /\ (\E e \in entries : e.destination_id = value)
      THEN (CHOOSE e \in entries : e.destination_id = value).source_id
      ELSE value

\* Every value a root visitor is shown, rewritten by f.
trace_collection_roots(h, f(_)) ==
  [h EXCEPT !.cells = [c \in Cells |-> IF c \in RawCells THEN h.cells[c]
                                       ELSE f(h.cells[c])],
            !.extra = [i \in DOMAIN h.extra |-> f(h.extra[i])]]

RootValues(h) ==
  {h.cells[c] : c \in Cells \ RawCells} \cup {h.extra[i] : i \in DOMAIN h.extra}

RootSlots(h) == {checked_slot(h, v) : v \in RootValues(h) \ {Nil}}

(***************************************************************************)
(* The remembered set.                                                     *)
(***************************************************************************)
HasYoungReference(h, slot) ==
  \E v \in visit_reference_fields(h.objects[slot]) :
    Resolves(h, v) /\ is_young_slot(h, checked_slot(h, v))

\* Rebuilt from the whole heap, so the edges that record_promoted_object_edges
\* adds before it in a collection are found again here.
prune_remembered_set(h) ==
  [h EXCEPT !.remembered_set =
     {IdAt(h, s) : s \in {t \in Headers(h) : is_old_slot(h, t) /\ HasYoungReference(h, t)}}]

record_remembered_object(h, id) ==
  [h EXCEPT !.remembered_set = @ \cup {id}]

\* Mutant: the generational barrier is skipped while marking is active.
BarrierOnlyWhenIdle(h, owner, values) ==
  /\ h.phase # "marking"
  /\ is_old_slot(h, checked_slot(h, owner))
  /\ \E v \in values \ {Nil} : is_young_slot(h, checked_slot(h, v))

BarrierTriggered(h, owner, values) ==
  /\ is_old_slot(h, checked_slot(h, owner))
  /\ \E v \in values \ {Nil} : is_young_slot(h, checked_slot(h, v))

\* Mutant: no write barrier.
record_nothing(h, owner, values) == h

\* The owner is recorded under the id the caller passed.
record_write_barrier_if_needed(h, owner, values) ==
  IF BarrierTriggered(h, owner, values) THEN record_remembered_object(h, owner) ELSE h

\* Mutant: nothing is shaded.
no_incremental_write_barrier(h, owner, values) == h

\* One call for each value that the store publishes or looks up.
incremental_write_barrier_before_publish(h, owner, values) ==
  IF h.phase = "marking" /\ ObjectOf(h, owner).marked
  THEN [h EXCEPT !.worklist = @ \cup {v \in values \ {Nil} : ~ObjectOf(h, v).marked}]
  ELSE h

=============================================================================
