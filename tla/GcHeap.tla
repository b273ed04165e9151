------------------------------- MODULE GcHeap -------------------------------
(***************************************************************************)
(* lang::gc::Heap as a state machine: one action per public method, called *)
(* by a mutator that keeps its references in `cells'.                      *)
(*                                                                         *)
(* Every method that can allocate, grow an object or collect does all of   *)
(* it in one call: it finishes an active compaction, honours the stress    *)
(* configuration, rewrites its own operands, and only then publishes.      *)
(***************************************************************************)
EXTENDS Collector, SequencesExt

CONSTANTS
  Chunks,  \* 8-byte pieces that string contents are made of
  Hosts    \* the programs that use the heap, see HostsAssumption

VARIABLE
  host     \* the program that this behaviour is of

Kinds == {"Pair", "ScalarArray", "RefArray", "Str", "Builder", "Closure", "Map",
          "WeakRef", "Ephemeron", "Record", "Variant"}

Objects ==
  [kind : Kinds, length : Nat, data : Nat, age : {"Young", "Old"}, marked : BOOLEAN,
   strong : Seq(Values), soft : Seq(Values), text : Seq(Chunks)]

ASSUME NoneAssumption == None \notin Objects

\* The lengths and the numbers of references that the constructors accept.
Constructible(shape) ==
  /\ shape.kind \in Kinds /\ shape.length \in Nat /\ shape.refs \in Nat
  /\ shape.kind = "Pair" => shape.length = 2 /\ shape.refs = 2
  /\ shape.kind = "RefArray" => shape.refs = shape.length
  /\ shape.kind \in {"Closure", "Record", "Variant"} => shape.refs <= shape.length
  /\ shape.kind \in {"ScalarArray", "Str", "Builder"} => shape.refs = 0
  /\ shape.kind = "Builder" => shape.length > 0
  /\ shape.kind = "Map" => shape.length = 0 /\ shape.refs = 0
  /\ shape.kind = "WeakRef" => shape.refs = 1
  /\ shape.kind = "Ephemeron" => shape.refs = 2

AllCalls == {"major", "minor", "marking", "compaction"}

\* collect_before_every_allocation, collect_after_every_allocation and
\* collect_minor_after_every_write_barrier.  set_stress_config may be called
\* between any two calls, so each call meets one of the host's.
StressFlags == {"before", "after", "barrier"}

\* A host allocates objects of given shapes in order, uses some of the
\* collector's entry points, names the owner of a store through some of its
\* cells, keeps raw ids or not, and bounds the entries of a map and the
\* chunks of a text.
ASSUME HostsAssumption ==
  \A g \in Hosts :
    /\ Len(g.shapes) \in Nat
    /\ \A i \in 1 .. Len(g.shapes) : \A s \in g.shapes[i] : Constructible(s)
    /\ g.calls \subseteq AllCalls
    /\ g.owners \subseteq Cells
    /\ g.raw \subseteq RawCells
    /\ g.length \in Nat
    /\ g.stress \subseteq SUBSET StressFlags

MaxObjects == Len(host.shapes)

(***************************************************************************)
(* Storage runs.                                                           *)
(***************************************************************************)
Run(base, width) == base .. base + width - 1

Occupied(h) == UNION {Run(s, storage_slot_count(h.objects[s])) : s \in Headers(h)}

is_storage_slot_free(h, slot) == slot \in DOMAIN h.objects /\ slot \notin Occupied(h)

FreeRuns(h, width) ==
  {s \in DOMAIN h.objects : \A t \in Run(s, width) : is_storage_slot_free(h, t)}

\* First fit; a run at the end of the heap is extended only when no run fits,
\* and then from the old size on.
find_free_storage_run(h, width) ==
  IF FreeRuns(h, width) = {} THEN Size(h) ELSE Min(FreeRuns(h, width))

Resized(h, size) ==
  [h EXCEPT
     !.objects = [s \in 0 .. size - 1 |-> IF s \in DOMAIN @ THEN @[s] ELSE None],
     !.generations = [s \in 0 .. size - 1 |-> IF s \in DOMAIN @ THEN @[s] ELSE 0]]

(***************************************************************************)
(* Allocation.  h.extra holds the references of the object under           *)
(* construction on the way in and the new id on the way out.               *)
(***************************************************************************)
References(object) == object.strong \o object.soft

WithReferences(object, values) ==
  [object EXCEPT !.strong = SubSeq(values, 1, Len(@)),
                 !.soft   = SubSeq(values, Len(object.strong) + 1, Len(values))]

\* Mutant: storage is taken while survivors are still to be moved.
CompactionLeftActive(h) == h

CompactionFinished(h) ==
  IF h.phase = "compacting" THEN finish_incremental_compaction_impl(h) ELSE h

\* h.extra has the object's references as the finished compaction left them.
PlaceObject(h, object, base, gen) ==
  LET id == make_object_id(base, gen)
      mine(kind) == IF object.kind = kind THEN {id} ELSE {}
  IN  [h EXCEPT
         !.generations[base] = gen,
         !.objects[base] = WithReferences(object, h.extra),
         !.weak_refs  = @ \cup mine("WeakRef"),
         !.ephemerons = @ \cup mine("Ephemeron"),
         !.worklist   = IF h.phase = "marking" THEN @ \cup {id} ELSE @,
         !.allocated  = @ + 1,
         !.extra      = <<id>>]

PlaceAt(h, object, base) ==
  PlaceObject(h, object, base, generation_for_new_base(h.generations[base]))

MakeRoom(h, object, width, base) ==
  PlaceAt(Resized(h, Max({Size(h), base + width})), object, base)

PlaceInFirstFit(h, object, width) ==
  MakeRoom(h, object, width, find_free_storage_run(h, width))

allocate_object(h, object) ==
  PlaceInFirstFit(CompactionFinished([h EXCEPT !.extra = References(object)]),
                  object, storage_slot_count(object))

\* allocate_pair, allocate_record, allocate_string_concat and the other
\* constructors: the operands are roots of the collection before, the new
\* object is the root of the collection after.
StressBeforeAllocation(h, operands) ==
  IF "before" \in h.stress THEN collect_with_extra_roots(h, operands, "Major")
  ELSE [h EXCEPT !.extra = operands]

StressAfterAllocation(h) ==
  IF "after" \in h.stress THEN collect_with_extra_roots(h, h.extra, "Major") ELSE h

AllocateIn(h, Build(_)) == StressAfterAllocation(allocate_object(h, Build(h)))

AllocateFrom(h, operands, Build(_)) ==
  AllocateIn(StressBeforeAllocation(h, operands), Build)

NewObject(h, shape, values, text) ==
  LET soft == shape.kind \in {"WeakRef", "Ephemeron"}
  IN  [kind |-> shape.kind, length |-> shape.length, data |-> h.allocated,
       age |-> "Young", marked |-> FALSE,
       strong |-> IF soft THEN <<>> ELSE values,
       soft   |-> IF soft THEN values ELSE <<>>,
       text   |-> text]

NewString(h, text) ==
  NewObject(h, [kind |-> "Str", length |-> kStorageSlotBytes * Len(text)], <<>>, text)

allocate_string_concat(h, left, right) ==
  AllocateFrom(h, <<left, right>>, LAMBDA b :
    NewString(b, ObjectOf(b, b.extra[1]).text \o ObjectOf(b, b.extra[2]).text))

allocate_string_substring(h, source, lo, hi) ==
  AllocateFrom(h, <<source>>, LAMBDA b :
    NewString(b, SubSeq(ObjectOf(b, b.extra[1]).text, lo + 1, hi)))

CopyOperandText(h) ==
  AllocateFrom(h, h.extra, LAMBDA b : NewString(b, ObjectOf(b, b.extra[1]).text))

builder_to_string(h, builder) ==
  CopyOperandText(CompactionFinished([h EXCEPT !.extra = <<builder>>]))

\* Mutant: a canonical string that is still young is not found.
OldCanonicalStrings(h, text) ==
  {id \in h.intern_table : ObjectOf(h, id).text = text /\ is_old_slot(h, checked_slot(h, id))}

\* The lookup is by content: a hash bucket, then the bytes.
CanonicalStrings(h, text) == {id \in h.intern_table : ObjectOf(h, id).text = text}

AddToInternTable(h) == [h EXCEPT !.intern_table = @ \cup {h.extra[1]}]

\* An existing canonical string is shaded, because its intern entry is weak.
ReturnCanonical(h, hit) ==
  [h EXCEPT !.extra = <<hit>>,
            !.worklist = IF h.phase = "marking" /\ ~ObjectOf(h, hit).marked
                         THEN @ \cup {hit} ELSE @]

InternOperand(h) ==
  LET hits == CanonicalStrings(h, ObjectOf(h, h.extra[1]).text)
  IN  IF hits # {}
      THEN ReturnCanonical(h, CHOOSE id \in hits : TRUE)
      ELSE AddToInternTable(CopyOperandText(h))

intern_string(h, source) ==
  InternOperand(CompactionFinished([h EXCEPT !.extra = <<source>>]))

(***************************************************************************)
(* Growth.  h.extra[1] is the owner, the rest are the other operands.      *)
(***************************************************************************)

\* Mutant: the source of the move is not cleared.
relocate_leaving_source(h, width) ==
  LET old  == checked_slot(h, h.extra[1])
      new  == Size(h)
      room == Resized(h, new + width)
      gen  == generation_for_new_base(room.generations[new])
      forwarding == [s \in Headers(h) |-> IF s = old THEN make_object_id(new, gen) ELSE IdAt(h, s)]
  IN  InstallMovement(h,
        [room.objects EXCEPT ![new] = h.objects[old]],
        [room.generations EXCEPT ![new] = gen],
        forwarding)

\* The object moves to the end of the heap; every other object is forwarded
\* to itself.  Marks and ages are kept, and the grey set follows.
relocate_for_growth(h, width) ==
  LET old  == checked_slot(h, h.extra[1])
      new  == Size(h)
      room == Resized(h, new + width)
      gen  == generation_for_new_base(room.generations[new])
      forwarding == [s \in Headers(h) |-> IF s = old THEN make_object_id(new, gen) ELSE IdAt(h, s)]
  IN  InstallMovement(h,
        [room.objects EXCEPT ![old] = None, ![new] = h.objects[old]],
        [room.generations EXCEPT ![new] = gen],
        forwarding)

\* Mutant: the last slot of the adjacent run is not looked at.
ensure_growth_storage_short(h, width) ==
  LET slot     == checked_slot(h, h.extra[1])
      current  == storage_slot_count(h.objects[slot])
      adjacent == (slot + current .. slot + width - 2) \cap DOMAIN h.objects
  IN  IF \A s \in adjacent : is_storage_slot_free(h, s)
      THEN Resized(h, Max({Size(h), slot + width}))
      ELSE relocate_for_growth(h, width)

\* ensure_map_growth_storage and ensure_builder_growth_storage.
ensure_growth_storage(h, width) ==
  LET slot     == checked_slot(h, h.extra[1])
      current  == storage_slot_count(h.objects[slot])
      adjacent == (slot + current .. slot + width - 1) \cap DOMAIN h.objects
  IN  IF \A s \in adjacent : is_storage_slot_free(h, s)
      THEN Resized(h, Max({Size(h), slot + width}))
      ELSE relocate_for_growth(h, width)

(***************************************************************************)
(* Stores.  While a compaction cycle is active every store is mirrored in  *)
(* the shadow, in the names of the source snapshot.                        *)
(***************************************************************************)
incremental_compaction_shadow_slot(h, owner) ==
  slot_from(normalize_incremental_compaction_shadow_value(h, owner))

\* Apply f to the owner's object and g to its shadow.
Mutated(h, owner, f(_), g(_)) ==
  LET slot == checked_slot(h, owner)
      done == [h EXCEPT !.objects[slot] = f(h.objects[slot])]
      twin == incremental_compaction_shadow_slot(h, owner)
  IN  IF h.phase = "compacting"
      THEN [done EXCEPT !.shadow.objects[twin] = g(h.shadow.objects[twin])]
      ELSE done

\* Both barriers run before the reference is published.
Barriers(h, owner, shaded, published) ==
  record_write_barrier_if_needed(
    incremental_write_barrier_before_publish(h, owner, shaded), owner, published)

MinorAfterBarrier(h, triggered, roots) ==
  IF triggered /\ "barrier" \in h.stress THEN collect_with_extra_roots(h, roots, "Minor") ELSE h

\* Mutant: the shadow gets the destination id.
store_field_raw(h, owner, i, value) ==
  LET v == canonicalize_incremental_compaction_read(h, value)
      f(o) == [o EXCEPT !.strong[i] = v]
      stored == Mutated(Barriers(h, owner, {v}, {v}), owner, f, f)
  IN  MinorAfterBarrier(stored, BarrierTriggered(h, owner, {v}), <<owner, v>>)

\* store_pair_field, store_ref_array_element and store_record_field.  Only
\* the last one roots its operands across the stress collection.
store_field(h, owner, i, value) ==
  LET v == canonicalize_incremental_compaction_read(h, value)
      n == normalize_incremental_compaction_shadow_value(h, v)
      stored == Mutated(Barriers(h, owner, {v}, {v}), owner,
                        LAMBDA o : [o EXCEPT !.strong[i] = v],
                        LAMBDA o : [o EXCEPT !.strong[i] = n])
      roots  == IF ObjectOf(h, owner).kind = "Record" THEN <<owner, v>> ELSE <<>>
  IN  MinorAfterBarrier(stored, BarrierTriggered(h, owner, {v}), roots)

\* Mutant: the shadow keeps the value from before the store.
store_ephemeron_value_unmirrored(h, owner, value) ==
  LET v == canonicalize_incremental_compaction_read(h, value)
      stored == Mutated(Barriers(h, owner, {v}, {v}), owner,
                        LAMBDA o : [o EXCEPT !.soft[2] = v], LAMBDA o : o)
  IN  MinorAfterBarrier(stored, BarrierTriggered(h, owner, {v}), <<owner, v>>)

store_ephemeron_value(h, owner, value) ==
  LET v == canonicalize_incremental_compaction_read(h, value)
      n == normalize_incremental_compaction_shadow_value(h, v)
      stored == Mutated(Barriers(h, owner, {v}, {v}), owner,
                        LAMBDA o : [o EXCEPT !.soft[2] = v],
                        LAMBDA o : [o EXCEPT !.soft[2] = n])
  IN  MinorAfterBarrier(stored, BarrierTriggered(h, owner, {v}), <<owner, v>>)

\* store_map_entry for a key that is present: the key operand is shaded too,
\* though the stored key is kept.
update_map_entry(h, owner, entry, key, value) ==
  LET k == canonicalize_incremental_compaction_read(h, key)
      v == canonicalize_incremental_compaction_read(h, value)
      n == normalize_incremental_compaction_shadow_value(h, v)
      stored == Mutated(Barriers(h, owner, {k, v}, {v}), owner,
                        LAMBDA o : [o EXCEPT !.strong[2 * entry] = v],
                        LAMBDA o : [o EXCEPT !.strong[2 * entry] = n])
  IN  MinorAfterBarrier(stored, BarrierTriggered(h, owner, {v}), <<owner, k, v>>)

\* store_map_entry for a new key, once its storage is ready.
PublishMapEntry(h, o, k, v) ==
  LET insert(m) == [m EXCEPT !.strong = @ \o <<k, v>>, !.length = @ + 1]
  IN  MinorAfterBarrier(
        Mutated(Barriers(h, o, {k, v}, {k, v}), o, insert, insert),
        BarrierTriggered(h, o, {k, v}), <<o, k, v>>)

GrowMap(h) ==
  ensure_growth_storage(h, storage_slot_count(ObjectOf(h, h.extra[1])) + 2)

PublishOperands(h) == PublishMapEntry(h, h.extra[1], h.extra[2], h.extra[3])

insert_map_entry(h, owner, key, value) ==
  PublishOperands(
    GrowMap(CompactionFinished([h EXCEPT !.extra = <<owner, key, value>>])))

\* The ladder that the capacity is on doubles until it is high enough; the
\* cap at 2^32 - 1 is not reached.
builder_capacity_for_required(capacity, required) ==
  LET doubled[c \in 1 .. 2 * required] == IF required > c THEN doubled[2 * c] ELSE c
  IN  doubled[capacity]

\* mutate_builder, append: the capacity ladder decides whether to grow.
builder_append(h, owner, source) ==
  LET bytes(t)  == kStorageSlotBytes * Len(t)
      text(g)   == ObjectOf(g, g.extra[1]).text \o ObjectOf(g, g.extra[2]).text
      start     == [h EXCEPT !.extra =
                     <<canonicalize_incremental_compaction_read(h, owner),
                       canonicalize_incremental_compaction_read(h, source)>>]
      required  == bytes(text(start))
      capacity  == ObjectOf(start, start.extra[1]).length
      ready     == CompactionFinished(start)
      larger    == builder_capacity_for_required(capacity, required)
      grown     == ensure_growth_storage(ready, 1 + Slots(larger))
      append(g, c) == LET f(o) == [o EXCEPT !.text = text(g), !.length = c]
                      IN  Mutated(g, g.extra[1], f, f)
  IN  IF required > capacity THEN append(grown, larger) ELSE append(start, capacity)

\* array_set and builder_clear replace scalar payload only.
store_scalars(h, owner, text) ==
  LET f(o) == [o EXCEPT !.text = text] IN Mutated(h, owner, f, f)

(***************************************************************************)
(* The mutator.  An operand that names no current object is refused by     *)
(* checked_slot before anything changes.                                   *)
(***************************************************************************)
\* The cells that a root visitor is shown: VM slots, and the slots of Handles
\* from register_handle_root to deregister_handle_root.
Registered == Cells \ RawCells

Usable(v) == is_object(v) => Resolves(heap, v)
Operands == {v \in {cells[c] : c \in Cells} \cup {Nil} : Usable(v)}
ObjectOperands == Operands \ {Nil}
StringOperands == {v \in ObjectOperands : ObjectOf(heap, v).kind = "Str"}

\* The objects of the given kinds that the mutator can name as a receiver.
Receivers(kinds) ==
  {v \in {cells[c] : c \in host.owners} : Resolves(heap, v) /\ ObjectOf(heap, v).kind \in kinds}

\* What the constructors refuse: a nil array element, weak target or key.
Admissible(shape, values) ==
  /\ shape.kind \in {"RefArray", "WeakRef"} => Nil \notin ToSet(values)
  /\ shape.kind = "RefArray" => Cardinality(ToSet(values)) <= 1
  /\ shape.kind = "Ephemeron" => values[1] # Nil

Stressed(config) == [heap EXCEPT !.stress = config]

\* The method ends and the mutator keeps the id it returns in cell c.
ReturnTo(c, h) == Become([h EXCEPT !.cells[c] = h.extra[1]])

Init ==
  /\ host \in Hosts
  /\ objects = <<>>
  /\ generations = <<>>
  /\ remembered_set = {}
  /\ weak_refs = {}
  /\ ephemerons = {}
  /\ intern_table = {}
  /\ cells = [c \in Cells |-> Nil]
  /\ phase = "idle"
  /\ worklist = {}
  /\ plan = <<>>
  /\ cursor = 0
  /\ shadow = None
  /\ allocated = 0

NextShapes == IF allocated < MaxObjects THEN host.shapes[allocated + 1] ELSE {}
MayAllocateString == \E shape \in NextShapes : shape.kind = "Str"

AllocateObject ==
  \E config \in host.stress, c \in Registered, shape \in NextShapes :
    \E values \in [1 .. shape.refs -> Operands],
       text \in [1 .. (IF shape.kind = "Str" THEN Slots(shape.length) ELSE 0) -> Chunks] :
      /\ Admissible(shape, values)
      /\ ReturnTo(c, AllocateFrom(Stressed(config), values,
                       LAMBDA b : NewObject(b, shape, b.extra, text)))

ConcatStrings ==
  \E config \in host.stress, c \in Registered, left, right \in StringOperands :
    /\ MayAllocateString
    /\ Len(ObjectOf(heap, left).text) + Len(ObjectOf(heap, right).text) <= host.length
    /\ ReturnTo(c, allocate_string_concat(Stressed(config), left, right))

TakeSubstring ==
  \E config \in host.stress, c \in Registered, source \in StringOperands :
    \E hi \in 0 .. Len(ObjectOf(heap, source).text) : \E lo \in 0 .. hi :
      /\ MayAllocateString
      /\ ReturnTo(c, allocate_string_substring(Stressed(config), source, lo, hi))

BuilderToString ==
  \E config \in host.stress, c \in Registered, builder \in Receivers({"Builder"}) :
    /\ MayAllocateString
    /\ ReturnTo(c, builder_to_string(Stressed(config), builder))

InternString ==
  \E config \in host.stress, c \in Registered, source \in StringOperands :
    /\ MayAllocateString \/ CanonicalStrings(heap, ObjectOf(heap, source).text) # {}
    /\ ReturnTo(c, intern_string(Stressed(config), source))

StoreField ==
  \E config \in host.stress, owner \in Receivers({"Pair", "Record", "RefArray"}), value \in Operands :
    \E i \in DOMAIN ObjectOf(heap, owner).strong :
      /\ ObjectOf(heap, owner).kind = "RefArray" => is_object(value)
      /\ Become(store_field(Stressed(config), owner, i, value))

StoreEphemeronValue ==
  \E config \in host.stress, owner \in Receivers({"Ephemeron"}), value \in Operands :
    /\ is_object(ObjectOf(heap, owner).soft[1])
    /\ Become(store_ephemeron_value(Stressed(config), owner, value))

\* A key is a string, compared by content, or a scalar.
KeyPresent(map, key) ==
  \E i \in 1 .. map.length : /\ is_object(map.strong[2 * i - 1])
                             /\ ObjectOf(heap, map.strong[2 * i - 1]).text = ObjectOf(heap, key).text

MapInsert ==
  \E config \in host.stress, owner \in Receivers({"Map"}), key \in StringOperands \cup {Nil}, value \in Operands :
    LET map == ObjectOf(heap, owner)
    IN  /\ map.length < host.length
        /\ is_object(key) => ~KeyPresent(map, key)
        /\ Become(insert_map_entry(Stressed(config), owner, key, value))

MapUpdate ==
  \E config \in host.stress, owner \in Receivers({"Map"}), value \in Operands :
    \E i \in 1 .. ObjectOf(heap, owner).length, key \in StringOperands \cup {Nil} :
      LET stored == ObjectOf(heap, owner).strong[2 * i - 1]
      IN  /\ is_object(key) = is_object(stored)
          /\ is_object(key) => ObjectOf(heap, stored).text = ObjectOf(heap, key).text
          /\ Become(update_map_entry(Stressed(config), owner, i, key, value))

BuilderAppend ==
  \E owner \in Receivers({"Builder"}), source \in StringOperands :
    /\ Len(ObjectOf(heap, owner).text) + Len(ObjectOf(heap, source).text) <= host.length
    /\ Become(builder_append(heap, owner, source))

StoreScalars ==
  \E owner \in Receivers({"Builder", "ScalarArray"}), chunk \in Chunks :
    Become(store_scalars(heap, owner,
             IF ObjectOf(heap, owner).kind = "Builder" THEN <<>> ELSE <<chunk>>))

\* Mutant: a read returns the reference as it is stored.
LoadUnforwarded ==
  \E c \in Registered, owner \in ObjectOperands :
    \E v \in visit_reference_fields(ObjectOf(heap, owner)) \cup SoftReferences(ObjectOf(heap, owner)) :
      Become([heap EXCEPT !.cells[c] = v])

\* left, right, ref_array_get, map_key_at, weak_get, ephemeron_value, ...
LoadReference ==
  \E c \in Registered, owner \in ObjectOperands :
    \E v \in visit_reference_fields(ObjectOf(heap, owner)) \cup SoftReferences(ObjectOf(heap, owner)) :
      Become([heap EXCEPT !.cells[c] = canonicalize_incremental_compaction_read(heap, v)])

\* The mutator copies or drops a reference it holds.  An id kept in a raw
\* cell is used as an operand, and never copied back into a root.
Assign ==
  \E c \in Registered \cup host.raw, v \in Operands :
    /\ v # cells[c]
    /\ c \in Registered => v \in {cells[d] : d \in Registered} \cup {Nil}
    /\ Become([heap EXCEPT !.cells[c] = v])

(***************************************************************************)
(* The collector's entry points.                                           *)
(***************************************************************************)
collect == "major" \in host.calls /\ Become(collect_impl(heap, "Major"))
collect_minor == "minor" \in host.calls /\ Become(collect_impl(heap, "Minor"))

start_incremental_marking ==
  /\ "marking" \in host.calls
  /\ phase = "idle"
  /\ Become([heap EXCEPT !.phase = "marking",
               !.worklist = {IdAt(heap, s) : s \in Enqueued(heap, RootValues(heap), "Major")}])

\* One object of the budget.  Entries found marked when popped are skipped,
\* so a marked id in the worklist is the same as no entry.
incremental_mark_step ==
  /\ phase = "marking"
  /\ \E id \in worklist :
       LET slot == checked_slot(heap, id)
           next == ScanObject(heap, slot)
           grey == worklist \cup {IdAt(next, s) :
                     s \in Enqueued(next, visit_reference_fields(next.objects[slot]), "Major")}
       IN  /\ ~objects[slot].marked
           /\ Become([next EXCEPT !.worklist = {g \in grey : ~ObjectOf(next, g).marked}])

finish_incremental_marking ==
  phase = "marking" /\ Become(finish_incremental_marking_impl(heap))

finish_marking_to_compaction ==
  /\ "compaction" \in host.calls
  /\ phase = "marking"
  /\ Become(finish_incremental_marking_to_incremental_compaction(heap))

start_incremental_compaction ==
  /\ "compaction" \in host.calls
  /\ phase = "idle"
  /\ Become(prepare_incremental_compaction(heap))

\* One object of the budget.
incremental_compact_step ==
  /\ phase = "compacting"
  /\ cursor < Len(plan)
  /\ Become(RelocateNext(heap))

finish_incremental_compaction ==
  phase = "compacting" /\ Become(finish_incremental_compaction_impl(heap))

Mutator ==
  \/ AllocateObject \/ ConcatStrings \/ TakeSubstring \/ BuilderToString \/ InternString
  \/ StoreField \/ StoreEphemeronValue \/ MapInsert \/ MapUpdate
  \/ BuilderAppend \/ StoreScalars \/ LoadReference \/ Assign

CollectorCalls ==
  \/ collect \/ collect_minor
  \/ start_incremental_marking \/ incremental_mark_step \/ finish_incremental_marking
  \/ finish_marking_to_compaction
  \/ start_incremental_compaction \/ incremental_compact_step \/ finish_incremental_compaction

Next == (Mutator \/ CollectorCalls) /\ UNCHANGED host

Spec == Init /\ [][Next]_<<vars, host>>

=============================================================================
