----------------------------- MODULE GcObjects -----------------------------
(***************************************************************************)
(* Values, object ids and object descriptors of lang::gc::Heap: the pure   *)
(* vocabulary that every heap operation is written in.                     *)
(*                                                                         *)
(* An ObjectId is the pair <<slot, generation>> that make_object_id packs  *)
(* into 64 bits.  A Value that is not a reference (i64, bool, nil) is      *)
(* abstracted to Nil, because no heap operation below looks at a scalar.   *)
(* The scalar payload of an object is abstracted to its `data', a number   *)
(* that no two allocations share: a copy that lost or mixed up a payload   *)
(* would carry the wrong data.                                             *)
(***************************************************************************)
EXTENDS Integers, Sequences, FiniteSets

CONSTANTS
  Nil,     \* every Value that is not a reference
  None     \* an empty std::optional<Object>

(***************************************************************************)
(* Object ids.                                                             *)
(***************************************************************************)
make_object_id(slot, generation) == <<slot, generation>>
slot_from(id) == id[1]
generation_from(id) == id[2]

\* A slot that never was a base has generation 0 and starts at 1, so one
\* expression covers both branches.  Exhaustion at 2^31 - 1 is not reached.
generation_for_new_base(generation) == generation + 1

Ids == Int \X Nat
Values == Ids \cup {Nil}

ASSUME NilAssumption == Nil \notin Ids

is_object(value) == value # Nil

\* What a reference becomes when the forwarding table has no entry for it:
\* rewrite_value throws there.  It is an id that nothing resolves.
Lost == <<-1, 0>>

(***************************************************************************)
(* Objects.  `strong' lists the reference slots that the descriptor        *)
(* exposes, `soft' the collector-owned ones: <<target>> of a WeakRef and   *)
(* <<key, value>> of an Ephemeron.  `length' is the header's length; for a *)
(* Builder it is the capacity in bytes, which is what fixes its width.     *)
(* `text' is the byte content of a Str.                                    *)
(***************************************************************************)
kStorageSlotBytes == 8

Slots(bytes) == (bytes + kStorageSlotBytes - 1) \div kStorageSlotBytes

storage_slot_count(object) ==
  CASE object.kind \in {"Pair", "WeakRef", "Ephemeron"}       -> 1
    [] object.kind \in {"ScalarArray", "RefArray"}            ->
         IF object.length = 0 THEN 1 ELSE object.length
    [] object.kind \in {"Str", "Builder"}                     -> 1 + Slots(object.length)
    [] object.kind \in {"Closure", "Record"}                  -> 1 + object.length
    [] object.kind = "Map"                                    -> 1 + 2 * object.length
    [] object.kind = "Variant"                                -> 2 + object.length

\* The strong edges, for marking, forwarding, barriers and validation alike.
visit_reference_fields(object) ==
  {object.strong[i] : i \in {j \in DOMAIN object.strong : is_object(object.strong[j])}}

SoftReferences(object) ==
  {object.soft[i] : i \in {j \in DOMAIN object.soft : is_object(object.soft[j])}}

\* Records and variants: the selected reference map marks some of the fields.
ReferenceMapShape(object) ==
  object.kind \in {"Record", "Variant"} => Len(object.strong) <= object.length

\* A cleared ephemeron retains no value; a builder's bytes fit its capacity.
EphemeronAndBuilderShape(object) ==
  /\ object.kind = "Ephemeron" =>
       /\ Len(object.soft) = 2
       /\ object.soft[1] = Nil => object.soft[2] = Nil
  /\ object.kind = "Builder" => kStorageSlotBytes * Len(object.text) <= object.length

\* A descriptor whose payload does not match its kind is refused everywhere
\* a descriptor is visited.
validate_descriptor_shape(object) ==
  /\ object.kind = "Pair" => object.length = 2 /\ Len(object.strong) = 2
  /\ object.kind = "RefArray" => Len(object.strong) = object.length
  /\ object.kind = "Closure" => Len(object.strong) <= object.length
  /\ object.kind = "Map" => Len(object.strong) = 2 * object.length
  /\ object.kind \in {"ScalarArray", "Str", "Builder", "WeakRef", "Ephemeron"} =>
       object.strong = <<>>
  /\ object.kind = "WeakRef" => Len(object.soft) = 1
  /\ object.kind \notin {"WeakRef", "Ephemeron"} => object.soft = <<>>
  /\ ReferenceMapShape(object)
  /\ EphemeronAndBuilderShape(object)

=============================================================================
