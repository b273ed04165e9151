----------------------------- MODULE HeapStorage -----------------------------
(***************************************************************************)
(* Where the objects of lang::gc::Heap live, and what their ids mean.  An  *)
(* object is a tenant with a run of consecutive slots; its id is the base  *)
(* of the run and the generation that base had when the id was minted.     *)
(* Which objects are live is left open, and so is what is in them: this    *)
(* module is about slots and ids for any heap, any number of objects and   *)
(* any sequence of allocations, growths and compactions.                   *)
(*                                                                         *)
(* A compaction is the loop of compact_live_objects and of the incremental *)
(* plan, one survivor at a time in slot order.  Allocation and growth      *)
(* finish an active compaction first, so they are steps of the idle phase. *)
(***************************************************************************)
EXTENDS Integers

CONSTANTS
  Tenants,   \* the identities of objects
  Widths,    \* the storage widths that descriptors can have
  SlotLimit  \* 2^32: the slots that fit in the low half of an ObjectId

ASSUME WidthsAssumption == Widths \subseteq Nat \ {0}
ASSUME SlotLimitAssumption == SlotLimit \in Nat \ {0}

VARIABLES
  size,         \* objects_.size()
  bases,        \* the slots that hold a header
  tenant,       \* the object at each base
  width,        \* its storage_slot_count
  generations,  \* of every slot; 0 if it never was a base
  phase,        \* "idle" or "compacting"
  pending,      \* bases of the survivors that are still to be moved
  dest,         \* next_live_slot / destination_slot
  forwarding,   \* <<source slot, source generation, destination>> of the moved
  alive,        \* the objects that were allocated and not reclaimed
  issued        \* every id ever minted, <<slot, generation, object>>

vars == <<size, bases, tenant, width, generations, phase, pending, dest,
          forwarding, alive, issued>>

Init ==
  /\ size = 0
  /\ bases = {}
  /\ tenant = [s \in {} |-> s]
  /\ width = [s \in {} |-> s]
  /\ generations = [s \in {} |-> 0]
  /\ phase = "idle"
  /\ pending = {}
  /\ dest = 0
  /\ forwarding = {}
  /\ alive = {}
  /\ issued = {}

(***************************************************************************)
(* Runs and ids.                                                           *)
(***************************************************************************)
is_storage_slot_free(s) ==
  s < size /\ \A b \in bases : s < b \/ b + width[b] <= s

\* Mutant: only the first slot of a run is looked at.
FreeFirstSlot(s, w) == is_storage_slot_free(s)

FreeRun(s, w) == \A t \in s .. s + w - 1 : is_storage_slot_free(t)

\* static_cast<std::uint32_t>(slot)
Truncated(slot) == IF slot < SlotLimit THEN slot ELSE slot % SlotLimit

make_object_id(slot, generation, object) == <<Truncated(slot), generation, object>>

\* The size_t arithmetic of required_slots > UINT32_MAX - old_size + 1, which
\* wraps when the heap is already larger.
FitsTheLimit(w) == size + w <= SlotLimit \/ size > SlotLimit

\* Mutant: the source of a move keeps its header.
InstallCopy(b, o, w, old, new_size) ==
  /\ size' = new_size
  /\ bases' = bases \cup {b}
  /\ tenant' = [s \in bases \cup {b} |-> IF s = b THEN o ELSE tenant[s]]
  /\ width' = [s \in bases \cup {b} |-> IF s = b THEN w ELSE width[s]]

\* The tenant of run b becomes o, of w slots; generations grow with the heap.
Install(b, o, w, old, new_size) ==
  /\ size' = new_size
  /\ bases' = (bases \ old) \cup {b}
  /\ tenant' = [s \in (bases \ old) \cup {b} |-> IF s = b THEN o ELSE tenant[s]]
  /\ width' = [s \in (bases \ old) \cup {b} |-> IF s = b THEN w ELSE width[s]]

Generation(s) == IF s < size THEN generations[s] ELSE 0

\* Mutant: a base keeps the generation of its last tenant.
MintedAgain(b, new_size) ==
  [s \in 0 .. new_size - 1 |-> IF s = b /\ Generation(s) = 0 THEN 1 ELSE Generation(s)]

Minted(b, new_size) ==
  [s \in 0 .. new_size - 1 |-> IF s = b THEN Generation(s) + 1 ELSE Generation(s)]

(***************************************************************************)
(* allocate_object.                                                        *)
(***************************************************************************)
\* find_free_storage_run: the first run that fits.
AllocateInHole(o, w) ==
  \E b \in 0 .. size - 1 :
    /\ FreeRun(b, w)
    /\ \A c \in 0 .. b - 1 : ~FreeRun(c, w)
    /\ Install(b, o, w, {}, size)
    /\ generations' = Minted(b, size)
    /\ issued' = issued \cup {make_object_id(b, Generation(b) + 1, o)}

AllocateAtEnd(o, w) ==
  /\ \A b \in 0 .. size - 1 : ~FreeRun(b, w)
  /\ FitsTheLimit(w)
  /\ Install(size, o, w, {}, size + w)
  /\ generations' = Minted(size, size + w)
  /\ issued' = issued \cup {make_object_id(size, 1, o)}

allocate_object ==
  \E o \in Tenants \ alive, w \in Widths :
    /\ phase = "idle"
    /\ \A id \in issued : id[3] # o
    /\ AllocateInHole(o, w) \/ AllocateAtEnd(o, w)
    /\ alive' = alive \cup {o}
    /\ UNCHANGED <<phase, pending, dest, forwarding>>

(***************************************************************************)
(* ensure_map_growth_storage and ensure_builder_growth_storage.            *)
(***************************************************************************)
AdjacentRunIsFree(b, w) ==
  \A s \in b + width[b] .. b + w - 1 : s < size => is_storage_slot_free(s)

\* No limit is checked when the last run grows past the end of the heap.
grow_in_place ==
  \E b \in bases, w \in Widths :
    /\ phase = "idle"
    /\ w > width[b]
    /\ AdjacentRunIsFree(b, w)
    /\ LET new_size == IF b + w > size THEN b + w ELSE size
       IN  /\ Install(b, tenant[b], w, {}, new_size)
           /\ generations' = [s \in 0 .. new_size - 1 |-> Generation(s)]
    /\ UNCHANGED <<phase, pending, dest, forwarding, alive, issued>>

relocate_for_growth ==
  \E b \in bases, w \in Widths :
    /\ phase = "idle"
    /\ w > width[b]
    /\ ~AdjacentRunIsFree(b, w)
    /\ size + w <= SlotLimit
    /\ Install(size, tenant[b], w, {b}, size + w)
    /\ generations' = Minted(size, size + w)
    /\ issued' = issued \cup {make_object_id(size, 1, tenant[b])}
    /\ UNCHANGED <<phase, pending, dest, forwarding, alive>>

(***************************************************************************)
(* compact_live_objects, and prepare_incremental_compaction_from_marked    *)
(* followed by incremental_compact_step.                                   *)
(***************************************************************************)
\* Mutant: the forwarding table of the last cycle is kept.
end_compaction_keeping_forwarding ==
  /\ phase = "compacting"
  /\ pending = {}
  /\ phase' = "idle"
  /\ dest' = 0
  /\ UNCHANGED <<size, bases, tenant, width, generations, pending, forwarding, alive, issued>>

begin_compaction ==
  \E live \in SUBSET bases :
    /\ phase = "idle"
    /\ phase' = "compacting"
    /\ bases' = live
    /\ tenant' = [s \in live |-> tenant[s]]
    /\ width' = [s \in live |-> width[s]]
    /\ alive' = {tenant[s] : s \in live}
    /\ pending' = live
    /\ dest' = 0
    /\ UNCHANGED <<size, generations, forwarding, issued>>

move_survivor ==
  \E s \in pending :
    /\ phase = "compacting"
    /\ \A t \in pending : s <= t
    /\ Install(dest, tenant[s], width[s], {s}, size)
    /\ IF s = dest
       THEN /\ generations' = generations
            /\ issued' = issued
       ELSE /\ generations' = Minted(dest, size)
            /\ issued' = issued \cup {make_object_id(dest, Generation(dest) + 1, tenant[s])}
    /\ forwarding' = forwarding \cup {<<s, generations[s], dest>>}
    /\ pending' = pending \ {s}
    /\ dest' = dest + width[s]
    /\ UNCHANGED <<phase, alive>>

end_compaction ==
  /\ phase = "compacting"
  /\ pending = {}
  /\ phase' = "idle"
  /\ forwarding' = {}
  /\ dest' = 0
  /\ UNCHANGED <<size, bases, tenant, width, generations, pending, alive, issued>>

Next ==
  \/ allocate_object
  \/ grow_in_place
  \/ relocate_for_growth
  \/ begin_compaction
  \/ move_survivor
  \/ end_compaction

Spec == Init /\ [][Next]_vars

(***************************************************************************)
(* Properties.                                                             *)
(***************************************************************************)

\* Every variable has its type.
TypeOK ==
  /\ size \in Nat
  /\ bases \subseteq 0 .. size - 1
  /\ tenant \in [bases -> Tenants]
  /\ width \in [bases -> Nat \ {0}]
  /\ generations \in [0 .. size - 1 -> Nat]
  /\ phase \in {"idle", "compacting"}
  /\ pending \subseteq bases
  /\ dest \in Nat
  /\ forwarding \subseteq Nat \X Nat \X bases
  /\ alive \subseteq Tenants
  /\ issued \subseteq Nat \X Nat \X Tenants

\* Runs are disjoint and inside the heap, between any two steps of a
\* compaction as well (validate_heap_storage_layout).
RunsAreDisjoint ==
  /\ \A b \in bases : b + width[b] <= size
  /\ \A a, b \in bases : a < b => a + width[a] <= b

\* checked_slot: an id names the object at a base of its generation, or the
\* destination of the survivor whose exact source id it was.
NamesAt(id, b) ==
  \/ id[1] = b /\ generations[b] = id[2]
  \/ phase = "compacting" /\ <<id[1], id[2], b>> \in forwarding

\* ARCHITECTURE.md: a swept or moved id cannot alias a later tenant.  An id
\* that resolves at all, at any time after it was minted, resolves to the
\* object it was minted for.
IdsNeverAlias ==
  \A id \in issued : \A b \in bases : NamesAt(id, b) => tenant[b] = id[3]

\* Every object that was allocated and not reclaimed is in exactly one run:
\* growth and compaction neither lose nor duplicate one.
NothingLostOrDuplicated ==
  /\ \A o \in alive : \E b \in bases : tenant[b] = o
  /\ \A b \in bases : tenant[b] \in alive
  /\ \A a, b \in bases : tenant[a] = tenant[b] => a = b

\* The heap has no more slots than an id can name.
WithinLimit == size <= SlotLimit

=============================================================================
