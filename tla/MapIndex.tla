------------------------------ MODULE MapIndex ------------------------------
(***************************************************************************)
(* The lookup index of a map object (lang::gc::Heap): entries in insertion *)
(* order, and an open-addressing table that holds their positions.  String *)
(* keys are hashed and compared by content while the entries hold their    *)
(* ids, which every collection may change.                                 *)
(*                                                                         *)
(* store_map_entry is taken apart at its loops: finding the key, growing   *)
(* the map's storage (where a collection can run), computing the desired   *)
(* capacity, re-inserting the old entries in a larger table, publishing.   *)
(* Lookups are whole calls and never see the inside of a store.            *)
(***************************************************************************)
EXTENDS Integers, Sequences

CONSTANTS
  Contents,    \* what a key can be: the scalars, or the contents of strings
  Refs,        \* the ids a string object can have
  Values,
  HashOf,      \* map_key_hash of each content
  MinCapacity, \* kMapIndexMinimumCapacity
  MaxEntries   \* Cap: a map has no more entries (the code: 2^32 - 1)

ASSUME HashAssumption == HashOf \in [Contents -> Nat]
ASSUME MinCapacityAssumption == MinCapacity \in Nat /\ MinCapacity >= 2
ASSUME MaxEntriesAssumption == MaxEntries \in Nat

VARIABLES
  map_key_is_ref, \* of the map's descriptor
  content,        \* the live strings: id -> content
  map_entries,    \* sequence of [key, value]; entry e of the code is e + 1
  map_lookup_index,
  store,          \* the store_map_entry call in progress
  answer          \* what the last call returned

vars == <<map_key_is_ref, content, map_entries, map_lookup_index, store,
          answer>>

(***************************************************************************)
(* A table is its size and its buckets; a bucket holds 0 or the position   *)
(* of an entry, counted from one.                                          *)
(***************************************************************************)
EmptyTable(capacity) ==
  [size |-> capacity, bucket |-> [b \in 0..(capacity - 1) |-> 0]]

Idle == [at |-> "idle"]

Keys == IF map_key_is_ref THEN DOMAIN content ELSE Contents
ContentOf(key) == IF map_key_is_ref THEN content[key] ELSE key

map_key_hash(key) == HashOf[ContentOf(key)]

map_keys_equal(stored, query) == ContentOf(stored) = ContentOf(query)

\* The bucket that is examined after i others, starting from the hash's own
\* one (capacities are powers of two, so the code's mask is a remainder).
Probe(hash, i, size) ==
  LET home == hash % size
  IN  IF home + i < size THEN home + i ELSE home + i - size

First(S) == CHOOSE i \in S : \A j \in S : i <= j

\* Mutant: an occupied home bucket is overwritten.
OverwriteHomeBucket(table, hash) == Probe(hash, 0, table.size)

find_open_map_bucket(table, hash) ==
  Probe(hash,
        First({i \in 0..(table.size - 1) :
                 table.bucket[Probe(hash, i, table.size)] = 0}),
        table.size)

Insert(table, hash, position) ==
  [table EXCEPT !.bucket[find_open_map_bucket(table, hash)] = position]

EntryHashes == [e \in 1..Len(map_entries) |-> map_key_hash(map_entries[e].key)]

(***************************************************************************)
(* find_map_entry: the position of the key, 0 for no entry, -1 when it     *)
(* throws: a bucket is out of range, or no empty bucket ends the probe.    *)
(***************************************************************************)
Encoded(key, i) ==
  map_lookup_index.bucket[Probe(map_key_hash(key), i, map_lookup_index.size)]

\* Mutant: an equal hash is taken for an equal key.
StopsAtEqualHash(key) ==
  {i \in 0..(map_lookup_index.size - 1) :
     \/ Encoded(key, i) \notin 1..Len(map_entries)
     \/ EntryHashes[Encoded(key, i)] = map_key_hash(key)}

Stops(key) ==
  {i \in 0..(map_lookup_index.size - 1) :
     \/ Encoded(key, i) = 0
     \/ Encoded(key, i) > Len(map_entries)
     \/ map_keys_equal(map_entries[Encoded(key, i)].key, key)}

find_map_entry(key) ==
  IF map_lookup_index.size = 0 THEN 0
  ELSE IF Stops(key) = {} \/ Encoded(key, First(Stops(key))) > Len(map_entries)
       THEN -1 ELSE Encoded(key, First(Stops(key)))

Init ==
  /\ map_key_is_ref \in BOOLEAN
  /\ content = [r \in {} |-> r]
  /\ map_entries = << >>
  /\ map_lookup_index = EmptyTable(0)
  /\ store = Idle
  /\ answer = <<"none">>

(***************************************************************************)
(* The mutator and the collector.                                          *)
(***************************************************************************)
NewString(r, c) ==
  /\ store.at = "idle" /\ map_key_is_ref
  /\ r \notin DOMAIN content
  /\ content' = [q \in DOMAIN content \cup {r} |->
                   IF q = r THEN c ELSE content[q]]
  /\ UNCHANGED <<map_key_is_ref, map_entries, map_lookup_index, store, answer>>

EntryKeys == {map_entries[e].key : e \in 1..Len(map_entries)}

\* The ids a collection finds as roots or in the map.
Needed == EntryKeys \cup IF store.at = "growing" THEN {store.key} ELSE {}

\* Mutant: relocation does not rewrite the key of a store that waits for
\* storage, only the keys of the map.
RelocateEntriesOnly(moves) ==
  /\ store.at \in {"idle", "growing"} /\ map_key_is_ref
  /\ content' = [r \in {moves[q] : q \in DOMAIN moves} |->
                   content[CHOOSE q \in DOMAIN moves : moves[q] = r]]
  /\ map_entries' = [e \in 1..Len(map_entries) |->
                       [key |-> moves[map_entries[e].key],
                        value |-> map_entries[e].value]]
  /\ UNCHANGED <<map_key_is_ref, map_lookup_index, store, answer>>

\* A collection keeps some strings, the needed ones among them, and gives
\* each a new id.  It runs between calls, or in ensure_map_growth_storage
\* and finish_incremental_compaction_impl while a store holds owner, key
\* and value as roots.  Entries keep their places, the index is not touched.
Relocate(moves) ==
  /\ store.at \in {"idle", "growing"} /\ map_key_is_ref
  /\ content' = [r \in {moves[q] : q \in DOMAIN moves} |->
                   content[CHOOSE q \in DOMAIN moves : moves[q] = r]]
  /\ map_entries' = [e \in 1..Len(map_entries) |->
                       [key |-> moves[map_entries[e].key],
                        value |-> map_entries[e].value]]
  /\ store' = IF store.at = "growing"
              THEN [at |-> "growing", key |-> moves[store.key],
                    value |-> store.value]
              ELSE store
  /\ UNCHANGED <<map_key_is_ref, map_lookup_index, answer>>

(***************************************************************************)
(* store_map_entry.                                                        *)
(***************************************************************************)
store_map_entry(key, value) ==
  /\ store.at = "idle"
  /\ \/ /\ find_map_entry(key) = 0
        /\ Len(map_entries) < MaxEntries
        /\ store' = [at |-> "growing", key |-> key, value |-> value]
        /\ UNCHANGED <<map_entries, answer>>
     \/ /\ find_map_entry(key) \in 1..Len(map_entries)
        /\ map_entries' = [map_entries EXCEPT
                             ![find_map_entry(key)].value = value]
        /\ answer' = <<"none">>
        /\ UNCHANGED store
  /\ UNCHANGED <<map_key_is_ref, content, map_lookup_index>>

\* ensure_map_growth_storage has returned: map_lookup_index_capacity starts.
BeginSizing ==
  /\ store.at = "growing"
  /\ store' = [at |-> "sizing", key |-> store.key, value |-> store.value,
               capacity |-> MinCapacity]
  /\ UNCHANGED <<map_key_is_ref, content, map_entries, map_lookup_index,
                 answer>>

\* Whether a table of this capacity is at most half full with the new entry.
FitsIn(capacity) == Len(map_entries) + 1 <= capacity \div 2

\* Mutant: the doubled capacity wraps around (here at 8) instead of failing.
DoubleCapacityWrapping ==
  /\ store.at = "sizing" /\ ~FitsIn(store.capacity)
  /\ store' = [store EXCEPT !.capacity = (2 * @) % 8]
  /\ UNCHANGED <<map_key_is_ref, content, map_entries, map_lookup_index,
                 answer>>

DoubleCapacity ==
  /\ store.at = "sizing" /\ ~FitsIn(store.capacity)
  /\ store' = [store EXCEPT !.capacity = 2 * @]
  /\ UNCHANGED <<map_key_is_ref, content, map_entries, map_lookup_index,
                 answer>>

\* The entry and its bucket are published together.
Publish(table) ==
  /\ map_lookup_index' = Insert(table, map_key_hash(store.key),
                                Len(map_entries) + 1)
  /\ map_entries' = Append(map_entries,
                           [key |-> store.key, value |-> store.value])
  /\ store' = Idle
  /\ answer' = <<"none">>
  /\ UNCHANGED <<map_key_is_ref, content>>

InsertInPlace ==
  /\ store.at = "sizing" /\ FitsIn(store.capacity)
  /\ map_lookup_index.size = store.capacity
  /\ Publish(map_lookup_index)

BeginRebuild ==
  /\ store.at = "sizing" /\ FitsIn(store.capacity)
  /\ map_lookup_index.size # store.capacity
  /\ store' = [at |-> "rebuilding", key |-> store.key, value |-> store.value,
               table |-> EmptyTable(store.capacity), done |-> 0]
  /\ UNCHANGED <<map_key_is_ref, content, map_entries, map_lookup_index,
                 answer>>

\* One iteration of build_map_lookup_index.
Reinsert ==
  /\ store.at = "rebuilding" /\ store.done < Len(map_entries)
  /\ store' = [at |-> "rebuilding", key |-> store.key, value |-> store.value,
               table |-> Insert(store.table, EntryHashes[store.done + 1],
                                store.done + 1),
               done |-> store.done + 1]
  /\ UNCHANGED <<map_key_is_ref, content, map_entries, map_lookup_index,
                 answer>>

\* Mutant: the larger table is published before the old entries are in it.
PublishEarly ==
  /\ store.at = "rebuilding"
  /\ Publish(store.table)

InsertRebuilt ==
  /\ store.at = "rebuilding" /\ store.done = Len(map_entries)
  /\ Publish(store.table)

(***************************************************************************)
(* The reads.                                                              *)
(***************************************************************************)
Read(result) ==
  /\ store.at = "idle"
  /\ answer' = result
  /\ UNCHANGED <<map_key_is_ref, content, map_entries, map_lookup_index, store>>

map_has(key) ==
  Read(<<IF find_map_entry(key) = 0 THEN "absent" ELSE "present">>)

map_get(key) ==
  Read(IF find_map_entry(key) \in 1..Len(map_entries)
       THEN <<"value", map_entries[find_map_entry(key)].value>>
       ELSE <<"not found">>)

\* map_key_at and map_value_at; the code's index is one less.
EntryAt(position) ==
  Read(IF position <= Len(map_entries)
       THEN <<"entry", ContentOf(map_entries[position].key),
              map_entries[position].value>>
       ELSE <<"out of range">>)

StoreStep ==
  BeginSizing \/ DoubleCapacity \/ InsertInPlace \/ BeginRebuild \/ Reinsert
    \/ InsertRebuilt

Injections(S, T) == {f \in [S -> T] : \A x, y \in S : f[x] = f[y] => x = y}

Next ==
  \/ \E r \in Refs, c \in Contents : NewString(r, c)
  \/ \E kept \in SUBSET DOMAIN content :
       Needed \subseteq kept /\ \E moves \in Injections(kept, Refs) :
         Relocate(moves)
  \/ \E key \in Keys, value \in Values : store_map_entry(key, value)
  \/ StoreStep
  \/ \E key \in Keys : map_has(key) \/ map_get(key)
  \/ \E position \in 1..(MaxEntries + 1) : EntryAt(position)

\* A store is a function call: nothing stops it between its loops.
Spec == Init /\ [][Next]_vars /\ WF_vars(StoreStep)

(***************************************************************************)
(* Properties.                                                             *)
(***************************************************************************)
IsTable(t, n) ==
  /\ t = [size |-> t.size, bucket |-> t.bucket]
  /\ t.size \in Nat
  /\ t.bucket \in [0..(t.size - 1) -> 0..n]

StoreTypeOK ==
  \/ store = Idle
  \/ /\ store.key \in Keys
     /\ store.value \in Values
     /\ Len(map_entries) < MaxEntries
     /\ \/ store = [at |-> "growing", key |-> store.key, value |-> store.value]
        \/ /\ store.at = "sizing"
           /\ store = [at |-> "sizing", key |-> store.key,
                       value |-> store.value, capacity |-> store.capacity]
           /\ store.capacity \in Nat
        \/ /\ store.at = "rebuilding"
           /\ store = [at |-> "rebuilding", key |-> store.key,
                       value |-> store.value, table |-> store.table,
                       done |-> store.done]
           /\ store.done \in 0..Len(map_entries)
           /\ IsTable(store.table, store.done)

\* The types, and with them that no relocation leaves a key of the map or of
\* a store in progress that names no live string (store_map_entry passes
\* owner, key and value as roots to the collections it can cause).
TypeOK ==
  /\ map_key_is_ref \in BOOLEAN
  /\ DOMAIN content \subseteq Refs
  /\ content \in [DOMAIN content -> Contents]
  /\ map_entries \in Seq([key : Keys, value : Values])
  /\ Len(map_entries) <= MaxEntries
  /\ IsTable(map_lookup_index, Len(map_entries))
  /\ StoreTypeOK

\* The buckets hold the first n entries, each once, where inserting them in
\* order puts them: an entry is in the first bucket of its probe sequence
\* that no earlier entry took.
PlacedInOrder(t, hashes, n) ==
  /\ \A a, b \in 0..(t.size - 1) :
       t.bucket[a] # 0 /\ t.bucket[a] = t.bucket[b] => a = b
  /\ \A e \in 1..n : \E i \in 0..(t.size - 1) :
       /\ t.bucket[Probe(hashes[e], i, t.size)] = e
       /\ \A j \in 0..(i - 1) :
            t.bucket[Probe(hashes[e], j, t.size)] \in 1..(e - 1)

\* The capacities that the loop of map_lookup_index_capacity visits.
Doubled[k \in Nat] == IF k = 0 THEN MinCapacity ELSE 2 * Doubled[k - 1]

\* map_lookup_index_capacity(n): the least doubling of the minimum that is
\* at most half full.
IndexCapacity(n) ==
  IF n = 0 THEN 0
  ELSE First({c \in {Doubled[k] : k \in 0..n} : n <= c \div 2})

\* validate_map_lookup_index never throws, after any mix of insertions in
\* place, rebuilds and relocations of the keys: the index has the capacity
\* of its entry count and every entry is where an ordered rebuild puts it.
IndexValidates ==
  /\ map_lookup_index.size = IndexCapacity(Len(map_entries))
  /\ PlacedInOrder(map_lookup_index, EntryHashes, Len(map_entries))

\* Two entries never have keys of equal content, whatever ids they have.
KeysAreDistinct ==
  \A d, e \in 1..Len(map_entries) :
    map_keys_equal(map_entries[d].key, map_entries[e].key) => d = e

\* find_map_entry is exact: it finds the entry whose key has the queried
\* content, no entry when there is none, and never runs past the table.
LookupIsExact ==
  \A key \in Keys :
    \/ /\ find_map_entry(key) \in 1..Len(map_entries)
       /\ map_keys_equal(map_entries[find_map_entry(key)].key, key)
    \/ /\ find_map_entry(key) = 0
       /\ \A e \in 1..Len(map_entries) :
            ~map_keys_equal(map_entries[e].key, key)

\* What an insertion relies on between its loops: the key is still new, the
\* table it fills is placed in order so far and will stay half empty.
InsertionIsReady ==
  /\ store.at # "idle" =>
       \A e \in 1..Len(map_entries) :
         ~map_keys_equal(map_entries[e].key, store.key)
  /\ store.at = "rebuilding" =>
       /\ PlacedInOrder(store.table, EntryHashes, store.done)
       /\ FitsIn(store.table.size)

\* The inductive invariant behind exact lookup.
IndexInv ==
  /\ TypeOK
  /\ PlacedInOrder(map_lookup_index, EntryHashes, Len(map_entries))
  /\ Len(map_entries) < map_lookup_index.size \/ map_lookup_index.size = 0
  /\ map_lookup_index.size = 0 => Len(map_entries) = 0
  /\ KeysAreDistinct
  /\ InsertionIsReady

\* Every capacity that the loop passed was too small for the new entry.
Reached(capacity) ==
  \E k \in 0..(Len(map_entries) + 1) :
    capacity = Doubled[k] /\ \A j \in 0..(k - 1) : ~FitsIn(Doubled[j])

\* The inductive invariant behind the exact capacity.
CapacityInv ==
  /\ map_lookup_index.size = IndexCapacity(Len(map_entries))
  /\ store.at = "sizing" => Reached(store.capacity)
  /\ store.at = "rebuilding" => Reached(store.table.size)

\* A store ends: both loops of an insertion (the doubling of the capacity
\* and the re-insertion of the old entries) reach their exits.
StoreTerminates == store.at # "idle" ~> store.at = "idle"

Dict == [e \in 1..Len(map_entries) |->
           <<ContentOf(map_entries[e].key), map_entries[e].value>>]

Ordered == INSTANCE OrderedMap WITH dict <- Dict

\* To its callers the map is an ordered dictionary keyed by content: hashing,
\* rebuilds and the moves of its keys do not show.
IsOrderedMap == Ordered!Spec

=============================================================================
