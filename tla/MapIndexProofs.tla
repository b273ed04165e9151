--------------------------- MODULE MapIndexProofs ---------------------------
(***************************************************************************)
(* Lookup is exact for every hash function, any number of keys and any     *)
(* sequence of insertions, rebuilds and relocations.                       *)
(***************************************************************************)
EXTENDS MapIndex, FiniteSetTheorems, SequenceTheorems, WellFoundedInduction,
        TLAPS

\* Every set of natural numbers has a least one: what a first bucket needs.
LEMMA LeastNatural ==
  ASSUME NEW S, S \subseteq Nat, S # {}
  PROVE  First(S) \in S /\ \A k \in S : First(S) <= k
<1> DEFINE R == OpToRel(<, Nat)
<1>1. IsWellFoundedOn(R, Nat)
  BY NatLessThanWellFounded, Zenon
<1>2. \A x, y \in Nat : <<y, x>> \in R <=> y < x
  BY DEF OpToRel
<1> HIDE DEF R
<1>3. PICK m \in S : \A k \in S : ~(<<k, m>> \in R)
  BY <1>1, WFMin
<1>4. ASSUME NEW k \in S PROVE m <= k
  <2>1. m \in Nat /\ k \in Nat
    OBVIOUS
  <2>2. ~(k < m)
    BY <1>2, <1>3, <2>1
  <2> QED BY <2>1, <2>2
<1> QED BY <1>4 DEF First

\* A probe sequence stays in the table and visits every bucket.
LEMMA ProbesCoverTable ==
  ASSUME NEW size \in Nat \ {0}, NEW hash \in Nat
  PROVE  /\ \A i \in 0..(size - 1) : Probe(hash, i, size) \in 0..(size - 1)
         /\ \A b \in 0..(size - 1) : \E i \in 0..(size - 1) :
              Probe(hash, i, size) = b
         /\ \A i, j \in 0..(size - 1) :
              Probe(hash, i, size) = Probe(hash, j, size) => i = j
<1> DEFINE home == hash % size
<1>1. home \in 0..(size - 1)
  OBVIOUS
<1> HIDE DEF home
<1>2. \A i : Probe(hash, i, size) =
               IF home + i < size THEN home + i ELSE home + i - size
  BY DEF Probe, home
<1>3. \A i \in 0..(size - 1) : Probe(hash, i, size) \in 0..(size - 1)
  BY <1>1, <1>2
<1>4. ASSUME NEW b \in 0..(size - 1)
      PROVE  \E i \in 0..(size - 1) : Probe(hash, i, size) = b
  <2>1. CASE home <= b
    <3> DEFINE i == b - home
    <3>1. i \in 0..(size - 1) /\ home + i < size /\ home + i = b
      BY <1>1, <2>1
    <3>2. Probe(hash, i, size) = b
      BY <1>2, <3>1
    <3> QED BY <3>1, <3>2
  <2>2. CASE b < home
    <3> DEFINE i == b - home + size
    <3>1. i \in 0..(size - 1) /\ ~(home + i < size) /\ home + i - size = b
      BY <1>1, <2>2
    <3>2. Probe(hash, i, size) = b
      BY <1>2, <3>1
    <3> QED BY <3>1, <3>2
  <2> QED BY <1>1, <2>1, <2>2
<1>5. \A i, j \in 0..(size - 1) :
        Probe(hash, i, size) = Probe(hash, j, size) => i = j
  BY <1>1, <1>2
<1> QED BY <1>3, <1>4, <1>5

\* More buckets than entries: some bucket is empty.
LEMMA EmptyBucketExists ==
  ASSUME NEW n \in Nat, NEW size \in Nat, n < size,
         NEW bucket \in [0..(size - 1) -> 0..n],
         \A a, b \in 0..(size - 1) :
           bucket[a] # 0 /\ bucket[a] = bucket[b] => a = b
  PROVE  \E b \in 0..(size - 1) : bucket[b] = 0
<1> DEFINE S == 0..(size - 1)
           T == 1..n
<1>1. SUFFICES ASSUME \A b \in S : bucket[b] # 0 PROVE FALSE
  OBVIOUS
<1>2. bucket \in [S -> T]
  BY <1>1
<1>3. IsFiniteSet(S) /\ Cardinality(S) = size
  BY FS_Interval, 0 \in Int, size - 1 \in Int
<1>4. IsFiniteSet(T) /\ Cardinality(T) = n
  BY FS_Interval, 1 \in Int, n \in Int
<1>5. Cardinality(T) < Cardinality(S)
  BY <1>3, <1>4
<1> HIDE DEF S, T
<1>6. \E x, y \in S : x # y /\ bucket[x] = bucket[y]
  BY <1>2, <1>3, <1>4, <1>5, FS_PigeonHole
<1> QED BY <1>1, <1>6 DEF S

\* An empty bucket is found on every probe sequence, and it is the first.
LEMMA OpenBucketIsFirst ==
  ASSUME NEW n \in Nat, NEW t, IsTable(t, n), n < t.size, NEW hash \in Nat,
         \A a, b \in 0..(t.size - 1) :
           t.bucket[a] # 0 /\ t.bucket[a] = t.bucket[b] => a = b
  PROVE  \E i \in 0..(t.size - 1) :
           /\ find_open_map_bucket(t, hash) = Probe(hash, i, t.size)
           /\ t.bucket[Probe(hash, i, t.size)] = 0
           /\ \A j \in 0..(i - 1) : t.bucket[Probe(hash, j, t.size)] # 0
<1> DEFINE size == t.size
           bucket == t.bucket
           free == {i \in 0..(size - 1) : bucket[Probe(hash, i, size)] = 0}
<1>1. size \in Nat \ {0} /\ bucket \in [0..(size - 1) -> 0..n]
  BY DEF IsTable
<1>2. \A a, b \in 0..(size - 1) :
        bucket[a] # 0 /\ bucket[a] = bucket[b] => a = b
  OBVIOUS
<1>3. n < size
  OBVIOUS
<1>4. find_open_map_bucket(t, hash) = Probe(hash, First(free), size)
  BY DEF find_open_map_bucket
<1> HIDE DEF size, bucket
<1>5. PICK b \in 0..(size - 1) : bucket[b] = 0
  BY <1>1, <1>2, <1>3, EmptyBucketExists
<1>6. PICK i \in 0..(size - 1) : Probe(hash, i, size) = b
  BY <1>1, <1>5, ProbesCoverTable
<1>7. free # {} /\ free \subseteq Nat
  <2>1. i \in free
    BY <1>5, <1>6
  <2>2. free \subseteq 0..(size - 1)
    OBVIOUS
  <2> QED BY <2>1, <2>2
<1>8. First(free) \in free /\ \A k \in free : First(free) <= k
  BY <1>7, LeastNatural
<1>9. ASSUME NEW j \in 0..(First(free) - 1)
      PROVE  bucket[Probe(hash, j, size)] # 0
  <2>1. First(free) \in 0..(size - 1)
    BY <1>8
  <2>2. j \in 0..(size - 1) /\ ~(First(free) <= j)
    BY <2>1, <1>1
  <2> QED BY <2>2, <1>8
<1> QED BY <1>4, <1>8, <1>9 DEF size, bucket

\* Inserting the entry that comes next keeps the order of placement.
LEMMA InsertPlaces ==
  ASSUME NEW n \in Nat, NEW t, IsTable(t, n), n < t.size,
         NEW hashes, \A e \in 1..(n + 1) : hashes[e] \in Nat,
         PlacedInOrder(t, hashes, n)
  PROVE  /\ IsTable(Insert(t, hashes[n + 1], n + 1), n + 1)
         /\ Insert(t, hashes[n + 1], n + 1).size = t.size
         /\ PlacedInOrder(Insert(t, hashes[n + 1], n + 1), hashes, n + 1)
<1> DEFINE size == t.size
           bucket == t.bucket
           hash == hashes[n + 1]
           u == Insert(t, hash, n + 1)
           open == find_open_map_bucket(t, hash)
           changed == [bucket EXCEPT ![open] = n + 1]
<1>1. size \in Nat \ {0} /\ bucket \in [0..(size - 1) -> 0..n]
  BY DEF IsTable
<1>2. t = [size |-> size, bucket |-> bucket]
  BY DEF IsTable
<1>3. \A a, b \in 0..(size - 1) :
        bucket[a] # 0 /\ bucket[a] = bucket[b] => a = b
  BY DEF PlacedInOrder
<1>4. \A e \in 1..n : \E i \in 0..(size - 1) :
        /\ bucket[Probe(hashes[e], i, size)] = e
        /\ \A j \in 0..(i - 1) :
             bucket[Probe(hashes[e], j, size)] \in 1..(e - 1)
  BY DEF PlacedInOrder
<1>5. hash \in Nat
  OBVIOUS
<1>6. PICK k \in 0..(size - 1) :
        /\ open = Probe(hash, k, size)
        /\ bucket[Probe(hash, k, size)] = 0
        /\ \A j \in 0..(k - 1) : bucket[Probe(hash, j, size)] # 0
  BY <1>3, <1>5, OpenBucketIsFirst
<1>7. u = [size |-> size, bucket |-> changed]
  BY <1>2 DEF Insert
<1> HIDE DEF size, bucket, hash, open, u
<1>8. open \in 0..(size - 1) /\ bucket[open] = 0
  BY <1>1, <1>5, <1>6, ProbesCoverTable
<1>9. /\ changed \in [0..(size - 1) -> 0..(n + 1)]
      /\ changed[open] = n + 1
      /\ \A b \in 0..(size - 1) : b # open => changed[b] = bucket[b]
  BY <1>1, <1>8
<1> HIDE DEF changed
<1>10. u.size = size /\ u.bucket = changed
  BY <1>7
<1>11. IsTable(u, n + 1)
  BY <1>1, <1>7, <1>9, <1>10 DEF IsTable
<1>12. ASSUME NEW a \in 0..(size - 1), NEW b \in 0..(size - 1),
              changed[a] # 0, changed[a] = changed[b]
       PROVE  a = b
  <2>1. bucket[a] \in 0..n /\ bucket[b] \in 0..n
    BY <1>1
  <2> QED BY <1>3, <1>9, <1>12, <2>1
<1>13. ASSUME NEW e \in 1..(n + 1)
       PROVE  \E i \in 0..(size - 1) :
                /\ changed[Probe(hashes[e], i, size)] = e
                /\ \A j \in 0..(i - 1) :
                     changed[Probe(hashes[e], j, size)] \in 1..(e - 1)
  <2>1. CASE e = n + 1
    <3>1. changed[Probe(hash, k, size)] = n + 1
      BY <1>6, <1>9
    <3>2. ASSUME NEW j \in 0..(k - 1)
          PROVE  changed[Probe(hash, j, size)] \in 1..n
      <4>0. j \in 0..(size - 1)
        BY <1>1
      <4>1. Probe(hash, j, size) \in 0..(size - 1)
        BY <1>1, <1>5, <4>0, ProbesCoverTable
      <4>2. bucket[Probe(hash, j, size)] \in 1..n
        BY <1>1, <1>6, <4>1
      <4> QED BY <1>8, <1>9, <4>1, <4>2
    <3> QED BY <2>1, <3>1, <3>2 DEF hash
  <2>2. CASE e \in 1..n
    <3>1. PICK i \in 0..(size - 1) :
            /\ bucket[Probe(hashes[e], i, size)] = e
            /\ \A j \in 0..(i - 1) :
                 bucket[Probe(hashes[e], j, size)] \in 1..(e - 1)
      BY <1>4, <2>2
    <3>2. \A j \in 0..(size - 1) :
            Probe(hashes[e], j, size) \in 0..(size - 1)
      BY <1>1, <2>2, ProbesCoverTable
    <3>3. changed[Probe(hashes[e], i, size)] = e
      <4>1. Probe(hashes[e], i, size) \in 0..(size - 1)
        BY <3>2
      <4>2. Probe(hashes[e], i, size) # open
        BY <1>8, <3>1
      <4> QED BY <1>9, <3>1, <4>1, <4>2
    <3>4. ASSUME NEW j \in 0..(i - 1)
          PROVE  changed[Probe(hashes[e], j, size)] \in 1..(e - 1)
      <4>1. j \in 0..(size - 1)
        BY <1>1
      <4>2. Probe(hashes[e], j, size) \in 0..(size - 1)
        BY <3>2, <4>1
      <4>3. bucket[Probe(hashes[e], j, size)] \in 1..(e - 1)
        BY <3>1
      <4>4. Probe(hashes[e], j, size) # open
        BY <1>8, <4>3
      <4> QED BY <1>9, <4>2, <4>3, <4>4
    <3> QED BY <3>3, <3>4
  <2> QED BY <2>1, <2>2
<1>14. PlacedInOrder(u, hashes, n + 1)
  BY <1>10, <1>12, <1>13 DEF PlacedInOrder
<1> QED BY <1>10, <1>11, <1>14 DEF u, hash, size

(***************************************************************************)
(* Lookup from the invariant.                                              *)
(***************************************************************************)

\* What the type invariant says of one entry.
LEMMA EntryTypes ==
  ASSUME TypeOK
  PROVE  /\ Len(map_entries) \in Nat
         /\ map_entries \in [1..Len(map_entries) -> [key : Keys, value : Values]]
         /\ \A key \in Keys : ContentOf(key) \in Contents
         /\ \A key \in Keys : map_key_hash(key) \in Nat
         /\ \A e \in 1..Len(map_entries) : EntryHashes[e] \in Nat
<1>1. /\ Len(map_entries) \in Nat
      /\ map_entries \in [1..Len(map_entries) -> [key : Keys, value : Values]]
  BY LenProperties DEF TypeOK
<1>2. \A key \in Keys : ContentOf(key) \in Contents
  BY DEF TypeOK, Keys, ContentOf
<1>3. \A key \in Keys : map_key_hash(key) \in Nat
  BY <1>2, HashAssumption DEF map_key_hash
<1>4. \A e \in 1..Len(map_entries) : EntryHashes[e] \in Nat
  BY <1>1, <1>3 DEF EntryHashes
<1> QED BY <1>1, <1>2, <1>3, <1>4

LEMMA InvariantGivesLookup ==
  IndexInv => LookupIsExact
<1> SUFFICES ASSUME IndexInv, NEW key \in Keys
             PROVE  \/ /\ find_map_entry(key) \in 1..Len(map_entries)
                       /\ map_keys_equal(map_entries[find_map_entry(key)].key,
                                         key)
                    \/ /\ find_map_entry(key) = 0
                       /\ \A e \in 1..Len(map_entries) :
                            ~map_keys_equal(map_entries[e].key, key)
  BY DEF LookupIsExact
<1> DEFINE n == Len(map_entries)
           size == map_lookup_index.size
           bucket == map_lookup_index.bucket
           hash == map_key_hash(key)
           Enc(i) == Encoded(key, i)
           Same(e) == map_keys_equal(map_entries[e].key, key)
           stops == Stops(key)
<1>1. TypeOK /\ n \in Nat /\ hash \in Nat
  BY EntryTypes DEF IndexInv
<1>2. size \in Nat /\ bucket \in [0..(size - 1) -> 0..n]
  BY <1>1 DEF TypeOK, IsTable
<1>3. /\ \A i : Enc(i) = bucket[Probe(hash, i, size)]
      /\ \A i : i \in stops <=>
           /\ i \in 0..(size - 1)
           /\ Enc(i) = 0 \/ Enc(i) > n \/ Same(Enc(i))
      /\ size = 0 => find_map_entry(key) = 0
      /\ size # 0 /\ stops # {} /\ ~(Enc(First(stops)) > n) =>
           find_map_entry(key) = Enc(First(stops))
  BY DEF find_map_entry, Stops, Encoded
<1> HIDE DEF stops, Enc
<1>4. CASE size = 0
  <2>1. n = 0 /\ find_map_entry(key) = 0
    BY <1>3, <1>4 DEF IndexInv
  <2> QED BY <2>1
<1>5. CASE size # 0
  <2>1. n < size /\ size \in Nat \ {0}
    BY <1>2, <1>5 DEF IndexInv
  <2>2. /\ \A a, b \in 0..(size - 1) :
             bucket[a] # 0 /\ bucket[a] = bucket[b] => a = b
        /\ \A e \in 1..n : \E i \in 0..(size - 1) :
             /\ bucket[Probe(EntryHashes[e], i, size)] = e
             /\ \A j \in 0..(i - 1) :
                  bucket[Probe(EntryHashes[e], j, size)] \in 1..(e - 1)
    BY DEF IndexInv, PlacedInOrder
  <2>3. \A i \in 0..(size - 1) : Enc(i) \in 0..n
    BY <1>1, <1>2, <1>3, <2>1, ProbesCoverTable
  <2>4. stops \subseteq Nat
    BY <1>2, <1>3
  <2>5. CASE \E e \in 1..n : Same(e)
    <3>1. PICK e \in 1..n : Same(e)
      BY <2>5
    <3>2. EntryHashes[e] = hash
      BY <1>1, <3>1 DEF EntryHashes, map_key_hash, map_keys_equal
    <3>3. PICK i \in 0..(size - 1) :
            /\ Enc(i) = e
            /\ \A j \in 0..(i - 1) : Enc(j) \in 1..(e - 1)
      BY <1>3, <2>2, <3>2
    <3>4. i \in stops
      BY <1>3, <3>1, <3>3
    <3>5. ASSUME NEW j \in 0..(i - 1) PROVE j \notin stops
      <4>1. Enc(j) \in 1..(e - 1)
        BY <3>3
      <4>2. Enc(j) \in 1..n /\ Enc(j) # e
        BY <1>1, <4>1
      <4>3. ~Same(Enc(j))
        BY <3>1, <4>2 DEF IndexInv, KeysAreDistinct, map_keys_equal
      <4> QED BY <1>1, <1>3, <4>2, <4>3
    <3>6. First(stops) = i
      <4>1. First(stops) \in stops /\ First(stops) <= i
        BY <2>4, <3>4, LeastNatural
      <4>2. First(stops) \in Nat /\ First(stops) \notin 0..(i - 1)
        BY <2>4, <3>5, <4>1
      <4> QED BY <4>1, <4>2
    <3>7. find_map_entry(key) = e
      BY <1>1, <1>3, <1>5, <3>3, <3>4, <3>6
    <3> QED BY <3>1, <3>7
  <2>6. CASE \A e \in 1..n : ~Same(e)
    <3>1. PICK b \in 0..(size - 1) : bucket[b] = 0
      BY <1>1, <1>2, <2>1, <2>2, EmptyBucketExists
    <3>2. PICK i \in 0..(size - 1) : Probe(hash, i, size) = b
      BY <1>1, <2>1, ProbesCoverTable
    <3>3. i \in stops
      BY <1>3, <3>1, <3>2
    <3>4. First(stops) \in stops
      BY <2>4, <3>3, LeastNatural
    <3>5. Enc(First(stops)) = 0
      <4>1. First(stops) \in 0..(size - 1)
        BY <1>3, <3>4
      <4>2. Enc(First(stops)) \in 0..n
        BY <2>3, <4>1
      <4>3. \/ Enc(First(stops)) = 0 \/ Enc(First(stops)) > n
            \/ Same(Enc(First(stops)))
        BY <1>3, <3>4
      <4> HIDE DEF Enc, stops, Same
      <4> QED BY <1>1, <2>6, <4>2, <4>3
    <3>6. find_map_entry(key) = 0
      BY <1>1, <1>3, <1>5, <3>3, <3>5
    <3> QED BY <2>6, <3>6
  <2> QED BY <2>5, <2>6
<1> QED BY <1>4, <1>5

(***************************************************************************)
(* Every step preserves the invariant.                                     *)
(***************************************************************************)

\* A step that keeps the contents of the entries' keys keeps their hashes.
LEMMA SameContents ==
  ASSUME IndexInv, Len(map_entries') = Len(map_entries),
         \A e \in 1..Len(map_entries) :
           ContentOf(map_entries[e].key)' = ContentOf(map_entries[e].key)
  PROVE  /\ EntryHashes' = EntryHashes /\ KeysAreDistinct'
         /\ (\A e \in 1..Len(map_entries) :
               map_entries'[e].value = map_entries[e].value) => Dict' = Dict
<1>1. EntryHashes' = EntryHashes
  BY DEF EntryHashes, map_key_hash
<1>2. KeysAreDistinct'
  BY DEF IndexInv, KeysAreDistinct, map_keys_equal
<1>3. ASSUME \A e \in 1..Len(map_entries) :
               map_entries'[e].value = map_entries[e].value
      PROVE  Dict' = Dict
  BY <1>3 DEF Dict
<1> QED BY <1>1, <1>2, <1>3

\* A step that changes neither the map nor the strings.
LEMMA SameMap ==
  ASSUME IndexInv,
         UNCHANGED <<map_key_is_ref, content, map_entries, map_lookup_index>>
  PROVE  /\ Keys' = Keys /\ EntryHashes' = EntryHashes
         /\ KeysAreDistinct' /\ Dict' = Dict
         /\ StoreTypeOK' => TypeOK'
         /\ StoreTypeOK' /\ InsertionIsReady' => IndexInv'
<1>1. Keys' = Keys /\ (\A key : ContentOf(key)' = ContentOf(key))
  BY DEF Keys, ContentOf
<1>2. EntryHashes' = EntryHashes /\ KeysAreDistinct' /\ Dict' = Dict
  BY <1>1, SameContents DEF ContentOf
<1>3. StoreTypeOK' => TypeOK'
  BY <1>1 DEF IndexInv, TypeOK, IsTable
<1>4. PlacedInOrder(map_lookup_index, EntryHashes, Len(map_entries))'
  BY <1>2 DEF IndexInv, PlacedInOrder
<1> QED BY <1>1, <1>2, <1>3, <1>4 DEF IndexInv

\* Reading, and starting a store, leaves the map alone.
LEMMA IdleKept ==
  ASSUME IndexInv, store' = store,
         UNCHANGED <<map_key_is_ref, content, map_entries, map_lookup_index>>
  PROVE  IndexInv'
<1>1. Keys' = Keys /\ EntryHashes' = EntryHashes
  BY SameMap
<1>2. StoreTypeOK'
  BY <1>1 DEF IndexInv, TypeOK, StoreTypeOK, IsTable
<1>3. InsertionIsReady'
  BY <1>1 DEF IndexInv, InsertionIsReady, PlacedInOrder, FitsIn,
              map_keys_equal, ContentOf
<1> QED BY <1>2, <1>3, SameMap

LEMMA NewStringKept ==
  ASSUME IndexInv, NEW r \in Refs, NEW c \in Contents, NewString(r, c)
  PROVE  IndexInv' /\ Dict' = Dict
<1>1. /\ map_key_is_ref = TRUE /\ store.at = "idle"
      /\ r \notin DOMAIN content
      /\ content' = [q \in DOMAIN content \cup {r} |->
                       IF q = r THEN c ELSE content[q]]
      /\ UNCHANGED <<map_key_is_ref, map_entries, map_lookup_index, store>>
  BY DEF NewString, IndexInv, TypeOK
<1>2. store = Idle
  BY <1>1 DEF IndexInv, TypeOK, StoreTypeOK
<1>3. Keys = DOMAIN content /\ Keys' = DOMAIN content \cup {r}
  BY <1>1 DEF Keys
<1>4. \A key \in Keys : ContentOf(key)' = ContentOf(key)
  BY <1>1, <1>3 DEF ContentOf
<1>5. map_entries \in [1..Len(map_entries) -> [key : Keys, value : Values]]
  BY EntryTypes DEF IndexInv
<1>6. EntryHashes' = EntryHashes /\ KeysAreDistinct' /\ Dict' = Dict
  <2>1. \A e \in 1..Len(map_entries) : map_entries[e].key \in Keys
    BY <1>5
  <2>2. \A e \in 1..Len(map_entries) :
          ContentOf(map_entries[e].key)' = ContentOf(map_entries[e].key)
    BY <1>1, <1>4, <2>1 DEF ContentOf
  <2> QED BY <1>1, <2>2, SameContents
<1>7. TypeOK'
  <2>1. map_entries \in Seq([key : Keys, value : Values])
    BY DEF IndexInv, TypeOK
  <2>2. [key : Keys, value : Values] \subseteq [key : Keys', value : Values]
    BY <1>3
  <2>3. map_entries \in Seq([key : Keys', value : Values])
    BY <2>1, <2>2, SeqMonotonic
  <2>4. DOMAIN content' \subseteq Refs /\ content' \in [DOMAIN content' -> Contents]
    BY <1>1 DEF IndexInv, TypeOK
  <2>5. StoreTypeOK'
    BY <1>1, <1>2 DEF StoreTypeOK
  <2> QED BY <1>1, <2>3, <2>4, <2>5 DEF IndexInv, TypeOK, IsTable
<1>8. InsertionIsReady'
  BY <1>1 DEF InsertionIsReady
<1> QED BY <1>1, <1>6, <1>7, <1>8 DEF IndexInv, PlacedInOrder

\* The new ids of the kept strings have the contents of the old ones.
LEMMA RelocateKept ==
  ASSUME IndexInv, NEW kept \in SUBSET DOMAIN content, Needed \subseteq kept,
         NEW moves \in Injections(kept, Refs), Relocate(moves)
  PROVE  IndexInv' /\ Dict' = Dict
<1> DEFINE n == Len(map_entries)
<1>1. /\ moves \in [kept -> Refs]
      /\ \A x, y \in kept : moves[x] = moves[y] => x = y
  BY DEF Injections
<1>2. /\ map_key_is_ref = TRUE /\ map_key_is_ref' = TRUE
      /\ store.at \in {"idle", "growing"}
      /\ content' = [r \in {moves[q] : q \in kept} |->
                       content[CHOOSE q \in kept : moves[q] = r]]
      /\ map_entries' = [e \in 1..n |->
                           [key |-> moves[map_entries[e].key],
                            value |-> map_entries[e].value]]
      /\ store' = IF store.at = "growing"
                  THEN [at |-> "growing", key |-> moves[store.key],
                        value |-> store.value]
                  ELSE store
      /\ map_lookup_index' = map_lookup_index
  BY <1>1 DEF Relocate, IndexInv, TypeOK
<1>3. Keys = DOMAIN content /\ Keys' = {moves[q] : q \in kept}
  BY <1>2 DEF Keys
<1>4. ASSUME NEW q \in kept
      PROVE  /\ moves[q] \in Keys'
             /\ ContentOf(moves[q])' = ContentOf(q)
  <2>1. (CHOOSE p \in kept : moves[p] = moves[q]) = q
    BY <1>1
  <2>2. moves[q] \in {moves[p] : p \in kept}
    OBVIOUS
  <2>3. content'[moves[q]] = content[q]
    BY <1>2, <2>1, <2>2
  <2> QED BY <1>2, <1>3, <2>2, <2>3 DEF ContentOf
<1>5. n \in Nat /\ map_entries \in [1..n -> [key : Keys, value : Values]]
  BY EntryTypes DEF IndexInv
<1>6. \A e \in 1..n : map_entries[e].key \in kept
  BY <1>5 DEF Needed, EntryKeys
<1>7. /\ \A e \in 1..n : map_entries'[e].key = moves[map_entries[e].key]
      /\ map_entries' \in [1..n -> [key : Keys', value : Values]]
  BY <1>2, <1>4, <1>5, <1>6
<1>8. map_entries' \in Seq([key : Keys', value : Values]) /\ Len(map_entries') = n
  <2>1. map_entries' \in Seq([key : Keys', value : Values])
    <3> DEFINE Entry == [key : Keys', value : Values]
    <3>1. map_entries' \in [1..n -> Entry]
      BY <1>7
    <3> HIDE DEF Entry
    <3>2. map_entries' \in UNION {[1..m -> Entry] : m \in Nat}
      BY <1>5, <3>1
    <3>3. map_entries' \in Seq(Entry)
      BY <3>2, SeqDef, Zenon
    <3> QED BY <3>3 DEF Entry
  <2>2. DOMAIN map_entries' = 1..n
    BY <1>7
  <2> QED BY <1>5, <2>1, <2>2, LenProperties
<1>9. EntryHashes' = EntryHashes /\ KeysAreDistinct' /\ Dict' = Dict
  <2>0. \A e \in 1..n : map_entries'[e].value = map_entries[e].value
    BY <1>2
  <2>1. \A e \in 1..n :
          ContentOf(map_entries[e].key)' = ContentOf(map_entries[e].key)
    BY <1>4, <1>6, <1>7 DEF ContentOf
  <2> QED BY <1>8, <2>0, <2>1, SameContents
<1>10. StoreTypeOK' /\ InsertionIsReady'
  <2>1. CASE store.at = "idle"
    <3>1. store = Idle /\ store' = Idle
      BY <1>2, <2>1 DEF IndexInv, TypeOK, StoreTypeOK
    <3> QED BY <3>1 DEF StoreTypeOK, InsertionIsReady, Idle
  <2>2. CASE store.at = "growing"
    <3>1. store.key \in kept
      BY <2>2 DEF Needed
    <3>2. store.value \in Values /\ n < MaxEntries /\ store.key \in Keys
      BY <2>2 DEF IndexInv, TypeOK, StoreTypeOK, Idle
    <3>3. store' = [at |-> "growing", key |-> moves[store.key],
                    value |-> store.value]
      BY <1>2, <2>2
    <3>4. StoreTypeOK'
      <4>1. /\ store'.key = moves[store.key] /\ store'.value = store.value
            /\ store' = [at |-> "growing", key |-> store'.key,
                         value |-> store'.value]
        BY <3>3
      <4>2. store'.key \in Keys' /\ store'.value \in Values
            /\ Len(map_entries') < MaxEntries
        BY <1>4, <1>8, <3>1, <3>2, <4>1
      <4> QED BY <4>1, <4>2 DEF StoreTypeOK
    <3>5. ASSUME NEW e \in 1..n
          PROVE  ~map_keys_equal(map_entries[e].key, store.key)'
      <4>1. ContentOf(map_entries[e].key) # ContentOf(store.key)
        BY <2>2 DEF IndexInv, InsertionIsReady, map_keys_equal
      <4> QED BY <1>4, <1>6, <1>7, <3>1, <3>3, <4>1 DEF map_keys_equal, ContentOf
    <3> QED BY <1>8, <3>3, <3>4, <3>5 DEF InsertionIsReady
  <2> QED BY <1>2, <2>1, <2>2
<1>11. TypeOK'
  <2>1. DOMAIN content' \subseteq Refs /\ content' \in [DOMAIN content' -> Contents]
    <3>1. DOMAIN content' = {moves[q] : q \in kept}
      BY <1>2
    <3>2. \A q \in kept : content'[moves[q]] \in Contents
      <4>1. \A q \in kept : ContentOf(q) \in Contents
        BY <1>3, EntryTypes DEF IndexInv
      <4> QED BY <1>2, <1>4, <4>1 DEF ContentOf
    <3>3. \A r \in DOMAIN content' : content'[r] \in Contents
      BY <3>1, <3>2
    <3>4. content' = [r \in DOMAIN content' |-> content'[r]]
      BY <1>2
    <3>5. \A q \in kept : moves[q] \in Refs
      BY <1>1
    <3>6. DOMAIN content' \subseteq Refs
      BY <3>1, <3>5
    <3> QED BY <3>3, <3>4, <3>6
  <2> QED BY <1>2, <1>8, <1>10, <2>1 DEF IndexInv, TypeOK, IsTable
<1> QED BY <1>2, <1>8, <1>9, <1>10, <1>11 DEF IndexInv, PlacedInOrder

\* A store overwrites the value of a known key, or begins an insertion.
LEMMA StoreMapEntryKept ==
  ASSUME IndexInv, NEW key \in Keys, NEW value \in Values,
         store_map_entry(key, value)
  PROVE  IndexInv'
<1> DEFINE n == Len(map_entries)
           e == find_map_entry(key)
<1>1. store = Idle
  BY DEF store_map_entry, IndexInv, TypeOK, StoreTypeOK
<1>2. UNCHANGED <<map_key_is_ref, content, map_lookup_index>>
  BY DEF store_map_entry
<1>3. n \in Nat /\ map_entries \in [1..n -> [key : Keys, value : Values]]
  BY EntryTypes DEF IndexInv
<1> HIDE DEF e
<1>4. CASE /\ e = 0 /\ n < MaxEntries
           /\ store' = [at |-> "growing", key |-> key, value |-> value]
           /\ UNCHANGED map_entries
  <2>1. \A d \in 1..n : ~map_keys_equal(map_entries[d].key, key)
    BY <1>3, <1>4, InvariantGivesLookup DEF LookupIsExact, e
  <2>2. Keys' = Keys
    BY <1>2, <1>4, SameMap
  <2>3. StoreTypeOK'
    BY <1>4, <2>2 DEF StoreTypeOK
  <2>4. InsertionIsReady'
    BY <1>2, <1>4, <2>1 DEF InsertionIsReady, map_keys_equal, ContentOf
  <2> QED BY <1>2, <1>4, <2>3, <2>4, SameMap
<1>5. CASE /\ e \in 1..n
           /\ map_entries' = [map_entries EXCEPT ![e].value = value]
           /\ UNCHANGED store
  <2> DEFINE Entry == [key : Keys, value : Values]
             changed == [map_entries[e] EXCEPT !.value = value]
  <2>1. /\ changed \in Entry /\ changed.key = map_entries[e].key
    BY <1>3, <1>5
  <2>2. map_entries' = [map_entries EXCEPT ![e] = changed]
    BY <1>5
  <2>3. map_entries \in Seq(Entry)
    BY DEF IndexInv, TypeOK
  <2> HIDE DEF Entry, changed
  <2>4. /\ map_entries' \in Seq(Entry) /\ Len(map_entries') = n
        /\ \A d \in 1..n :
             map_entries'[d] = IF d = e THEN changed ELSE map_entries[d]
    BY <1>5, <2>1, <2>2, <2>3, ExceptSeq
  <2>5. \A d \in 1..n : map_entries'[d].key = map_entries[d].key
    BY <2>1, <2>4
  <2>6. EntryHashes' = EntryHashes /\ KeysAreDistinct'
    <3>1. \A d \in 1..n :
            ContentOf(map_entries[d].key)' = ContentOf(map_entries[d].key)
      BY <1>2, <2>5 DEF ContentOf
    <3> QED BY <2>4, <3>1, SameContents
  <2>7. Keys' = Keys
    BY <1>2 DEF Keys
  <2>8. TypeOK'
    <3>1. StoreTypeOK'
      BY <1>1, <1>5 DEF StoreTypeOK
    <3>2. map_entries' \in Seq([key : Keys', value : Values])
      BY <2>4, <2>7 DEF Entry
    <3> QED BY <1>2, <2>4, <3>1, <3>2 DEF IndexInv, TypeOK, IsTable
  <2>9. InsertionIsReady'
    BY <1>1, <1>5 DEF InsertionIsReady, Idle
  <2> QED BY <1>2, <2>4, <2>6, <2>8, <2>9 DEF IndexInv, PlacedInOrder
<1> QED BY <1>4, <1>5 DEF store_map_entry, e

\* The entry and its bucket appear together, in a table that holds the other
\* entries and has room.
LEMMA PublishKept ==
  ASSUME IndexInv, store.at # "idle", NEW STATE t, IsTable(t, Len(map_entries)),
         PlacedInOrder(t, EntryHashes, Len(map_entries)), FitsIn(t.size),
         Publish(t)
  PROVE  IndexInv'
<1> DEFINE n == Len(map_entries)
           Entry == [key : Keys, value : Values]
           new == [key |-> store.key, value |-> store.value]
<1>1. /\ map_lookup_index' = Insert(t, map_key_hash(store.key), n + 1)
      /\ map_entries' = Append(map_entries, new)
      /\ store' = Idle
      /\ UNCHANGED <<map_key_is_ref, content>>
  BY DEF Publish
<1>2. new \in Entry /\ store.key \in Keys /\ n < MaxEntries
  BY DEF IndexInv, TypeOK, StoreTypeOK, Idle
<1>3. map_entries \in Seq(Entry) /\ n \in Nat
  BY EntryTypes DEF IndexInv, TypeOK
<1> HIDE DEF new, Entry
<1>4. /\ map_entries' \in Seq(Entry) /\ Len(map_entries') = n + 1
      /\ \A e \in 1..n : map_entries'[e] = map_entries[e]
      /\ map_entries'[n + 1] = new
  BY <1>1, <1>2, <1>3
<1>5. Keys' = Keys /\ \A key : ContentOf(key)' = ContentOf(key)
  BY <1>1 DEF Keys, ContentOf
<1>6. /\ \A e \in 1..n : EntryHashes'[e] = EntryHashes[e]
      /\ EntryHashes'[n + 1] = map_key_hash(store.key)
  <2>1. \A e \in 1..(n + 1) : EntryHashes'[e] = map_key_hash(map_entries[e].key)'
    BY <1>4 DEF EntryHashes
  <2>2. \A e \in 1..n : EntryHashes[e] = map_key_hash(map_entries[e].key)
    BY DEF EntryHashes
  <2>3. new.key = store.key
    BY DEF new
  <2>4. \A e \in 1..n : e \in 1..(n + 1)
    BY <1>3
  <2>5. ASSUME NEW e \in 1..n PROVE EntryHashes'[e] = EntryHashes[e]
    BY <1>1, <1>4, <2>1, <2>2, <2>4 DEF map_key_hash, ContentOf
  <2>6. EntryHashes'[n + 1] = map_key_hash(store.key)
    BY <1>1, <1>3, <1>4, <2>1, <2>3 DEF map_key_hash, ContentOf
  <2> QED BY <2>5, <2>6
<1>7. \A e \in 1..(n + 1) : EntryHashes'[e] \in Nat
  <2>1. map_key_hash(store.key) \in Nat /\ \A e \in 1..n : EntryHashes[e] \in Nat
    BY <1>2, EntryTypes DEF IndexInv
  <2> QED BY <1>3, <1>6, <2>1
<1>8. PlacedInOrder(t, EntryHashes', n)
  BY <1>6 DEF PlacedInOrder
<1>9. n < t.size /\ t.size \in Nat
  BY <1>3 DEF FitsIn, IsTable
<1>10. /\ IsTable(map_lookup_index', n + 1)
       /\ map_lookup_index'.size = t.size
       /\ PlacedInOrder(map_lookup_index', EntryHashes', n + 1)
  <2>1. map_lookup_index' = Insert(t, EntryHashes'[n + 1], n + 1)
    BY <1>1, <1>6
  <2> QED BY <1>3, <1>7, <1>8, <1>9, <2>1, InsertPlaces
<1>11. n + 1 < t.size
  BY <1>3, <1>9 DEF FitsIn
<1>12. KeysAreDistinct'
  <2>1. \A e \in 1..n : ContentOf(map_entries[e].key) # ContentOf(store.key)
    BY DEF IndexInv, InsertionIsReady, map_keys_equal
  <2>2. \A d, e \in 1..n :
          ContentOf(map_entries[d].key) = ContentOf(map_entries[e].key) => d = e
    BY DEF IndexInv, KeysAreDistinct, map_keys_equal
  <2>3. new.key = store.key
    BY DEF new
  <2>4. ASSUME NEW d \in 1..(n + 1), NEW e \in 1..(n + 1),
               ContentOf(map_entries'[d].key) = ContentOf(map_entries'[e].key)
        PROVE  d = e
    <3>1. d \in 1..n \cup {n + 1} /\ e \in 1..n \cup {n + 1}
      BY <1>3
    <3> QED BY <1>4, <2>1, <2>2, <2>3, <2>4, <3>1
  <2> QED BY <1>1, <1>4, <2>4 DEF KeysAreDistinct, map_keys_equal, ContentOf
<1>13. TypeOK'
  <2>1. StoreTypeOK'
    BY <1>1 DEF StoreTypeOK
  <2>2. map_entries' \in Seq([key : Keys', value : Values])
    BY <1>4, <1>5 DEF Entry
  <2>3. n + 1 <= MaxEntries
    BY <1>2, <1>3, MaxEntriesAssumption
  <2> QED BY <1>1, <1>4, <1>10, <2>1, <2>2, <2>3 DEF IndexInv, TypeOK
<1>14. InsertionIsReady'
  BY <1>1 DEF InsertionIsReady, Idle
<1> QED BY <1>3, <1>4, <1>9, <1>10, <1>11, <1>12, <1>13, <1>14 DEF IndexInv

\* The steps of an insertion before it publishes.
LEMMA InsertionKept ==
  ASSUME IndexInv, BeginSizing \/ DoubleCapacity \/ BeginRebuild \/ Reinsert
  PROVE  IndexInv'
<1> DEFINE n == Len(map_entries)
<1>1. UNCHANGED <<map_key_is_ref, content, map_entries, map_lookup_index>>
  BY DEF BeginSizing, DoubleCapacity, BeginRebuild, Reinsert
<1>2. /\ Keys' = Keys /\ EntryHashes' = EntryHashes
      /\ \A key : ContentOf(key)' = ContentOf(key)
  BY <1>1, SameMap DEF ContentOf
<1>3. /\ store.at # "idle" /\ store.key \in Keys /\ store.value \in Values
      /\ n < MaxEntries /\ n \in Nat
  BY EntryTypes DEF IndexInv, TypeOK, StoreTypeOK, Idle, BeginSizing,
                    DoubleCapacity, BeginRebuild, Reinsert
<1>4. \A e \in 1..n : ~map_keys_equal(map_entries[e].key, store.key)
  BY <1>3 DEF IndexInv, InsertionIsReady
<1>5. store'.key = store.key =>
        \A e \in 1..Len(map_entries') :
          ~map_keys_equal(map_entries[e].key, store.key)'
  BY <1>1, <1>2, <1>4 DEF map_keys_equal, ContentOf
<1>6. CASE BeginSizing
  <2>1. store' = [at |-> "sizing", key |-> store.key, value |-> store.value,
                  capacity |-> MinCapacity]
    BY <1>6 DEF BeginSizing
  <2>2. StoreTypeOK'
    BY <1>1, <1>2, <1>3, <2>1, MinCapacityAssumption DEF StoreTypeOK
  <2>3. InsertionIsReady'
    BY <1>5, <2>1 DEF InsertionIsReady
  <2> QED BY <1>1, <2>2, <2>3, SameMap
<1>7. CASE DoubleCapacity
  <2>1. /\ store = [at |-> "sizing", key |-> store.key, value |-> store.value,
                    capacity |-> store.capacity]
        /\ store.capacity \in Nat
    BY <1>7 DEF DoubleCapacity, IndexInv, TypeOK, StoreTypeOK, Idle
  <2>2. store' = [at |-> "sizing", key |-> store.key, value |-> store.value,
                  capacity |-> 2 * store.capacity]
    BY <1>7, <2>1 DEF DoubleCapacity
  <2>3. StoreTypeOK'
    BY <1>1, <1>2, <1>3, <2>1, <2>2 DEF StoreTypeOK
  <2>4. InsertionIsReady'
    BY <1>5, <2>2 DEF InsertionIsReady
  <2> QED BY <1>1, <2>3, <2>4, SameMap
<1>8. CASE BeginRebuild
  <2> DEFINE t == EmptyTable(store.capacity)
  <2>1. store' = [at |-> "rebuilding", key |-> store.key,
                  value |-> store.value, table |-> t, done |-> 0]
    BY <1>8 DEF BeginRebuild
  <2>2. store.capacity \in Nat /\ FitsIn(store.capacity)
    BY <1>8 DEF BeginRebuild, IndexInv, TypeOK, StoreTypeOK, Idle
  <2>3. /\ IsTable(t, 0) /\ PlacedInOrder(t, EntryHashes', 0)
        /\ t.size = store.capacity
    BY <2>2 DEF EmptyTable, IsTable, PlacedInOrder
  <2> HIDE DEF t
  <2>4. StoreTypeOK'
    BY <1>1, <1>2, <1>3, <2>1, <2>3 DEF StoreTypeOK
  <2>5. FitsIn(store.table.size)'
    BY <1>1, <2>1, <2>2, <2>3 DEF FitsIn
  <2>6. InsertionIsReady'
    BY <1>5, <2>1, <2>3, <2>5 DEF InsertionIsReady
  <2> QED BY <1>1, <2>4, <2>6, SameMap
<1>9. CASE Reinsert
  <2> DEFINE d == store.done
             t == store.table
             u == Insert(t, EntryHashes[d + 1], d + 1)
  <2>1. /\ store = [at |-> "rebuilding", key |-> store.key,
                    value |-> store.value, table |-> t, done |-> d]
        /\ d \in 0..n /\ d < n /\ IsTable(t, d)
    BY <1>9 DEF Reinsert, IndexInv, TypeOK, StoreTypeOK, Idle
  <2>2. store' = [at |-> "rebuilding", key |-> store.key,
                  value |-> store.value, table |-> u, done |-> d + 1]
    BY <1>9 DEF Reinsert
  <2>3. PlacedInOrder(t, EntryHashes, d) /\ FitsIn(t.size)
    BY <2>1 DEF IndexInv, InsertionIsReady
  <2>4. t.size \in Nat /\ d < t.size
    BY <1>3, <2>1, <2>3 DEF FitsIn, IsTable
  <2>5. \A e \in 1..(d + 1) : EntryHashes[e] \in Nat
    BY <1>3, <2>1, EntryTypes DEF IndexInv
  <2>6. d \in Nat
    BY <1>3, <2>1
  <2>7. /\ IsTable(u, d + 1) /\ u.size = t.size
        /\ PlacedInOrder(u, EntryHashes, d + 1)
    BY <2>1, <2>3, <2>4, <2>5, <2>6, InsertPlaces
  <2> HIDE DEF u, t, d
  <2>8. StoreTypeOK'
    <3>1. d + 1 \in 0..n
      BY <1>3, <2>1
    <3> QED BY <1>1, <1>2, <1>3, <2>2, <2>7, <3>1 DEF StoreTypeOK
  <2>9. FitsIn(store.table.size)'
    BY <1>1, <2>2, <2>3, <2>7 DEF FitsIn
  <2>10. InsertionIsReady'
    BY <1>2, <1>5, <2>2, <2>7, <2>9 DEF InsertionIsReady
  <2> QED BY <1>1, <2>8, <2>10, SameMap
<1> QED BY <1>6, <1>7, <1>8, <1>9

LEMMA InitEstablishesIndexInv == Init => IndexInv
<1> SUFFICES ASSUME Init PROVE IndexInv
  OBVIOUS
<1>1. map_entries = << >> /\ Len(map_entries) = 0 /\ store = Idle
  BY DEF Init
<1>2. /\ IsTable(map_lookup_index, 0) /\ map_lookup_index.size = 0
      /\ map_lookup_index.bucket = [b \in {} |-> 0]
  BY DEF Init, EmptyTable, IsTable
<1>3. TypeOK
  <2>1. DOMAIN content = {}
    BY DEF Init
  <2>2. map_entries \in Seq([key : Keys, value : Values])
    BY <1>1, EmptySeq
  <2> QED BY <1>1, <1>2, <2>1, <2>2, MaxEntriesAssumption
          DEF Init, TypeOK, StoreTypeOK
<1>4. PlacedInOrder(map_lookup_index, EntryHashes, Len(map_entries))
  BY <1>1, <1>2 DEF PlacedInOrder
<1>5. KeysAreDistinct /\ InsertionIsReady
  BY <1>1 DEF KeysAreDistinct, InsertionIsReady, Idle
<1> QED BY <1>1, <1>2, <1>3, <1>4, <1>5 DEF IndexInv

LEMMA NextKeepsIndexInv == IndexInv /\ [Next]_vars => IndexInv'
<1> SUFFICES ASSUME IndexInv, [Next]_vars PROVE IndexInv'
  OBVIOUS
<1>1. ASSUME NEW r \in Refs, NEW c \in Contents, NewString(r, c)
      PROVE  IndexInv'
  BY <1>1, NewStringKept
<1>2. ASSUME NEW kept \in SUBSET DOMAIN content, Needed \subseteq kept,
             NEW moves \in Injections(kept, Refs), Relocate(moves)
      PROVE  IndexInv'
  BY <1>2, RelocateKept
<1>3. ASSUME NEW key \in Keys, NEW value \in Values, store_map_entry(key, value)
      PROVE  IndexInv'
  BY <1>3, StoreMapEntryKept
<1>4. CASE BeginSizing \/ DoubleCapacity \/ BeginRebuild \/ Reinsert
  BY <1>4, InsertionKept
<1>5. CASE InsertInPlace
  <2>1. /\ store.at # "idle" /\ Publish(map_lookup_index)
        /\ FitsIn(map_lookup_index.size)
    BY <1>5 DEF InsertInPlace
  <2>2. IsTable(map_lookup_index, Len(map_entries))
    BY DEF IndexInv, TypeOK
  <2> QED BY <2>1, <2>2, PublishKept DEF IndexInv
<1>6. CASE InsertRebuilt
  <2>1. /\ store.at # "idle" /\ Publish(store.table)
        /\ store.done = Len(map_entries)
    BY <1>6 DEF InsertRebuilt
  <2>2. /\ IsTable(store.table, store.done)
        /\ PlacedInOrder(store.table, EntryHashes, store.done)
        /\ FitsIn(store.table.size)
    BY <1>6 DEF InsertRebuilt, IndexInv, TypeOK, StoreTypeOK, Idle,
                InsertionIsReady
  <2> QED BY <2>1, <2>2, PublishKept
<1>7. ASSUME NEW result, Read(result)
      PROVE  IndexInv'
  BY <1>7, IdleKept DEF Read
<1>8. CASE UNCHANGED vars
  BY <1>8, IdleKept DEF vars
<1> QED BY <1>1, <1>2, <1>3, <1>4, <1>5, <1>6, <1>7, <1>8
        DEF Next, StoreStep, map_has, map_get, EntryAt

\* The inductive invariant of the index holds for every table, hash function
\* and history.
THEOREM IndexIsInvariant == Spec => []IndexInv
BY InitEstablishesIndexInv, NextKeepsIndexInv, PTL DEF Spec

\* No relocation leaves the map, or a store in progress, with a dead key.
THEOREM MapIsTyped == Spec => []TypeOK
<1>1. IndexInv => TypeOK
  BY DEF IndexInv
<1> QED BY <1>1, IndexIsInvariant, PTL

\* Lookup is exact: find_map_entry finds a key if and only if an entry has
\* its content, and always stops.
THEOREM LookupFindsExactly == Spec => []LookupIsExact
BY IndexIsInvariant, InvariantGivesLookup, PTL

(***************************************************************************)
(* The index implements the ordered dictionary.                            *)
(***************************************************************************)

\* The dictionary's entries.
LEMMA DictTyped ==
  TypeOK =>
    /\ Dict \in Seq(Contents \X Values) /\ Len(Dict) = Len(map_entries)
    /\ \A e \in 1..Len(map_entries) :
         Dict[e] = <<ContentOf(map_entries[e].key), map_entries[e].value>>
<1> SUFFICES ASSUME TypeOK
             PROVE  /\ Dict \in Seq(Contents \X Values)
                    /\ Len(Dict) = Len(map_entries)
                    /\ \A e \in 1..Len(map_entries) :
                         Dict[e] = <<ContentOf(map_entries[e].key),
                                     map_entries[e].value>>
  OBVIOUS
<1> DEFINE n == Len(map_entries)
<1>1. n \in Nat /\ map_entries \in [1..n -> [key : Keys, value : Values]]
  BY EntryTypes
<1>2. \A e \in 1..n :
        Dict[e] = <<ContentOf(map_entries[e].key), map_entries[e].value>>
  BY DEF Dict
<1>3. Dict \in [1..n -> Contents \X Values]
  <2>1. \A e \in 1..n : /\ ContentOf(map_entries[e].key) \in Contents
                        /\ map_entries[e].value \in Values
    BY <1>1, EntryTypes
  <2> QED BY <2>1 DEF Dict
<1>4. Dict \in Seq(Contents \X Values) /\ Len(Dict) = n
  <2> DEFINE T == Contents \X Values
  <2>1. Dict \in [1..n -> T]
    BY <1>3
  <2>2. DOMAIN Dict = 1..n
    BY DEF Dict
  <2> HIDE DEF T
  <2>3. Dict \in UNION {[1..m -> T] : m \in Nat}
    BY <1>1, <2>1
  <2>4. Dict \in Seq(T)
    BY <2>3, SeqDef, Zenon
  <2>5. Len(Dict) = n
    BY <1>1, <2>2, <2>4, LenProperties
  <2> QED BY <2>4, <2>5 DEF T
<1> QED BY <1>2, <1>4

\* The places where the dictionary has a key.
LEMMA DictPositions ==
  ASSUME TypeOK, NEW key \in Keys
  PROVE  Ordered!Positions(ContentOf(key)) =
           {e \in 1..Len(map_entries) :
              map_keys_equal(map_entries[e].key, key)}
BY DictTyped DEF Ordered!Positions, map_keys_equal

\* What a lookup answers is what the dictionary has.
LEMMA LookupMatchesDict ==
  ASSUME IndexInv, NEW key \in Keys
  PROVE  \/ /\ find_map_entry(key) \in 1..Len(map_entries)
            /\ find_map_entry(key) \in Ordered!Positions(ContentOf(key))
         \/ /\ find_map_entry(key) = 0
            /\ Ordered!Positions(ContentOf(key)) = {}
<1>1. LookupIsExact /\ TypeOK
  BY InvariantGivesLookup DEF IndexInv
<1>2. Ordered!Positions(ContentOf(key)) =
        {e \in 1..Len(map_entries) : map_keys_equal(map_entries[e].key, key)}
  BY <1>1, DictPositions
<1> QED BY <1>1, <1>2 DEF LookupIsExact

\* Overwriting is Put of a known key.
LEMMA OverwriteIsPut ==
  ASSUME IndexInv, IndexInv', NEW key \in Keys, NEW value \in Values,
         store_map_entry(key, value),
         find_map_entry(key) \in 1..Len(map_entries)
  PROVE  Ordered!Put(ContentOf(key), value)
<1> DEFINE n == Len(map_entries)
           e == find_map_entry(key)
           k == ContentOf(key)
<1>1. e \in Ordered!Positions(k) /\ e \in 1..n
  BY LookupMatchesDict, EntryTypes DEF IndexInv
<1>2. /\ map_entries' = [map_entries EXCEPT ![e].value = value]
      /\ answer' = <<"none">>
      /\ UNCHANGED <<map_key_is_ref, content>>
  BY <1>1, EntryTypes DEF store_map_entry, IndexInv
<1>3. n \in Nat /\ map_entries \in [1..n -> [key : Keys, value : Values]]
  BY EntryTypes DEF IndexInv
<1> HIDE DEF e, k
<1>4. /\ \A d \in 1..n : map_entries'[d].key = map_entries[d].key
      /\ \A d \in 1..n : map_entries'[d].value =
           IF d = e THEN value ELSE map_entries[d].value
      /\ DOMAIN map_entries' = 1..n
  BY <1>1, <1>2, <1>3
<1>5. Len(map_entries') = n
  <2>1. map_entries' \in Seq([key : Keys', value : Values])
    BY DEF IndexInv, TypeOK
  <2> QED BY <1>3, <1>4, <2>1, LenProperties
<1>6. ContentOf(map_entries[e].key) = k
  <2>1. e \in {d \in 1..n : map_keys_equal(map_entries[d].key, key)}
    BY <1>1, DictPositions DEF k, IndexInv
  <2> QED BY <2>1 DEF map_keys_equal, k
<1>7. Dict' = [d \in 1..n |->
                 IF d = e THEN <<k, value>>
                 ELSE <<ContentOf(map_entries[d].key), map_entries[d].value>>]
  <2>1. Dict' = [d \in 1..n |-> <<ContentOf(map_entries'[d].key),
                                  map_entries'[d].value>>]
    BY <1>2, <1>5 DEF Dict, ContentOf
  <2>2. \A d \in 1..n :
          <<ContentOf(map_entries'[d].key), map_entries'[d].value>> =
            IF d = e THEN <<k, value>>
            ELSE <<ContentOf(map_entries[d].key), map_entries[d].value>>
    BY <1>4, <1>6
  <2> QED BY <2>1, <2>2
<1>8. Dict' = [Dict EXCEPT ![e] = <<k, value>>]
  BY <1>1, <1>7 DEF Dict
<1> QED BY <1>1, <1>2, <1>8 DEF Ordered!Put, k

\* Publishing is Put of a new key.
LEMMA PublishIsPut ==
  ASSUME IndexInv, IndexInv', store.at # "idle", NEW STATE t, Publish(t)
  PROVE  store.key \in Keys /\ store.value \in Values
         /\ Ordered!Put(ContentOf(store.key), store.value)
<1> DEFINE n == Len(map_entries)
           Entry == [key : Keys, value : Values]
           new == [key |-> store.key, value |-> store.value]
           k == ContentOf(store.key)
<1>1. /\ map_entries' = Append(map_entries, new) /\ answer' = <<"none">>
      /\ UNCHANGED <<map_key_is_ref, content>>
  BY DEF Publish
<1>2. store.key \in Keys /\ store.value \in Values
  BY DEF IndexInv, TypeOK, StoreTypeOK, Idle
<1>3. map_entries \in Seq(Entry) /\ n \in Nat /\ new \in Entry
  BY <1>2, EntryTypes DEF IndexInv, TypeOK
<1>4. Ordered!Positions(k) = {}
  <2>1. \A e \in 1..n : ~map_keys_equal(map_entries[e].key, store.key)
    BY DEF IndexInv, InsertionIsReady
  <2> QED BY <1>2, <2>1, DictPositions DEF IndexInv
<1>5. Dict \in Seq(Contents \X Values) /\ Len(Dict) = n
  BY DictTyped DEF IndexInv
<1> HIDE DEF Entry, new
<1>6. /\ Len(map_entries') = n + 1
      /\ \A e \in 1..n : map_entries'[e] = map_entries[e]
      /\ map_entries'[n + 1] = new
  BY <1>1, <1>3
<1>7. Dict' = [e \in 1..(n + 1) |-> IF e = n + 1 THEN <<k, store.value>>
                                    ELSE Dict[e]]
  <2>1. Dict' = [e \in 1..(n + 1) |-> <<ContentOf(map_entries'[e].key),
                                        map_entries'[e].value>>]
    BY <1>1, <1>6 DEF Dict, ContentOf
  <2>2. new.key = store.key /\ new.value = store.value
    BY DEF new
  <2>3. ASSUME NEW e \in 1..(n + 1)
        PROVE  <<ContentOf(map_entries'[e].key), map_entries'[e].value>> =
                 IF e = n + 1 THEN <<k, store.value>> ELSE Dict[e]
    <3>1. CASE e = n + 1
      BY <1>6, <2>2, <3>1
    <3>2. CASE e \in 1..n
      BY <1>3, <1>6, <3>2 DEF Dict
    <3> QED BY <1>3, <3>1, <3>2
  <2> QED BY <2>1, <2>3
<1>8. Dict' = Append(Dict, <<k, store.value>>)
  <2> DEFINE T == Contents \X Values
             added == <<k, store.value>>
  <2>1. added \in T
    BY <1>2, EntryTypes DEF IndexInv
  <2>2. Dict' \in Seq(T) /\ Len(Dict') = n + 1
    <3>1. (TypeOK => Dict \in Seq(Contents \X Values)
                     /\ Len(Dict) = Len(map_entries))'
      BY DictTyped, PTL
    <3> QED BY <1>6, <3>1 DEF IndexInv
  <2>3. Dict \in Seq(T)
    BY <1>5
  <2> HIDE DEF T, added
  <2>4. /\ Append(Dict, added) \in Seq(T) /\ Len(Append(Dict, added)) = n + 1
        /\ \A e \in 1..n : Append(Dict, added)[e] = Dict[e]
        /\ Append(Dict, added)[n + 1] = added
    BY <1>5, <2>1, <2>3, AppendProperties
  <2>5. ASSUME NEW e \in 1..(n + 1) PROVE Dict'[e] = Append(Dict, added)[e]
    <3>1. Dict'[e] = IF e = n + 1 THEN added ELSE Dict[e]
      BY <1>7 DEF added
    <3> QED BY <1>3, <2>4, <3>1
  <2>6. Dict' = Append(Dict, added)
    BY <2>2, <2>4, <2>5, SeqEqual
  <2> QED BY <2>6 DEF added
<1> QED BY <1>1, <1>2, <1>4, <1>7, <1>8 DEF Ordered!Put

\* Every step of the index is a step of the dictionary, or leaves it alone.
LEMMA StepRefines ==
  IndexInv /\ IndexInv' /\ [Next]_vars => [Ordered!Next]_<<Dict, answer>>
<1> SUFFICES ASSUME IndexInv, IndexInv', [Next]_vars
             PROVE  Ordered!Next \/ (Dict' = Dict /\ answer' = answer)
  BY DEF Ordered!Next
<1>0. TypeOK
  BY DEF IndexInv
<1>1. ASSUME NEW r \in Refs, NEW c \in Contents, NewString(r, c)
      PROVE  Dict' = Dict /\ answer' = answer
  BY <1>1, NewStringKept DEF NewString
<1>2. ASSUME NEW kept \in SUBSET DOMAIN content, Needed \subseteq kept,
             NEW moves \in Injections(kept, Refs), Relocate(moves)
      PROVE  Dict' = Dict /\ answer' = answer
  BY <1>2, RelocateKept DEF Relocate
<1>3. ASSUME NEW key \in Keys, NEW value \in Values, store_map_entry(key, value)
      PROVE  Ordered!Next \/ (Dict' = Dict /\ answer' = answer)
  <2>1. CASE find_map_entry(key) \in 1..Len(map_entries)
    <3>1. Ordered!Put(ContentOf(key), value)
      BY <1>3, <2>1, OverwriteIsPut
    <3>2. ContentOf(key) \in Contents
      BY <1>0, EntryTypes
    <3> QED BY <3>1, <3>2 DEF Ordered!Next
  <2>2. CASE UNCHANGED <<map_entries, answer>>
    <3>1. UNCHANGED <<map_key_is_ref, content, map_entries, map_lookup_index>>
      BY <1>3, <2>2 DEF store_map_entry
    <3> QED BY <2>2, <3>1, SameMap
  <2> QED BY <1>3, <2>1, <2>2 DEF store_map_entry
<1>4. CASE BeginSizing \/ DoubleCapacity \/ BeginRebuild \/ Reinsert
  <2>1. UNCHANGED <<map_key_is_ref, content, map_entries, map_lookup_index,
                    answer>>
    BY <1>4 DEF BeginSizing, DoubleCapacity, BeginRebuild, Reinsert
  <2> QED BY <2>1, SameMap
<1>5. CASE InsertInPlace \/ InsertRebuilt
  <2>1. /\ store.at # "idle"
        /\ Publish(map_lookup_index) \/ Publish(store.table)
    BY <1>5 DEF InsertInPlace, InsertRebuilt
  <2>2. /\ store.key \in Keys /\ store.value \in Values
        /\ Ordered!Put(ContentOf(store.key), store.value)
    BY <2>1, PublishIsPut
  <2>3. ContentOf(store.key) \in Contents
    BY <1>0, <2>2, EntryTypes
  <2> QED BY <2>2, <2>3 DEF Ordered!Next
<1>6. ASSUME NEW key \in Keys, map_has(key) \/ map_get(key)
      PROVE  Ordered!Next
  <2> DEFINE k == ContentOf(key)
             e == find_map_entry(key)
  <2>1. Dict' = Dict /\ k \in Contents
    BY <1>0, <1>6, EntryTypes, SameMap DEF map_has, map_get, Read
  <2>2. \/ e \in 1..Len(map_entries) /\ e \in Ordered!Positions(k) /\ e # 0
        \/ e = 0 /\ Ordered!Positions(k) = {} /\ e \notin 1..Len(map_entries)
    BY <1>0, EntryTypes, LookupMatchesDict
  <2> HIDE DEF e, k
  <2>3. CASE map_has(key)
    <3>1. answer' = <<IF e = 0 THEN "absent" ELSE "present">>
      BY <2>3 DEF map_has, Read, e
    <3>2. Ordered!Has(k)
      BY <2>1, <2>2, <3>1 DEF Ordered!Has
    <3> QED BY <2>1, <3>2 DEF Ordered!Next
  <2>4. CASE map_get(key)
    <3>1. answer' = IF e \in 1..Len(map_entries)
                    THEN <<"value", map_entries[e].value>>
                    ELSE <<"not found">>
      BY <2>4 DEF map_get, Read, e
    <3>2. e \in 1..Len(map_entries) => Dict[e][2] = map_entries[e].value
      BY <1>0, DictTyped
    <3>3. Ordered!Get(k)
      BY <2>1, <2>2, <3>1, <3>2 DEF Ordered!Get
    <3> QED BY <2>1, <3>3 DEF Ordered!Next
  <2> QED BY <1>6, <2>3, <2>4
<1>7. ASSUME NEW position \in 1..(MaxEntries + 1), EntryAt(position)
      PROVE  Ordered!Next
  <2>1. Dict' = Dict
    BY <1>7, SameMap DEF EntryAt, Read
  <2>2. answer' = IF position <= Len(map_entries)
                  THEN <<"entry", ContentOf(map_entries[position].key),
                         map_entries[position].value>>
                  ELSE <<"out of range">>
    BY <1>7 DEF EntryAt, Read
  <2>3. /\ Len(Dict) = Len(map_entries) /\ Len(map_entries) \in Nat
        /\ position <= Len(map_entries) =>
             Dict[position] = <<ContentOf(map_entries[position].key),
                                map_entries[position].value>>
    BY <1>0, DictTyped, EntryTypes
  <2>4. answer' = IF position <= Len(Dict)
                  THEN <<"entry", Dict[position][1], Dict[position][2]>>
                  ELSE <<"out of range">>
    <3>1. CASE position <= Len(map_entries)
      BY <2>2, <2>3, <3>1
    <3>2. CASE ~(position <= Len(map_entries))
      BY <2>2, <2>3, <3>2
    <3> QED BY <3>1, <3>2
  <2>5. Ordered!At(position)
    BY <2>1, <2>4, Zenon DEF Ordered!At
  <2> QED BY <2>5 DEF Ordered!Next
<1>8. CASE UNCHANGED vars
  BY <1>8, SameMap DEF vars
<1> QED BY <1>1, <1>2, <1>3, <1>4, <1>5, <1>6, <1>7, <1>8 DEF Next, StoreStep

\* The map object is an ordered dictionary keyed by content, for every hash
\* function and every placement of its string keys.
THEOREM MapImplementsDictionary == Spec => IsOrderedMap
<1>1. Init => Ordered!Init
  BY DEF Init, Ordered!Init, Dict
<1>2. IndexInv /\ IndexInv' /\ [Next]_vars => [Ordered!Next]_<<Dict, answer>>
  BY StepRefines
<1> QED BY <1>1, <1>2, IndexIsInvariant, PTL DEF Spec, IsOrderedMap, Ordered!Spec

(***************************************************************************)
(* The capacity of the index.                                              *)
(***************************************************************************)
\* Induction on the naturals, for a set.
LEMMA Induction ==
  ASSUME NEW S, 0 \in S, \A k \in Nat : k \in S => k + 1 \in S
  PROVE  Nat \subseteq S
<1> SUFFICES ASSUME Nat \ S # {} PROVE FALSE
  OBVIOUS
<1> DEFINE k == First(Nat \ S)
<1>1. k \in Nat \ S /\ \A j \in Nat \ S : k <= j
  BY LeastNatural
<1> HIDE DEF k
<1>2. k # 0
  BY <1>1
<1>3. k - 1 \in Nat /\ k - 1 < k
  BY <1>1, <1>2
<1>4. k - 1 \in S
  BY <1>1, <1>3
<1>5. (k - 1) + 1 = k
  BY <1>1
<1> QED BY <1>1, <1>3, <1>4, <1>5

\* The first n + 1 doublings of the minimum.
Doubles(f, n) ==
  /\ f \in [0..n -> Nat]
  /\ f[0] = MinCapacity
  /\ \A k \in 0..n : k < n => f[k + 1] = 2 * f[k]

LEMMA DoublesAgree ==
  ASSUME NEW f, NEW g, NEW n \in Nat, NEW m \in Nat, Doubles(f, n), Doubles(g, m)
  PROVE  \A k \in Nat : k <= n /\ k <= m => f[k] = g[k]
<1> DEFINE S == {k \in Nat : k <= n /\ k <= m => f[k] = g[k]}
<1>1. 0 \in S
  BY DEF Doubles
<1>2. ASSUME NEW k \in Nat, k \in S PROVE k + 1 \in S
  <2> SUFFICES ASSUME k + 1 <= n, k + 1 <= m PROVE f[k + 1] = g[k + 1]
    OBVIOUS
  <2>1. k \in 0..n /\ k < n /\ k \in 0..m /\ k < m
    OBVIOUS
  <2>2. f[k + 1] = 2 * f[k] /\ g[k + 1] = 2 * g[k]
    BY <2>1 DEF Doubles
  <2> QED BY <1>2, <2>1, <2>2
<1> HIDE DEF S
<1>3. Nat \subseteq S
  BY <1>1, <1>2, Induction
<1> QED BY <1>3 DEF S

LEMMA DoublesExist == \A n \in Nat : \E f : Doubles(f, n)
<1> DEFINE S == {n \in Nat : \E f : Doubles(f, n)}
<1>1. 0 \in S
  <2>1. Doubles([k \in 0..0 |-> MinCapacity], 0)
    BY MinCapacityAssumption DEF Doubles
  <2> QED BY <2>1
<1>2. ASSUME NEW n \in Nat, n \in S PROVE n + 1 \in S
  <2>1. PICK f : Doubles(f, n)
    BY <1>2
  <2> DEFINE g == [k \in 0..(n + 1) |-> IF k = n + 1 THEN 2 * f[n] ELSE f[k]]
  <2>2. /\ f \in [0..n -> Nat] /\ f[0] = MinCapacity
        /\ \A k \in 0..n : k < n => f[k + 1] = 2 * f[k]
    BY <2>1 DEF Doubles
  <2>3. ASSUME NEW k \in 0..(n + 1) PROVE g[k] \in Nat
    <3>1. k = n + 1 \/ k \in 0..n
      OBVIOUS
    <3>2. f[n] \in Nat
      BY <2>2
    <3> QED BY <2>2, <3>1, <3>2
  <2>4. g[0] = MinCapacity
    BY <2>2
  <2>5. ASSUME NEW k \in 0..(n + 1), k < n + 1 PROVE g[k + 1] = 2 * g[k]
    <3>1. k \in 0..n /\ k # n + 1 /\ k + 1 \in 0..(n + 1)
      BY <2>5
    <3>2. CASE k = n
      BY <3>1, <3>2
    <3>3. CASE k < n
      BY <2>2, <3>1, <3>3
    <3> QED BY <3>1, <3>2, <3>3
  <2>6. Doubles(g, n + 1)
    BY <2>3, <2>4, <2>5 DEF Doubles
  <2> QED BY <2>6
<1> HIDE DEF S
<1>3. Nat \subseteq S
  BY <1>1, <1>2, Induction
<1> QED BY <1>3 DEF S

\* The recursive function is the sequence of doublings.
LEMMA DoubledUnfolds ==
  /\ Doubled \in [Nat -> Nat]
  /\ Doubled[0] = MinCapacity
  /\ \A k \in Nat : Doubled[k + 1] = 2 * Doubled[k]
<1> DEFINE d(n) == CHOOSE f : Doubles(f, n)
           g == [n \in Nat |-> d(n)[n]]
<1>1. \A n \in Nat : Doubles(d(n), n)
  BY DoublesExist
<1> HIDE DEF d
<1>2. \A n \in Nat : d(n)[n] \in Nat
  BY <1>1 DEF Doubles
<1>3. d(0)[0] = MinCapacity
  BY <1>1 DEF Doubles
<1>4. ASSUME NEW n \in Nat PROVE d(n + 1)[n + 1] = 2 * d(n)[n]
  <2>1. Doubles(d(n), n) /\ Doubles(d(n + 1), n + 1) /\ n + 1 \in Nat
    BY <1>1
  <2>2. d(n + 1)[n] = d(n)[n]
    BY <2>1, DoublesAgree
  <2>3. n \in 0..(n + 1) /\ n < n + 1
    OBVIOUS
  <2> QED BY <2>1, <2>2, <2>3 DEF Doubles
<1>5. /\ g \in [Nat -> Nat] /\ g[0] = MinCapacity
      /\ \A n \in Nat : g[n + 1] = 2 * g[n]
  BY <1>2, <1>3, <1>4
<1> HIDE DEF g
<1>6. g = [k \in Nat |-> IF k = 0 THEN MinCapacity ELSE 2 * g[k - 1]]
  <2>1. ASSUME NEW k \in Nat
        PROVE  g[k] = IF k = 0 THEN MinCapacity ELSE 2 * g[k - 1]
    <3>1. CASE k = 0
      BY <1>5, <3>1
    <3>2. CASE k # 0
      <4>1. k - 1 \in Nat /\ (k - 1) + 1 = k
        BY <3>2
      <4>2. g[(k - 1) + 1] = 2 * g[k - 1]
        BY <1>5, <4>1
      <4> QED BY <3>2, <4>1, <4>2
    <3> QED BY <3>1, <3>2
  <2>2. g = [k \in Nat |-> g[k]]
    BY <1>5
  <2> QED BY <2>1, <2>2
<1>7. Doubled = [k \in Nat |-> IF k = 0 THEN MinCapacity ELSE 2 * Doubled[k - 1]]
  BY <1>6 DEF Doubled
<1>8. Doubled[0] = MinCapacity
  BY <1>7
<1>9. ASSUME NEW k \in Nat PROVE Doubled[k + 1] = 2 * Doubled[k]
  <2>1. k + 1 \in Nat /\ k + 1 # 0 /\ (k + 1) - 1 = k
    OBVIOUS
  <2>2. Doubled[k + 1] = 2 * Doubled[(k + 1) - 1]
    BY <1>7, <2>1
  <2> QED BY <2>1, <2>2
<1>10. \A k \in Nat : Doubled[k] \in Nat
  <2> DEFINE S == {k \in Nat : Doubled[k] \in Nat}
  <2>1. 0 \in S
    BY <1>8, MinCapacityAssumption
  <2>2. \A k \in Nat : k \in S => k + 1 \in S
    BY <1>9
  <2> HIDE DEF S
  <2>3. Nat \subseteq S
    BY <2>1, <2>2, Induction
  <2> QED BY <2>3 DEF S
<1>11. DOMAIN Doubled = Nat /\ Doubled = [k \in Nat |-> Doubled[k]]
  BY <1>7
<1> QED BY <1>8, <1>9, <1>10, <1>11

\* Doublings grow, at least by two each time.
LEMMA DoubledGrows ==
  /\ \A k \in Nat : Doubled[k] \in Nat /\ Doubled[k] >= 2 * k + 2
  /\ \A j, k \in Nat : j <= k => Doubled[j] <= Doubled[k]
<1>1. ASSUME NEW k \in Nat PROVE Doubled[k] \in Nat /\ Doubled[k + 1] = 2 * Doubled[k]
  BY DoubledUnfolds
<1>2. \A k \in Nat : Doubled[k] >= 2 * k + 2
  <2> DEFINE S == {k \in Nat : Doubled[k] >= 2 * k + 2}
  <2>1. 0 \in S
    BY DoubledUnfolds, MinCapacityAssumption
  <2>2. \A k \in Nat : k \in S => k + 1 \in S
    BY <1>1
  <2> HIDE DEF S
  <2>3. Nat \subseteq S
    BY <2>1, <2>2, Induction
  <2> QED BY <2>3 DEF S
<1>3. ASSUME NEW j \in Nat PROVE \A k \in Nat : j <= k => Doubled[j] <= Doubled[k]
  <2> DEFINE S == {k \in Nat : j <= k => Doubled[j] <= Doubled[k]}
  <2>1. 0 \in S
    BY <1>1
  <2>2. ASSUME NEW k \in Nat, k \in S PROVE k + 1 \in S
    <3>1. j <= k + 1 => j <= k \/ j = k + 1
      OBVIOUS
    <3>2. Doubled[k] <= Doubled[k + 1] /\ Doubled[j] \in Nat /\ Doubled[k + 1] \in Nat /\ Doubled[k] \in Nat
      BY <1>1
    <3> QED BY <2>2, <3>1, <3>2
  <2> HIDE DEF S
  <2>3. Nat \subseteq S
    BY <2>1, <2>2, Induction
  <2> QED BY <2>3 DEF S
<1> QED BY <1>1, <1>2, <1>3

\* A capacity that the loop has reached and that fits is the one for the
\* entries there will be.
LEMMA ReachedIsCapacity ==
  ASSUME NEW n \in Nat, Len(map_entries) = n, NEW c, Reached(c), FitsIn(c)
  PROVE  c = IndexCapacity(n + 1)
<1> DEFINE S == {e \in {Doubled[k] : k \in 0..(n + 1)} : n + 1 <= e \div 2}
<1>1. PICK k \in 0..(n + 1) : c = Doubled[k] /\ \A j \in 0..(k - 1) : ~FitsIn(Doubled[j])
  BY DEF Reached
<1>2. c \in S
  BY <1>1 DEF FitsIn
<1>3. ASSUME NEW e \in S PROVE c <= e
  <2>1. PICK j \in 0..(n + 1) : e = Doubled[j]
    OBVIOUS
  <2>2. FitsIn(Doubled[j])
    BY <2>1 DEF FitsIn
  <2>3. j \notin 0..(k - 1)
    BY <1>1, <2>2
  <2>4. j \in Nat /\ k \in Nat /\ k <= j
    BY <2>3
  <2> QED BY <1>1, <2>1, <2>4, DoubledGrows
<1>4. ASSUME NEW e \in S PROVE e \in Nat
  <2>1. PICK j \in 0..(n + 1) : e = Doubled[j]
    OBVIOUS
  <2>2. j \in Nat
    OBVIOUS
  <2> QED BY <2>1, <2>2, DoubledGrows
<1> HIDE DEF S
<1>5. \A i \in S : (\A j \in S : i <= j) => i = c
  BY <1>2, <1>3, <1>4
<1>6. First(S) = c
  BY <1>2, <1>3, <1>5 DEF First
<1> QED BY <1>6 DEF IndexCapacity, S

\* A step that leaves the number of entries, the index and the capacity of
\* the call in progress alone.
LEMMA CapacityKept ==
  ASSUME CapacityInv, map_lookup_index' = map_lookup_index,
         Len(map_entries') = Len(map_entries),
         store'.at = "sizing" => Reached(store'.capacity),
         store'.at = "rebuilding" => Reached(store'.table.size)
  PROVE  CapacityInv'
<1>1. \A c : Reached(c)' <=> Reached(c)
  BY DEF Reached, FitsIn
<1>2. IndexCapacity(Len(map_entries))' = IndexCapacity(Len(map_entries))
  BY DEF IndexCapacity
<1> QED BY <1>1, <1>2 DEF CapacityInv

\* The published index has the capacity of the entries there are now.
LEMMA PublishGivesCapacity ==
  ASSUME IndexInv, CapacityInv, store.at # "idle", NEW STATE t,
         IsTable(t, Len(map_entries)), FitsIn(t.size), Reached(t.size), Publish(t),
         PlacedInOrder(t, EntryHashes, Len(map_entries))
  PROVE  CapacityInv'
<1> DEFINE n == Len(map_entries)
<1>1. /\ map_lookup_index' = Insert(t, map_key_hash(store.key), n + 1)
      /\ map_entries' = Append(map_entries, [key |-> store.key, value |-> store.value])
      /\ store' = Idle
  BY DEF Publish
<1>2. n \in Nat /\ map_entries \in Seq([key : Keys, value : Values])
  BY EntryTypes DEF IndexInv, TypeOK
<1>3. Len(map_entries') = n + 1
  <2>1. store.key \in Keys /\ store.value \in Values
    BY DEF IndexInv, TypeOK, StoreTypeOK, Idle
  <2> DEFINE new == [key |-> store.key, value |-> store.value]
  <2>2. new \in [key : Keys, value : Values]
    BY <2>1
  <2> HIDE DEF new
  <2>3. map_entries' = Append(map_entries, new)
    BY <1>1 DEF new
  <2> QED BY <1>2, <2>2, <2>3
<1>4. map_lookup_index'.size = t.size
  BY <1>1 DEF Insert, IsTable
<1>5. t.size = IndexCapacity(n + 1)
  BY <1>2, ReachedIsCapacity
<1>6. IndexCapacity(Len(map_entries))' = IndexCapacity(n + 1)
  BY <1>3 DEF IndexCapacity
<1>7. store'.at = "idle"
  BY <1>1 DEF Idle
<1> QED BY <1>4, <1>5, <1>6, <1>7 DEF CapacityInv

\* The steps of an insertion before it publishes.
LEMMA SizingKept ==
  ASSUME IndexInv, CapacityInv, BeginSizing \/ DoubleCapacity \/ BeginRebuild \/ Reinsert
  PROVE  CapacityInv'
<1> DEFINE n == Len(map_entries)
<1>1. /\ map_entries' = map_entries /\ map_lookup_index' = map_lookup_index
      /\ n \in Nat
  BY EntryTypes DEF IndexInv, BeginSizing, DoubleCapacity, BeginRebuild, Reinsert
<1>2. CASE BeginSizing
  <2>1. store'.at = "sizing" /\ store'.capacity = MinCapacity
    BY <1>2 DEF BeginSizing
  <2>2. 0 \in 0..(n + 1) /\ Doubled[0] = MinCapacity /\ \A j \in 0..(0 - 1) : FALSE
    BY <1>1, DoubledUnfolds
  <2>3. Reached(store'.capacity)
    BY <2>1, <2>2 DEF Reached
  <2> QED BY <1>1, <2>1, <2>3, CapacityKept
<1>3. CASE DoubleCapacity
  <2>1. /\ store.at = "sizing" /\ ~FitsIn(store.capacity)
        /\ store = [at |-> "sizing", key |-> store.key, value |-> store.value,
                    capacity |-> store.capacity]
    BY <1>3 DEF DoubleCapacity, IndexInv, TypeOK, StoreTypeOK, Idle
  <2>2. store'.at = "sizing" /\ store'.capacity = 2 * store.capacity
    BY <1>3, <2>1 DEF DoubleCapacity
  <2>3. PICK k \in 0..(n + 1) :
          store.capacity = Doubled[k] /\ \A j \in 0..(k - 1) : ~FitsIn(Doubled[j])
    BY <2>1 DEF CapacityInv, Reached
  <2>4. k \in Nat /\ Doubled[k] \in Nat /\ Doubled[k] >= 2 * k + 2
    BY <2>3, DoubledGrows
  <2>5. k + 1 \in 0..(n + 1)
    BY <1>1, <2>1, <2>3, <2>4 DEF FitsIn
  <2>6. Doubled[k + 1] = store'.capacity
    BY <2>2, <2>3, <2>4, DoubledUnfolds
  <2>7. \A j \in 0..((k + 1) - 1) : ~FitsIn(Doubled[j])
    <3>1. \A j \in 0..((k + 1) - 1) : j = k \/ j \in 0..(k - 1)
      BY <2>4
    <3> QED BY <2>1, <2>3, <3>1
  <2>8. Reached(store'.capacity)
    BY <2>5, <2>6, <2>7 DEF Reached
  <2> QED BY <1>1, <2>2, <2>8, CapacityKept
<1>4. CASE BeginRebuild
  <2>1. /\ store.at = "sizing" /\ store'.at = "rebuilding"
        /\ store'.table.size = store.capacity
    BY <1>4 DEF BeginRebuild, EmptyTable
  <2>2. Reached(store'.table.size)
    BY <2>1 DEF CapacityInv
  <2> QED BY <1>1, <2>1, <2>2, CapacityKept
<1>5. CASE Reinsert
  <2>1. /\ store.at = "rebuilding" /\ store'.at = "rebuilding"
        /\ store'.table = Insert(store.table, EntryHashes[store.done + 1], store.done + 1)
    BY <1>5 DEF Reinsert
  <2>2. IsTable(store.table, store.done)
    BY <2>1 DEF IndexInv, TypeOK, StoreTypeOK, Idle
  <2>3. store'.table.size = store.table.size
    BY <2>1, <2>2 DEF Insert, IsTable
  <2>4. Reached(store'.table.size)
    BY <2>1, <2>3 DEF CapacityInv
  <2> QED BY <1>1, <2>1, <2>4, CapacityKept
<1> QED BY <1>2, <1>3, <1>4, <1>5

\* A step that leaves the store in progress alone, or starts one.
LEMMA OtherStepKeepsCapacity ==
  ASSUME CapacityInv, map_lookup_index' = map_lookup_index,
         Len(map_entries') = Len(map_entries),
         store' = store \/ store'.at = "growing"
  PROVE  CapacityInv'
<1>1. store'.at = "sizing" => Reached(store'.capacity)
  BY DEF CapacityInv
<1>2. store'.at = "rebuilding" => Reached(store'.table.size)
  BY DEF CapacityInv
<1> QED BY <1>1, <1>2, CapacityKept

LEMMA InitEstablishesCapacityInv == Init => CapacityInv
<1> SUFFICES ASSUME Init PROVE CapacityInv
  OBVIOUS
<1>1. map_entries = << >> /\ map_lookup_index.size = 0 /\ store.at = "idle"
  BY DEF Init, EmptyTable, Idle
<1>2. Len(map_entries) = 0
  BY <1>1
<1> QED BY <1>1, <1>2 DEF CapacityInv, IndexCapacity

LEMMA NextKeepsCapacityInv == IndexInv /\ CapacityInv /\ [Next]_vars => CapacityInv'
<1> SUFFICES ASSUME IndexInv, CapacityInv, [Next]_vars PROVE CapacityInv'
  OBVIOUS
<1>1. ASSUME NEW r \in Refs, NEW c \in Contents, NewString(r, c)
      PROVE  CapacityInv'
  BY <1>1, OtherStepKeepsCapacity DEF NewString
<1>2. ASSUME NEW moves, Relocate(moves) PROVE CapacityInv'
  <2>1. Len(map_entries) \in Nat
    BY EntryTypes DEF IndexInv
  <2>2. Len(map_entries') = Len(map_entries)
    BY <1>2, <2>1 DEF Relocate
  <2>3. map_lookup_index' = map_lookup_index /\ (store' = store \/ store'.at = "growing")
    BY <1>2 DEF Relocate
  <2> QED BY <2>2, <2>3, OtherStepKeepsCapacity
<1>3. ASSUME NEW key \in Keys, NEW value \in Values, store_map_entry(key, value)
      PROVE  CapacityInv'
  <2>1. map_entries \in Seq([key : Keys, value : Values])
    BY DEF IndexInv, TypeOK
  <2>2. Len(map_entries') = Len(map_entries)
    BY <1>3, <2>1 DEF store_map_entry
  <2>3. map_lookup_index' = map_lookup_index /\ (store' = store \/ store'.at = "growing")
    BY <1>3 DEF store_map_entry
  <2> QED BY <2>2, <2>3, OtherStepKeepsCapacity
<1>4. CASE BeginSizing \/ DoubleCapacity \/ BeginRebuild \/ Reinsert
  BY <1>4, SizingKept
<1>5. CASE InsertInPlace
  <2>1. /\ store.at = "sizing" /\ Publish(map_lookup_index)
        /\ FitsIn(map_lookup_index.size) /\ map_lookup_index.size = store.capacity
    BY <1>5 DEF InsertInPlace
  <2>2. Reached(map_lookup_index.size)
    BY <2>1 DEF CapacityInv
  <2> QED BY <2>1, <2>2, PublishGivesCapacity DEF IndexInv, TypeOK
<1>6. CASE InsertRebuilt
  <2>1. /\ store.at = "rebuilding" /\ Publish(store.table)
        /\ store.done = Len(map_entries)
    BY <1>6 DEF InsertRebuilt
  <2>2. /\ IsTable(store.table, store.done)
        /\ PlacedInOrder(store.table, EntryHashes, store.done)
        /\ FitsIn(store.table.size)
    BY <2>1 DEF IndexInv, TypeOK, StoreTypeOK, Idle, InsertionIsReady
  <2>3. Reached(store.table.size)
    BY <2>1 DEF CapacityInv
  <2> QED BY <2>1, <2>2, <2>3, PublishGivesCapacity
<1>7. ASSUME NEW result, Read(result) PROVE CapacityInv'
  BY <1>7, OtherStepKeepsCapacity DEF Read
<1>8. CASE UNCHANGED vars
  BY <1>8, OtherStepKeepsCapacity DEF vars
<1> QED BY <1>1, <1>2, <1>3, <1>4, <1>5, <1>6, <1>7, <1>8
        DEF Next, StoreStep, map_has, map_get, EntryAt

\* validate_map_lookup_index never throws: the index has exactly the capacity
\* of its entry count, and every entry is where an ordered rebuild puts it.
THEOREM IndexStaysValid == Spec => []IndexValidates
<1>1. Init => CapacityInv
  BY InitEstablishesCapacityInv
<1>2. IndexInv /\ CapacityInv => IndexValidates
  BY DEF IndexInv, CapacityInv, IndexValidates
<1> QED BY <1>1, <1>2, IndexIsInvariant, NextKeepsCapacityInv, PTL DEF Spec

=============================================================================
