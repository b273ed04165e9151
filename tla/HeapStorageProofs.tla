-------------------------- MODULE HeapStorageProofs --------------------------
(***************************************************************************)
(* What HeapStorage guarantees for every set of objects, every set of      *)
(* widths and every slot limit.                                            *)
(***************************************************************************)
EXTENDS HeapStorage, TLAPS

\* What holds between any two steps of a compaction: the moved runs end at
\* the cursor, no survivor that is still to be moved starts before it, and
\* forwarding leads to moved survivors only.
Frontier ==
  /\ phase = "idle" => pending = {} /\ forwarding = {}
  /\ phase = "compacting" => /\ \A b \in bases \ pending : b + width[b] <= dest
                             /\ \A b \in pending : dest <= b
                             /\ \A f \in forwarding : f[3] \notin pending

Layout == TypeOK /\ RunsAreDisjoint /\ Frontier

(***************************************************************************)
(* Lemmas about the operators.                                             *)
(***************************************************************************)

\* A free run of positive width meets no other run.
LEMMA FreeRunIsDisjoint ==
  ASSUME TypeOK, NEW b \in 0 .. size - 1, NEW w \in Nat \ {0}, FreeRun(b, w)
  PROVE  /\ b + w <= size
         /\ b \notin bases
         /\ \A a \in bases : a + width[a] <= b \/ b + w <= a
<1>1. b + w - 1 \in b .. b + w - 1 /\ b \in b .. b + w - 1
  BY DEF TypeOK
<1>2. b + w <= size
  <2>1. is_storage_slot_free(b + w - 1)
    BY <1>1 DEF FreeRun
  <2>2. QED BY <2>1 DEF is_storage_slot_free, TypeOK
<1>3. ASSUME NEW a \in bases
      PROVE  a # b /\ (a + width[a] <= b \/ b + w <= a)
  <2>1. width[a] \in Nat \ {0} /\ a \in Nat
    BY <1>3 DEF TypeOK
  <2>2. b < a \/ a + width[a] <= b
    BY <1>1, <1>3 DEF FreeRun, is_storage_slot_free
  <2>3. CASE a + width[a] <= b
    BY <2>1, <2>3
  <2>4. CASE b < a
    <3>1. SUFFICES ASSUME a < b + w PROVE FALSE
      BY <2>1, <2>4
    <3>2. a \in b .. b + w - 1
      BY <2>1, <2>4, <3>1
    <3>3. QED BY <1>3, <2>1, <3>2 DEF FreeRun, is_storage_slot_free
  <2>5. QED BY <2>2, <2>3, <2>4
<1>4. QED BY <1>2, <1>3

\* The run after the last slot of b, up to width w, meets no other run.
LEMMA AdjacentRunIsDisjoint ==
  ASSUME TypeOK, RunsAreDisjoint, NEW b \in bases, NEW w \in Nat \ {0},
         w > width[b], AdjacentRunIsFree(b, w)
  PROVE  \A a \in bases : b < a => b + w <= a
<1>1. SUFFICES ASSUME NEW a \in bases, b < a, a < b + w PROVE FALSE
  BY DEF TypeOK
<1>2. a \in b + width[b] .. b + w - 1 /\ a < size
  BY <1>1 DEF TypeOK, RunsAreDisjoint
<1>3. is_storage_slot_free(a)
  BY <1>2 DEF AdjacentRunIsFree
<1>4. QED BY <1>1, <1>3 DEF is_storage_slot_free, TypeOK

(***************************************************************************)
(* Types and layout.                                                       *)
(***************************************************************************)
LEMMA GenerationType == TypeOK => \A s \in Nat : Generation(s) \in Nat
BY DEF TypeOK, Generation

LEMMA IdType ==
  ASSUME NEW slot \in Nat, NEW g \in Nat, NEW o \in Tenants
  PROVE  make_object_id(slot, g, o) \in Nat \X Nat \X Tenants
<1>1. Truncated(slot) \in Nat
  BY SlotLimitAssumption DEF Truncated
<1>2. QED BY <1>1 DEF make_object_id

LEMMA MintedType ==
  ASSUME TypeOK, NEW b \in Nat, NEW n \in Nat
  PROVE  Minted(b, n) \in [0 .. n - 1 -> Nat]
BY GenerationType DEF Minted

\* Installing one run keeps the types of the header functions.
LEMMA InstallType ==
  ASSUME TypeOK, NEW n \in Nat, n >= size, NEW b \in 0 .. n - 1, NEW o \in Tenants,
         NEW w \in Nat \ {0}, NEW old \in SUBSET bases, Install(b, o, w, old, n)
  PROVE  /\ size' \in Nat
         /\ bases' \subseteq 0 .. size' - 1
         /\ tenant' \in [bases' -> Tenants]
         /\ width' \in [bases' -> Nat \ {0}]
<1>1. bases \subseteq 0 .. n - 1
  BY DEF TypeOK
<1>2. tenant \in [bases -> Tenants] /\ width \in [bases -> Nat \ {0}]
  BY DEF TypeOK
<1>3. QED BY <1>1, <1>2 DEF Install

LEMMA InitLayout == Init => Layout
BY DEF Init, Layout, TypeOK, RunsAreDisjoint, Frontier

\* Installing a run that meets no other keeps the runs disjoint.
LEMMA InstallDisjoint ==
  ASSUME TypeOK, RunsAreDisjoint, NEW n \in Nat, n >= size, NEW b \in Nat, NEW o,
         NEW w \in Nat \ {0}, NEW old \in SUBSET bases, Install(b, o, w, old, n),
         b + w <= n,
         \A a \in bases \ old : a # b => a + width[a] <= b \/ b + w <= a
  PROVE  RunsAreDisjoint'
<1>1. \A a \in bases : a \in Nat /\ width[a] \in Nat \ {0}
  BY DEF TypeOK
<1>2. bases' = (bases \ old) \cup {b} /\ size' = n
  BY DEF Install
<1>3. width'[b] = w /\ \A a \in bases \ old : a # b => width'[a] = width[a]
  BY DEF Install
<1>4. ASSUME NEW a \in bases' PROVE a + width'[a] <= size'
  BY <1>1, <1>2, <1>3, <1>4 DEF RunsAreDisjoint, TypeOK
<1>5. ASSUME NEW a \in bases', NEW c \in bases', a < c PROVE a + width'[a] <= c
  BY <1>1, <1>2, <1>3, <1>5 DEF RunsAreDisjoint
<1>6. QED BY <1>4, <1>5 DEF RunsAreDisjoint

LEMMA AllocateLayout == ASSUME Layout, allocate_object PROVE Layout'
<1>1. PICK o \in Tenants \ alive, w \in Widths :
        /\ phase = "idle"
        /\ AllocateInHole(o, w) \/ AllocateAtEnd(o, w)
        /\ alive' = alive \cup {o}
        /\ UNCHANGED <<phase, pending, dest, forwarding>>
  BY DEF allocate_object
<1>2. w \in Nat \ {0}
  BY WidthsAssumption
<1>3. pending' = {} /\ forwarding' = {} /\ phase' = "idle" /\ dest' \in Nat
  BY <1>1 DEF Layout, Frontier, TypeOK
<1>4. CASE AllocateInHole(o, w)
  <2>1. PICK b \in 0 .. size - 1 :
          /\ FreeRun(b, w)
          /\ Install(b, o, w, {}, size)
          /\ generations' = Minted(b, size)
          /\ issued' = issued \cup {make_object_id(b, Generation(b) + 1, o)}
    BY <1>4 DEF AllocateInHole
  <2>2. /\ b + w <= size
        /\ \A a \in bases : a + width[a] <= b \/ b + w <= a
    BY <1>2, <2>1, FreeRunIsDisjoint DEF Layout
  <2>3. b \in Nat /\ size \in Nat /\ {} \in SUBSET bases
    BY DEF Layout, TypeOK
  <2>4. /\ size' \in Nat
        /\ bases' \subseteq 0 .. size' - 1
        /\ tenant' \in [bases' -> Tenants]
        /\ width' \in [bases' -> Nat \ {0}]
    BY <1>2, <2>1, <2>3, InstallType DEF Layout
  <2>5. generations' \in [0 .. size' - 1 -> Nat] /\ size' = size
    BY <2>1, <2>3, MintedType DEF Layout, Install
  <2>6. issued' \subseteq Nat \X Nat \X Tenants
    <3>1. Generation(b) + 1 \in Nat
      BY <2>3, GenerationType DEF Layout
    <3>2. QED BY <2>1, <2>3, <3>1, IdType DEF Layout, TypeOK
  <2>7. RunsAreDisjoint'
    BY <1>2, <2>1, <2>2, <2>3, InstallDisjoint DEF Layout
  <2>8. QED BY <1>1, <1>3, <2>4, <2>5, <2>6, <2>7 DEF Layout, Frontier, TypeOK
<1>5. CASE AllocateAtEnd(o, w)
  <2>1. /\ Install(size, o, w, {}, size + w)
        /\ generations' = Minted(size, size + w)
        /\ issued' = issued \cup {make_object_id(size, 1, o)}
    BY <1>5 DEF AllocateAtEnd
  <2>2. /\ size \in Nat /\ size + w \in Nat /\ size + w >= size
        /\ size \in 0 .. (size + w) - 1 /\ {} \in SUBSET bases
    BY <1>2 DEF Layout, TypeOK
  <2>3. /\ size' \in Nat
        /\ bases' \subseteq 0 .. size' - 1
        /\ tenant' \in [bases' -> Tenants]
        /\ width' \in [bases' -> Nat \ {0}]
    BY <1>2, <2>1, <2>2, InstallType DEF Layout
  <2>4. generations' \in [0 .. size' - 1 -> Nat]
    BY <2>1, <2>2, MintedType DEF Layout, Install
  <2>5. issued' \subseteq Nat \X Nat \X Tenants
    BY <2>1, <2>2, IdType DEF Layout, TypeOK
  <2>6. RunsAreDisjoint'
    <3>1. \A a \in bases : a + width[a] <= size
      BY DEF Layout, RunsAreDisjoint
    <3>2. QED BY <1>2, <2>1, <2>2, <3>1, InstallDisjoint DEF Layout
  <2>7. QED BY <1>1, <1>3, <2>3, <2>4, <2>5, <2>6 DEF Layout, Frontier, TypeOK
<1>6. QED BY <1>1, <1>4, <1>5

LEMMA GrowInPlaceLayout == ASSUME Layout, grow_in_place PROVE Layout'
<1> DEFINE NewSize(b, w) == IF b + w > size THEN b + w ELSE size
<1>1. PICK b \in bases, w \in Widths :
        /\ phase = "idle"
        /\ w > width[b]
        /\ AdjacentRunIsFree(b, w)
        /\ Install(b, tenant[b], w, {}, NewSize(b, w))
        /\ generations' = [s \in 0 .. NewSize(b, w) - 1 |-> Generation(s)]
        /\ UNCHANGED <<phase, pending, dest, forwarding, alive, issued>>
  BY DEF grow_in_place
<1> DEFINE n == NewSize(b, w)
<1>2. w \in Nat \ {0} /\ b \in Nat /\ size \in Nat /\ b < size /\ tenant[b] \in Tenants
  BY WidthsAssumption DEF Layout, TypeOK
<1>3. n \in Nat /\ n >= size /\ b \in 0 .. n - 1 /\ b + w <= n /\ {} \in SUBSET bases
  BY <1>2
<1>4. pending' = {} /\ forwarding' = {} /\ phase' = "idle" /\ dest' \in Nat
  BY <1>1 DEF Layout, Frontier, TypeOK
<1>5. /\ size' \in Nat
      /\ bases' \subseteq 0 .. size' - 1
      /\ tenant' \in [bases' -> Tenants]
      /\ width' \in [bases' -> Nat \ {0}]
  <2> HIDE DEF n
  <2>1. QED BY <1>1, <1>2, <1>3, InstallType DEF Layout, n
<1>6. generations' \in [0 .. size' - 1 -> Nat]
  <2>1. size' = n
    BY <1>1 DEF Install
  <2>2. \A s \in 0 .. n - 1 : Generation(s) \in Nat
    BY GenerationType DEF Layout
  <2>3. QED BY <1>1, <2>1, <2>2
<1>7. RunsAreDisjoint'
  <2>1. \A a \in bases \ {} : a # b => a + width[a] <= b \/ b + w <= a
    <3>1. \A a \in bases : b < a => b + w <= a
      BY <1>1, <1>2, AdjacentRunIsDisjoint DEF Layout
    <3>2. \A a \in bases : a < b => a + width[a] <= b
      BY <1>1 DEF Layout, RunsAreDisjoint
    <3>3. \A a \in bases : a \in Nat
      BY DEF Layout, TypeOK
    <3>4. QED BY <1>2, <3>1, <3>2, <3>3
  <2> HIDE DEF n
  <2>2. QED BY <1>1, <1>2, <1>3, <2>1, InstallDisjoint DEF Layout, n
<1>8. QED BY <1>1, <1>4, <1>5, <1>6, <1>7 DEF Layout, Frontier, TypeOK

LEMMA RelocateLayout == ASSUME Layout, relocate_for_growth PROVE Layout'
<1>1. PICK b \in bases, w \in Widths :
        /\ phase = "idle"
        /\ Install(size, tenant[b], w, {b}, size + w)
        /\ generations' = Minted(size, size + w)
        /\ issued' = issued \cup {make_object_id(size, 1, tenant[b])}
        /\ UNCHANGED <<phase, pending, dest, forwarding, alive>>
  BY DEF relocate_for_growth
<1>2. w \in Nat \ {0} /\ tenant[b] \in Tenants
  BY WidthsAssumption DEF Layout, TypeOK
<1>3. /\ size \in Nat /\ size + w \in Nat /\ size + w >= size
      /\ size \in 0 .. (size + w) - 1 /\ {b} \in SUBSET bases
  BY <1>2 DEF Layout, TypeOK
<1>4. pending' = {} /\ forwarding' = {} /\ phase' = "idle" /\ dest' \in Nat
  BY <1>1 DEF Layout, Frontier, TypeOK
<1>5. /\ size' \in Nat
      /\ bases' \subseteq 0 .. size' - 1
      /\ tenant' \in [bases' -> Tenants]
      /\ width' \in [bases' -> Nat \ {0}]
  BY <1>1, <1>2, <1>3, InstallType DEF Layout
<1>6. generations' \in [0 .. size' - 1 -> Nat]
  BY <1>1, <1>3, MintedType DEF Layout, Install
<1>7. issued' \subseteq Nat \X Nat \X Tenants
  BY <1>1, <1>2, <1>3, IdType DEF Layout, TypeOK
<1>8. RunsAreDisjoint'
  <2>1. \A a \in bases : a + width[a] <= size
    BY DEF Layout, RunsAreDisjoint
  <2>2. QED BY <1>1, <1>2, <1>3, <2>1, InstallDisjoint DEF Layout
<1>9. QED BY <1>1, <1>4, <1>5, <1>6, <1>7, <1>8 DEF Layout, Frontier, TypeOK

LEMMA BeginLayout == ASSUME Layout, begin_compaction PROVE Layout'
<1>1. PICK live \in SUBSET bases :
        /\ phase = "idle"
        /\ phase' = "compacting"
        /\ bases' = live
        /\ tenant' = [s \in live |-> tenant[s]]
        /\ width' = [s \in live |-> width[s]]
        /\ alive' = {tenant[s] : s \in live}
        /\ pending' = live
        /\ dest' = 0
        /\ UNCHANGED <<size, generations, forwarding, issued>>
  BY DEF begin_compaction
<1>2. forwarding' = {}
  BY <1>1 DEF Layout, Frontier
<1>3. TypeOK'
  BY <1>1, <1>2 DEF Layout, TypeOK
<1>4. RunsAreDisjoint'
  BY <1>1 DEF Layout, RunsAreDisjoint
<1>5. Frontier'
  BY <1>1, <1>2, <1>3 DEF Frontier, TypeOK
<1>6. QED BY <1>3, <1>4, <1>5 DEF Layout

\* The survivor at s slides down to the cursor: everything before it has been
\* moved and ends at the cursor, everything after it starts behind its run.
LEMMA MoveLayout == ASSUME Layout, move_survivor PROVE Layout'
<1>1. PICK s \in pending :
        /\ phase = "compacting"
        /\ \A t \in pending : s <= t
        /\ Install(dest, tenant[s], width[s], {s}, size)
        /\ generations' = generations \/ generations' = Minted(dest, size)
        /\ \/ issued' = issued
           \/ issued' = issued \cup {make_object_id(dest, Generation(dest) + 1, tenant[s])}
        /\ forwarding' = forwarding \cup {<<s, generations[s], dest>>}
        /\ pending' = pending \ {s}
        /\ dest' = dest + width[s]
        /\ UNCHANGED <<phase, alive>>
  BY DEF move_survivor
<1>2. /\ s \in bases /\ s \in Nat /\ size \in Nat /\ dest \in Nat /\ dest <= s
      /\ width[s] \in Nat \ {0} /\ tenant[s] \in Tenants /\ s + width[s] <= size
      /\ generations[s] \in Nat
  BY <1>1 DEF Layout, TypeOK, RunsAreDisjoint, Frontier
<1>3. dest \in 0 .. size - 1 /\ {s} \in SUBSET bases /\ dest + width[s] <= size
  BY <1>2
<1>4. \A a \in bases : a \in Nat /\ width[a] \in Nat \ {0}
  BY DEF Layout, TypeOK
<1>5. \A a \in bases \ pending : a + width[a] <= dest
  BY <1>1 DEF Layout, Frontier
<1>6. \A a \in pending : a # s => s + width[s] <= a
  BY <1>1, <1>2, <1>4 DEF Layout, TypeOK, RunsAreDisjoint
<1>7. /\ size' \in Nat
      /\ bases' \subseteq 0 .. size' - 1
      /\ tenant' \in [bases' -> Tenants]
      /\ width' \in [bases' -> Nat \ {0}]
  BY <1>1, <1>2, <1>3, InstallType DEF Layout
<1>8. generations' \in [0 .. size' - 1 -> Nat]
  BY <1>1, <1>2, MintedType DEF Layout, TypeOK, Install
<1>9. issued' \subseteq Nat \X Nat \X Tenants
  <2>1. Generation(dest) + 1 \in Nat
    BY <1>2, GenerationType DEF Layout
  <2>2. QED BY <1>1, <1>2, <2>1, IdType DEF Layout, TypeOK
<1>10. bases' = (bases \ {s}) \cup {dest}
  BY <1>1 DEF Install
<1>11. pending' \subseteq bases' \ {dest}
  BY <1>1, <1>2, <1>4, <1>6, <1>10 DEF Layout, TypeOK
<1>12. RunsAreDisjoint'
  <2>1. \A a \in bases \ {s} : a # dest => a + width[a] <= dest \/ dest + width[s] <= a
    BY <1>2, <1>4, <1>5, <1>6
  <2>2. QED BY <1>1, <1>2, <1>3, <2>1, InstallDisjoint DEF Layout
<1>13. Frontier'
  <2>1. ASSUME NEW a \in bases' \ pending' PROVE a + width'[a] <= dest'
    BY <1>1, <1>2, <1>4, <1>5, <1>10, <2>1 DEF Install
  <2>2. ASSUME NEW a \in pending' PROVE dest' <= a
    BY <1>1, <1>2, <1>4, <1>6, <2>2 DEF Layout, TypeOK
  <2>3. ASSUME NEW f \in forwarding' PROVE f[3] \notin pending'
    <3>1. CASE f \in forwarding
      BY <1>1, <3>1 DEF Layout, Frontier
    <3>2. CASE f = <<s, generations[s], dest>>
      BY <1>11, <3>2
    <3>3. QED BY <1>1, <2>3, <3>1, <3>2
  <2>4. QED BY <1>1, <2>1, <2>2, <2>3 DEF Frontier
<1>14. forwarding' \subseteq Nat \X Nat \X bases'
  <2>1. ASSUME NEW f \in forwarding PROVE f \in Nat \X Nat \X bases'
    <3>1. f \in Nat \X Nat \X bases /\ f[3] \notin pending
      BY <1>1, <2>1 DEF Layout, TypeOK, Frontier
    <3>2. f[3] \in bases'
      BY <1>1, <1>10, <3>1
    <3>3. QED BY <3>1, <3>2
  <2>2. QED BY <1>1, <1>2, <1>10, <2>1
<1>15. dest' \in Nat /\ phase' \in {"idle", "compacting"} /\ alive' \subseteq Tenants
  BY <1>1, <1>2 DEF Layout, TypeOK
<1>16. TypeOK'
  BY <1>7, <1>8, <1>9, <1>11, <1>14, <1>15 DEF TypeOK
<1>17. QED BY <1>12, <1>13, <1>16 DEF Layout

LEMMA EndLayout == ASSUME Layout, end_compaction PROVE Layout'
<1>1. TypeOK'
  BY DEF Layout, TypeOK, end_compaction
<1>2. RunsAreDisjoint'
  BY DEF Layout, RunsAreDisjoint, end_compaction
<1>3. Frontier'
  BY DEF Frontier, end_compaction
<1>4. QED BY <1>1, <1>2, <1>3 DEF Layout

LEMMA NextLayout == ASSUME Layout, [Next]_vars PROVE Layout'
<1>1. CASE UNCHANGED vars
  BY <1>1 DEF Layout, TypeOK, RunsAreDisjoint, Frontier, vars
<1>2. QED BY <1>1, AllocateLayout, GrowInPlaceLayout, RelocateLayout, BeginLayout,
             MoveLayout, EndLayout DEF Next

\* The storage state is well typed after any sequence of operations.
THEOREM TypeCorrect == Spec => []TypeOK
<1>1. Layout => TypeOK
  BY DEF Layout
<1>2. QED BY <1>1, InitLayout, NextLayout, PTL DEF Spec

\* Runs never overlap and never leave the heap, whatever the order of
\* allocations, growths in place or by relocation, and compactions: the
\* destination of a slide never reaches a header that is not yet moved.
THEOREM RunsStayDisjoint == Spec => []RunsAreDisjoint
<1>1. Layout => RunsAreDisjoint
  BY DEF Layout
<1>2. QED BY <1>1, InitLayout, NextLayout, PTL DEF Spec

(***************************************************************************)
(* Ids.                                                                    *)
(***************************************************************************)

\* Every id minted so far is of a slot of the heap and of a generation that
\* the slot has reached; no slot and generation were minted twice; the id of
\* every header, and the source id of every moved survivor, was minted for
\* the object that is there.
Ids ==
  /\ \A id \in issued : id[1] < size /\ id[2] <= generations[id[1]] /\ id[2] > 0
  /\ \A id, jd \in issued : id[1] = jd[1] /\ id[2] = jd[2] => id[3] = jd[3]
  /\ \A b \in bases : <<b, generations[b], tenant[b]>> \in issued
  /\ \A f \in forwarding : <<f[1], f[2], tenant[f[3]]>> \in issued

LEMMA InitIds == Init => Ids
BY DEF Init, Ids

\* Minting an id at base b, of the next generation of b, keeps the first two
\* parts of Ids.
LEMMA MintingIsFresh ==
  ASSUME TypeOK, Ids, NEW n \in Nat, n >= size, n <= SlotLimit, NEW b \in 0 .. n - 1,
         NEW o, size' = n, generations' = Minted(b, n),
         issued' = issued \cup {make_object_id(b, Generation(b) + 1, o)}
  PROVE  /\ \A id \in issued' : id[1] < size' /\ id[2] <= generations'[id[1]] /\ id[2] > 0
         /\ \A id, jd \in issued' : id[1] = jd[1] /\ id[2] = jd[2] => id[3] = jd[3]
         /\ <<b, generations'[b], o>> \in issued'
         /\ issued \subseteq issued'
         /\ \A s \in 0 .. size - 1 : s # b => generations'[s] = generations[s]
<1>1. make_object_id(b, Generation(b) + 1, o) = <<b, Generation(b) + 1, o>>
  BY SlotLimitAssumption DEF make_object_id, Truncated
<1>2. \A s \in 0 .. n - 1 : /\ Generation(s) \in Nat
                            /\ s # b => generations'[s] = Generation(s)
  BY GenerationType DEF Minted
<1>3. generations'[b] = Generation(b) + 1 /\ Generation(b) \in Nat
  BY <1>2 DEF Minted
<1>4. \A id \in issued : /\ id[1] \in Nat /\ id[2] \in Nat /\ id[1] < size
                         /\ id[2] <= Generation(id[1]) /\ id[2] > 0
  BY DEF TypeOK, Ids, Generation
<1>5. ASSUME NEW id \in issued'
      PROVE  id[1] < size' /\ id[2] <= generations'[id[1]] /\ id[2] > 0
  <2>1. CASE id \in issued
    <3>1. id[1] \in 0 .. n - 1 /\ id[1] < n
      BY <1>4, <2>1 DEF TypeOK
    <3>2. CASE id[1] = b
      BY <1>3, <1>4, <2>1, <3>1, <3>2
    <3>3. CASE id[1] # b
      BY <1>2, <1>4, <2>1, <3>1, <3>3
    <3>4. QED BY <3>2, <3>3
  <2>2. CASE id = <<b, Generation(b) + 1, o>>
    BY <1>3, <2>2
  <2>3. QED BY <1>1, <1>5, <2>1, <2>2
<1>6. ASSUME NEW id \in issued', NEW jd \in issued', id[1] = jd[1], id[2] = jd[2]
      PROVE  id[3] = jd[3]
  <2>1. CASE id \in issued /\ jd \in issued
    BY <1>6, <2>1 DEF Ids
  <2>2. \A kd \in issued : ~(kd[1] = b /\ kd[2] = Generation(b) + 1)
    BY <1>3, <1>4
  <2>3. QED BY <1>1, <1>6, <2>1, <2>2
<1>7. \A s \in 0 .. size - 1 : s # b => generations'[s] = generations[s]
  BY <1>2 DEF Generation, TypeOK
<1>8. QED BY <1>1, <1>3, <1>5, <1>6, <1>7

LEMMA AllocateIds == ASSUME Layout, Ids, WithinLimit', allocate_object PROVE Ids'
<1>1. PICK o \in Tenants \ alive, w \in Widths :
        /\ phase = "idle"
        /\ AllocateInHole(o, w) \/ AllocateAtEnd(o, w)
        /\ UNCHANGED <<phase, pending, dest, forwarding>>
  BY DEF allocate_object
<1>2. w \in Nat \ {0} /\ size \in Nat
  BY WidthsAssumption DEF Layout, TypeOK
<1>3. forwarding' = {}
  BY <1>1 DEF Layout, Frontier
<1>4. PICK b \in Nat, n \in Nat :
        /\ n >= size /\ b \in 0 .. n - 1 /\ b \notin bases
        /\ Install(b, o, w, {}, n)
        /\ generations' = Minted(b, n)
        /\ issued' = issued \cup {make_object_id(b, Generation(b) + 1, o)}
  <2>1. CASE AllocateInHole(o, w)
    <3>1. PICK b \in 0 .. size - 1 :
            /\ FreeRun(b, w)
            /\ Install(b, o, w, {}, size)
            /\ generations' = Minted(b, size)
            /\ issued' = issued \cup {make_object_id(b, Generation(b) + 1, o)}
      BY <2>1 DEF AllocateInHole
    <3>2. b \notin bases
      BY <1>2, <3>1, FreeRunIsDisjoint DEF Layout
    <3>3. QED BY <1>2, <3>1, <3>2
  <2>2. CASE AllocateAtEnd(o, w)
    <3>1. Generation(size) + 1 = 1
      BY <1>2 DEF Generation
    <3>2. size \notin bases /\ size \in 0 .. (size + w) - 1 /\ size + w \in Nat /\ size + w >= size
      BY <1>2 DEF Layout, TypeOK
    <3>3. QED BY <1>2, <2>2, <3>1, <3>2 DEF AllocateAtEnd
  <2>3. QED BY <1>1, <2>1, <2>2
<1>5. size' = n /\ n <= SlotLimit
  BY <1>4 DEF Install, WithinLimit
<1>6. /\ \A id \in issued' : id[1] < size' /\ id[2] <= generations'[id[1]] /\ id[2] > 0
      /\ \A id, jd \in issued' : id[1] = jd[1] /\ id[2] = jd[2] => id[3] = jd[3]
      /\ <<b, generations'[b], o>> \in issued'
      /\ issued \subseteq issued'
      /\ \A s \in 0 .. size - 1 : s # b => generations'[s] = generations[s]
  BY <1>4, <1>5, MintingIsFresh DEF Layout
<1>7. ASSUME NEW a \in bases' PROVE <<a, generations'[a], tenant'[a]>> \in issued'
  <2>1. CASE a = b
    BY <1>4, <1>6, <2>1 DEF Install
  <2>2. CASE a # b
    <3>1. a \in bases /\ tenant'[a] = tenant[a]
      BY <1>4, <1>7, <2>2 DEF Install
    <3>2. generations'[a] = generations[a]
      BY <1>6, <2>2, <3>1 DEF Layout, TypeOK
    <3>3. QED BY <1>6, <3>1, <3>2 DEF Ids
  <2>3. QED BY <2>1, <2>2
<1>8. QED BY <1>3, <1>6, <1>7 DEF Ids

LEMMA GrowInPlaceIds == ASSUME Layout, Ids, grow_in_place PROVE Ids'
<1>1. PICK b \in bases, w \in Widths, n \in Nat :
        /\ phase = "idle"
        /\ n >= size
        /\ Install(b, tenant[b], w, {}, n)
        /\ generations' = [s \in 0 .. n - 1 |-> Generation(s)]
        /\ UNCHANGED <<phase, pending, dest, forwarding, alive, issued>>
  <2>1. PICK b \in bases, w \in Widths :
          /\ phase = "idle"
          /\ LET new_size == IF b + w > size THEN b + w ELSE size
             IN  /\ Install(b, tenant[b], w, {}, new_size)
                 /\ generations' = [s \in 0 .. new_size - 1 |-> Generation(s)]
          /\ UNCHANGED <<phase, pending, dest, forwarding, alive, issued>>
    BY DEF grow_in_place
  <2>2. w \in Nat /\ b \in Nat /\ size \in Nat
    BY WidthsAssumption DEF Layout, TypeOK
  <2>3. CASE b + w > size
    BY <2>1, <2>2, <2>3
  <2>4. CASE ~(b + w > size)
    BY <2>1, <2>2, <2>4
  <2>5. QED BY <2>3, <2>4
<1>2. size' = n /\ bases' = bases /\ tenant' = tenant
  BY <1>1 DEF Install, Layout, TypeOK
<1>3. \A s \in 0 .. size - 1 : generations'[s] = generations[s]
  BY <1>1 DEF Generation, Layout, TypeOK
<1>4. forwarding' = {} /\ issued' = issued
  BY <1>1 DEF Layout, Frontier
<1>5. \A id \in issued' : id[1] < size' /\ id[2] <= generations'[id[1]] /\ id[2] > 0
  <2>1. SUFFICES ASSUME NEW id \in issued
                 PROVE  id[1] < n /\ id[2] <= generations'[id[1]] /\ id[2] > 0
    BY <1>2, <1>4
  <2>2. id[1] \in Nat /\ id[1] < size /\ id[2] <= generations[id[1]] /\ id[2] > 0
    BY DEF Layout, TypeOK, Ids
  <2>3. size \in Nat
    BY DEF Layout, TypeOK
  <2>4. generations'[id[1]] = generations[id[1]]
    BY <1>3, <2>2, <2>3
  <2>5. QED BY <1>1, <2>2, <2>3, <2>4
<1>6. \A a \in bases' : <<a, generations'[a], tenant'[a]>> \in issued'
  BY <1>2, <1>3, <1>4 DEF Layout, TypeOK, Ids
<1>7. QED BY <1>4, <1>5, <1>6 DEF Ids

LEMMA RelocateIds == ASSUME Layout, Ids, WithinLimit', relocate_for_growth PROVE Ids'
<1>1. PICK b \in bases, w \in Widths :
        /\ phase = "idle"
        /\ Install(size, tenant[b], w, {b}, size + w)
        /\ generations' = Minted(size, size + w)
        /\ issued' = issued \cup {make_object_id(size, 1, tenant[b])}
        /\ UNCHANGED <<phase, pending, dest, forwarding, alive>>
  BY DEF relocate_for_growth
<1>2. w \in Nat \ {0} /\ size \in Nat
  BY WidthsAssumption DEF Layout, TypeOK
<1>3. /\ size + w \in Nat /\ size + w >= size /\ size \in 0 .. (size + w) - 1
      /\ size' = size + w /\ size + w <= SlotLimit
  BY <1>1, <1>2 DEF Install, WithinLimit
<1>4. issued' = issued \cup {make_object_id(size, Generation(size) + 1, tenant[b])}
  <2>1. Generation(size) + 1 = 1
    BY <1>2 DEF Generation
  <2>2. QED BY <1>1, <2>1
<1>5. /\ \A id \in issued' : id[1] < size' /\ id[2] <= generations'[id[1]] /\ id[2] > 0
      /\ \A id, jd \in issued' : id[1] = jd[1] /\ id[2] = jd[2] => id[3] = jd[3]
      /\ <<size, generations'[size], tenant[b]>> \in issued'
      /\ issued \subseteq issued'
      /\ \A s \in 0 .. size - 1 : s # size => generations'[s] = generations[s]
  BY <1>1, <1>3, <1>4, MintingIsFresh DEF Layout
<1>6. ASSUME NEW a \in bases' PROVE <<a, generations'[a], tenant'[a]>> \in issued'
  <2>1. CASE a = size
    BY <1>1, <1>5, <2>1 DEF Install
  <2>2. CASE a # size
    <3>1. a \in bases /\ tenant'[a] = tenant[a]
      BY <1>1, <1>6, <2>2 DEF Install
    <3>2. generations'[a] = generations[a]
      BY <1>5, <2>2, <3>1 DEF Layout, TypeOK
    <3>3. QED BY <1>5, <3>1, <3>2 DEF Ids
  <2>3. QED BY <2>1, <2>2
<1>7. forwarding' = {}
  BY <1>1 DEF Layout, Frontier
<1>8. QED BY <1>5, <1>6, <1>7 DEF Ids

LEMMA BeginIds == ASSUME Layout, Ids, begin_compaction PROVE Ids'
<1>1. PICK live \in SUBSET bases :
        /\ bases' = live
        /\ tenant' = [s \in live |-> tenant[s]]
        /\ UNCHANGED <<size, generations, forwarding, issued>>
        /\ forwarding = {}
  BY DEF begin_compaction, Layout, Frontier
<1>2. QED BY <1>1 DEF Ids

LEMMA MoveIds == ASSUME Layout, Ids, WithinLimit', move_survivor PROVE Ids'
<1>1. PICK s \in pending :
        /\ phase = "compacting"
        /\ Install(dest, tenant[s], width[s], {s}, size)
        /\ IF s = dest
           THEN generations' = generations /\ issued' = issued
           ELSE /\ generations' = Minted(dest, size)
                /\ issued' = issued \cup {make_object_id(dest, Generation(dest) + 1, tenant[s])}
        /\ forwarding' = forwarding \cup {<<s, generations[s], dest>>}
  BY DEF move_survivor
<1>2. /\ s \in bases /\ s \in Nat /\ size \in Nat /\ dest \in Nat /\ dest <= s
      /\ width[s] \in Nat \ {0} /\ s + width[s] <= size
  BY <1>1 DEF Layout, TypeOK, RunsAreDisjoint, Frontier
<1>3. size' = size /\ size <= SlotLimit /\ dest \in 0 .. size - 1
  BY <1>1, <1>2 DEF Install, WithinLimit
<1>4. /\ bases' = (bases \ {s}) \cup {dest}
      /\ tenant'[dest] = tenant[s]
      /\ \A a \in bases \ {s} : a # dest => tenant'[a] = tenant[a]
  BY <1>1 DEF Install
<1>5. /\ \A id \in issued' : id[1] < size' /\ id[2] <= generations'[id[1]] /\ id[2] > 0
      /\ \A id, jd \in issued' : id[1] = jd[1] /\ id[2] = jd[2] => id[3] = jd[3]
      /\ <<dest, generations'[dest], tenant[s]>> \in issued'
      /\ issued \subseteq issued'
      /\ \A a \in 0 .. size - 1 : a # dest => generations'[a] = generations[a]
  <2>1. CASE s = dest
    BY <1>1, <1>2, <1>3, <2>1 DEF Ids
  <2>2. CASE s # dest
    BY <1>1, <1>2, <1>3, <2>2, MintingIsFresh DEF Layout
  <2>3. QED BY <2>1, <2>2
<1>6. ASSUME NEW a \in bases' PROVE <<a, generations'[a], tenant'[a]>> \in issued'
  <2>1. CASE a = dest
    BY <1>4, <1>5, <2>1
  <2>2. CASE a # dest
    <3>1. a \in bases /\ tenant'[a] = tenant[a]
      BY <1>4, <1>6, <2>2
    <3>2. generations'[a] = generations[a]
      BY <1>5, <2>2, <3>1 DEF Layout, TypeOK
    <3>3. QED BY <1>5, <3>1, <3>2 DEF Ids
  <2>3. QED BY <2>1, <2>2
<1>7. ASSUME NEW f \in forwarding' PROVE <<f[1], f[2], tenant'[f[3]]>> \in issued'
  <2>1. CASE f \in forwarding
    \* A survivor that has moved ends at the cursor, so it is not overwritten.
    <3>1. f[3] \in bases /\ f[3] \notin pending
      BY <1>1, <2>1 DEF Layout, TypeOK, Frontier
    <3>2. f[3] \in Nat /\ width[f[3]] \in Nat \ {0} /\ f[3] + width[f[3]] <= dest
      <4>1. \A a \in bases : a \in Nat /\ width[a] \in Nat \ {0}
        BY DEF Layout, TypeOK
      <4>2. \A a \in bases \ pending : a + width[a] <= dest
        BY <1>1 DEF Layout, Frontier
      <4>3. QED BY <3>1, <4>1, <4>2
    <3>3. f[3] # dest /\ f[3] # s
      BY <1>1, <1>2, <3>1, <3>2
    <3>4. tenant'[f[3]] = tenant[f[3]]
      BY <1>4, <3>1, <3>3
    <3>5. QED BY <1>5, <2>1, <3>4 DEF Ids
  <2>2. CASE f = <<s, generations[s], dest>>
    BY <1>2, <1>4, <1>5, <2>2 DEF Ids
  <2>3. QED BY <1>1, <1>7, <2>1, <2>2
<1>8. QED BY <1>5, <1>6, <1>7 DEF Ids

LEMMA NextIds == ASSUME Layout, Ids, WithinLimit', [Next]_vars PROVE Ids'
<1>1. CASE end_compaction
  BY <1>1 DEF Ids, end_compaction
<1>2. CASE UNCHANGED vars
  BY <1>2 DEF Ids, vars
<1>3. QED BY <1>1, <1>2, AllocateIds, GrowInPlaceIds, RelocateIds, BeginIds, MoveIds DEF Next

\* An id resolves only to the object it was minted for, before, during and
\* after compactions, for as long as the heap has at most SlotLimit slots:
\* a slot's generation is advanced before its next base is published, and an
\* exact source id is forwarded only to the survivor it named.
THEOREM IdsStayUnaliased == Spec /\ []WithinLimit => []IdsNeverAlias
<1>1. Layout /\ Ids => IdsNeverAlias
  <2>1. SUFFICES ASSUME Layout, Ids, NEW id \in issued, NEW b \in bases, NamesAt(id, b)
                 PROVE  tenant[b] = id[3]
    BY DEF IdsNeverAlias
  <2>2. CASE id[1] = b /\ generations[b] = id[2]
    BY <2>1, <2>2 DEF Ids
  <2>3. CASE <<id[1], id[2], b>> \in forwarding
    <3>1. <<id[1], id[2], tenant[b]>> \in issued
      BY <2>1, <2>3 DEF Ids
    <3>2. QED BY <2>1, <3>1 DEF Ids
  <2>4. QED BY <2>1, <2>2, <2>3 DEF NamesAt
<1>2. QED BY <1>1, InitLayout, NextLayout, InitIds, NextIds, PTL DEF Spec

(***************************************************************************)
(* Tenancy.                                                                *)
(***************************************************************************)
LEMMA NextTenancy ==
  ASSUME Layout, NothingLostOrDuplicated, [Next]_vars PROVE NothingLostOrDuplicated'
<1>1. CASE allocate_object
  <2>1. PICK o \in Tenants \ alive, w \in Widths :
          /\ AllocateInHole(o, w) \/ AllocateAtEnd(o, w)
          /\ alive' = alive \cup {o}
    BY <1>1 DEF allocate_object
  <2>2. PICK b \in Nat, n \in Nat : b \notin bases /\ Install(b, o, w, {}, n)
    <3>1. w \in Nat \ {0} /\ size \in Nat
      BY WidthsAssumption DEF Layout, TypeOK
    <3>2. CASE AllocateInHole(o, w)
      <4>1. PICK b \in 0 .. size - 1 : FreeRun(b, w) /\ Install(b, o, w, {}, size)
        BY <3>2 DEF AllocateInHole
      <4>2. b \notin bases
        BY <3>1, <4>1, FreeRunIsDisjoint DEF Layout
      <4>3. QED BY <3>1, <4>1, <4>2
    <3>3. CASE AllocateAtEnd(o, w)
      <4>1. size \notin bases
        BY DEF Layout, TypeOK
      <4>2. QED BY <3>1, <3>3, <4>1 DEF AllocateAtEnd
    <3>4. QED BY <2>1, <3>2, <3>3
  <2>3. QED BY <2>1, <2>2 DEF NothingLostOrDuplicated, Install
<1>2. CASE grow_in_place
  BY <1>2 DEF NothingLostOrDuplicated, grow_in_place, Install
<1>3. CASE relocate_for_growth
  <2>1. size \notin bases
    BY DEF Layout, TypeOK
  <2>2. QED BY <1>3, <2>1 DEF NothingLostOrDuplicated, relocate_for_growth, Install
<1>4. CASE begin_compaction
  BY <1>4 DEF NothingLostOrDuplicated, begin_compaction
<1>5. CASE move_survivor
  <2>1. PICK s \in pending : /\ phase = "compacting"
                             /\ \A t \in pending : s <= t
                             /\ Install(dest, tenant[s], width[s], {s}, size)
                             /\ alive' = alive
    BY <1>5 DEF move_survivor
  <2>2. dest \notin bases \ {s}
    BY <2>1 DEF Layout, TypeOK, Frontier, RunsAreDisjoint
  <2>3. QED BY <2>1, <2>2 DEF NothingLostOrDuplicated, Install, Layout, TypeOK
<1>6. CASE end_compaction
  BY <1>6 DEF NothingLostOrDuplicated, end_compaction
<1>7. CASE UNCHANGED vars
  BY <1>7 DEF NothingLostOrDuplicated, vars
<1>8. QED BY <1>1, <1>2, <1>3, <1>4, <1>5, <1>6, <1>7 DEF Next

\* Every object that is alive is stored exactly once, at every step of every
\* growth and compaction.
THEOREM TenantsStayUnique == Spec => []NothingLostOrDuplicated
<1>1. Init => NothingLostOrDuplicated
  BY DEF Init, NothingLostOrDuplicated
<1>2. QED BY <1>1, InitLayout, NextLayout, NextTenancy, PTL DEF Spec

=============================================================================
