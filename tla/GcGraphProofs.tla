---------------------------- MODULE GcGraphProofs ----------------------------
(***************************************************************************)
(* The heap implements ObjectGraph: the mutator sees objects with a        *)
(* permanent identity, of which collections take away garbage and nothing  *)
(* else, and a major collection takes away all of it.                      *)
(***************************************************************************)
EXTENDS GcReferenceProofs

(***************************************************************************)
(* Growth.                                                                 *)
(***************************************************************************)
LEMMA MovedToEndKeepsGraph ==
  ASSUME NEW h, LayoutInv(h), NamesAreUnique(h), ReferenceInv(h), h.phase # "compacting",
         NEW old \in Headers(h), NEW width \in Nat \ {0}, Width(h, old) <= width,
         NEW g, MovedToEnd(h, old, width, g)
  PROVE  SameGraph(h, g)
<1>1. PICK to, mo, mg : /\ GrowthMoves(h, old, width, to, mo, mg)
                        /\ g = InstallMovement(h, mo, mg, ForwardingOf(to, mg))
  BY DEF MovedToEnd
<1> DEFINE n == Size(h) + width
<1>2. Moves(h, to, n, mo, mg) /\ DOMAIN to = Headers(h)
  BY <1>1, GrowthIsMovement DEF GrowthMoves
<1>3. EphemeronsKept(h, DOMAIN to)
  BY <1>2, ReferencesAreCurrent
<1>4. StrongResolve(h) /\ RootsAreCurrent(h)
  BY DEF ReferenceInv
<1>5. StrongKept(h, DOMAIN to)
  <2> SUFFICES ASSUME NEW s \in Headers(h), NEW v \in visit_reference_fields(h.objects[s])
               PROVE  checked_slot(h, v) \in Headers(h)
    BY <1>2 DEF StrongKept
  <2>1. v \in Ids /\ Resolves(h, v)
    BY <1>4, StrongFieldsAreIds DEF StrongResolve, LayoutInv
  <2> QED BY <2>1, ResolvedSlot
<1>6. RootsKept(h, DOMAIN to)
  <2> SUFFICES ASSUME NEW c \in Registered, is_object(h.cells[c])
               PROVE  checked_slot(h, h.cells[c]) \in Headers(h)
    BY <1>2 DEF RootsKept
  <2>1. h.cells[c] \in Ids /\ Physical(h, h.cells[c])
    BY <1>4, RootCells DEF RootsAreCurrent, Registered
  <2> QED BY <2>1, CurrentResolves
<1> HIDE DEF n
<1>7. Thins(h, g) /\ Follow(h, to, g)
  BY <1>1, <1>2, <1>3, <1>4, <1>5, <1>6, MovementThins
<1>8. NamesIn(g) = NamesIn(h)
  <2>1. \A s \in Headers(h) : g.objects[to[s]].data = h.objects[s].data
    BY <1>2, <1>7 DEF Follow, Shows, ShowsStrong
  <2>2. Headers(g) = {to[s] : s \in Headers(h)}
    BY <1>2, <1>7 DEF Follow
  <2> QED BY <2>1, <2>2 DEF NamesIn
<1> QED BY <1>7, <1>8 DEF SameGraph

LEMMA ResizedKeepsGraph ==
  ASSUME NEW h, LayoutInv(h), NamesAreUnique(h), NEW n \in Nat, Size(h) <= n, NEW g, ResizedAs(h, n, g)
  PROVE  SameGraph(h, g) /\ \A v \in Values : NameIn(g, v) = NameIn(h, v)
<1>1. /\ LayoutInv(g) /\ SamePlaces(h, g) /\ \A s \in Headers(h) : g.objects[s] = h.objects[s]
  BY ResizedKeeps
<1>2. Alike(h, g)
  BY <1>1 DEF Alike, ResizedAs
<1> QED BY <1>2, AlikeKeepsGraph

LEMMA GrowthKeepsGraph ==
  ASSUME NEW h, LayoutInv(h), NamesAreUnique(h), ReferenceInv(h), h.phase # "compacting",
         1 \in DOMAIN h.extra, Resolves(h, h.extra[1]),
         NEW width \in Nat \ {0}, Width(h, checked_slot(h, h.extra[1])) <= width,
         NEW g, g = ensure_growth_storage(h, width)
  PROVE  SameGraph(h, g)
<1>1. GrowsAs(h, width, g)
  BY GrowthKeeps
<1>2. h.extra[1] \in Values
  BY DEF LayoutInv, HeapIsTyped
<1> DEFINE old == checked_slot(h, h.extra[1])
<1>3. old \in Headers(h) /\ Width(h, old) <= width
  BY <1>2, ResolvedObject
<1>4. (\E n \in Nat : Size(h) <= n /\ ResizedAs(h, n, g)) \/ MovedToEnd(h, old, width, g)
  BY <1>1 DEF GrowsAs
<1> HIDE DEF old
<1> QED BY <1>3, <1>4, ResizedKeepsGraph, MovedToEndKeepsGraph

LEMMA OperandsGoOn ==
  ASSUME NEW f, NEW h, OperandsGoAlong(f, h), NEW g, OperandsGoAlong(h, g),
         f.extra \in Seq(Values), h.extra \in Seq(Values)
  PROVE  OperandsGoAlong(f, g)
<1>1. DOMAIN h.extra = DOMAIN f.extra
  BY DEF OperandsGoAlong
<1> QED BY <1>1 DEF OperandsGoAlong, SameName

\* The operands are what they were once there is room for the first of them.
LEMMA GrownForKeepsGraph ==
  ASSUME NEW start, LayoutInv(start), NamesAreUnique(start), ReferenceInv(start),
         OperandsResolve(start), NEW width, NEW grown, GrownFor(start, width, grown)
  PROVE  /\ LayoutInv(grown) /\ ReferenceInv(grown) /\ SameGraph(start, grown)
         /\ OperandsGoAlong(start, grown)
<1> DEFINE ready == CompactionFinished(start)
<1>1. ready = CompactionFinished(start)
  OBVIOUS
<1>2. /\ LayoutInv(ready) /\ ready.phase # "compacting"
      /\ 1 \in DOMAIN ready.extra /\ Resolves(ready, ready.extra[1])
      /\ width \in Nat \ {0} /\ Width(ready, checked_slot(ready, ready.extra[1])) <= width
      /\ grown = ensure_growth_storage(ready, width)
  BY DEF GrownFor
<1> HIDE DEF ready
<1>3. ReferenceInv(ready) /\ SameGraph(start, ready) /\ Carries(start, ready)
  BY <1>1, CompactionFinishedKeepsReferences, CompactionFinishedKeepsGraph, CompactionFinishedKeeps
<1>4. NamesAreUnique(ready)
  BY <1>3 DEF SameGraph, Thins
<1>5. Grown(ready, width, grown) /\ ReferenceInv(grown) /\ SameGraph(ready, grown)
  BY <1>2, <1>3, <1>4, GrowthKeepsReferences, GrowthKeepsGraph
<1>6. LayoutInv(grown) /\ Carries(ready, grown)
  BY <1>5 DEF Grown
<1>7. start.extra \in Seq(Values) /\ ready.extra \in Seq(Values)
  BY <1>2 DEF LayoutInv, HeapIsTyped
<1>8. OperandsResolve(ready)
  <2> SUFFICES ASSUME NEW i \in DOMAIN ready.extra, is_object(ready.extra[i])
               PROVE  Resolves(ready, ready.extra[i])
    BY DEF OperandsResolve
  <2>1. Becomes(start, start.extra[i], ready, ready.extra[i]) /\ i \in DOMAIN start.extra
    BY <1>3, <1>7 DEF Carries
  <2> QED BY <2>1 DEF Becomes, OperandsResolve
<1>9. OperandsGoAlong(start, ready) /\ OperandsGoAlong(ready, grown)
  BY <1>3, <1>6, <1>8, CarriedOperands
<1>10. OperandsGoAlong(start, grown)
  BY <1>7, <1>9, OperandsGoOn
<1> QED BY <1>2, <1>3, <1>5, <1>6, <1>10, SameGraphOn

(***************************************************************************)
(* Stores.                                                                 *)
(***************************************************************************)
\* The heap k shows what h did with node in place of the object named n,
\* less what is gone.
Updates(h, n, node, k) ==
  /\ Leaves(RootIn(h), Graph!With(GraphIn(h), n, node), InternedIn(h), k)
  /\ NamesAreUnique(k) /\ SameRawCells(h, k)

LEMMA UpdatesOn ==
  ASSUME NEW h, NEW n, NEW node, NEW m, LayoutInv(m), Updates(h, n, node, m), NEW k, Thins(m, k)
  PROVE  Updates(h, n, node, k)
<1> DEFINE g == Graph!With(GraphIn(h), n, node)
<1>1. /\ Leaves(RootIn(h), g, InternedIn(h), m) /\ NamesAreUnique(m)
      /\ Leaves(RootIn(m), GraphIn(m), InternedIn(m), k)
  BY DEF Updates, Thins
<1> HIDE DEF g
<1>2. Leaves(RootIn(h), g, InternedIn(h), k)
  BY <1>1, LeavesOn
<1> QED BY <1>2 DEF g, Updates, Thins, SameRawCells

LEMMA UpdatesFrom ==
  ASSUME NEW f, NamesAreUnique(f), NEW h, SameGraph(f, h), NEW n, NEW node, NEW k, Updates(h, n, node, k)
  PROVE  Updates(f, n, node, k)
<1>1. RootIn(h) = RootIn(f) /\ GraphIn(h) = GraphIn(f) /\ InternedIn(h) = InternedIn(f)
      /\ SameRawCells(f, h)
  BY SameGraphIs
<1> QED BY <1>1 DEF Updates, SameRawCells

LEMMA MutatedUpdates ==
  ASSUME NEW h, LayoutInv(h), NamesAreUnique(h), NEW slot \in Headers(h),
         NEW q, q.data = h.objects[slot].data,
         NEW m, LayoutInv(m), SamePlaces(h, m), MutatedAs(h, slot, q, m)
  PROVE  /\ Updates(h, q.data, NodeIn(h, q), m)
         /\ \A v \in Values : NameIn(m, v) = NameIn(h, v)
<1>1. /\ m.objects = [h.objects EXCEPT ![slot] = q] /\ m.intern_table = h.intern_table
      /\ m.cells = h.cells
  BY DEF MutatedAs
<1>2. \A s \in Headers(h) : m.objects[s] = IF s = slot THEN q ELSE h.objects[s]
  <2>1. Headers(h) \subseteq DOMAIN h.objects
    BY DEF Headers
  <2> QED BY <1>1, <2>1
<1>3. \A s \in Headers(h) : m.objects[s].data = h.objects[s].data
  BY <1>2
<1>4. \A v \in Values : NameIn(m, v) = NameIn(h, v)
  BY <1>3, PlacesKeepNames
<1>5. Headers(m) = Headers(h)
  BY DEF SamePlaces
<1>6. NamesIn(m) = NamesIn(h) /\ NamesAreUnique(m)
  <2>1. NamesIn(m) = NamesIn(h)
    BY <1>3, <1>5 DEF NamesIn
  <2>2. NamesAreUnique(m)
    BY <1>3, <1>5 DEF NamesAreUnique
  <2> QED BY <2>1, <2>2
<1> DEFINE n == q.data
           node == NodeIn(h, q)
           g == Graph!With(GraphIn(h), n, node)
<1>7. n \in NamesIn(h) /\ n = h.objects[slot].data
  BY DEF NamesIn
<1>8. DOMAIN g = NamesIn(h)
  BY <1>7 DEF Graph!With, GraphIn
<1>9. Gone(g, m) = {}
  BY <1>6, <1>8 DEF Gone
<1>10. \A s \in Headers(h) : NodeIn(m, m.objects[s]) = NodeIn(h, m.objects[s])
  <2> TAKE s \in Headers(h)
  <2>1. \A i \in DOMAIN m.objects[s].strong : NameIn(m, m.objects[s].strong[i]) = NameIn(h, m.objects[s].strong[i])
    BY <1>4, <1>5, ObjectValues
  <2>2. \A i \in DOMAIN m.objects[s].soft : NameIn(m, m.objects[s].soft[i]) = NameIn(h, m.objects[s].soft[i])
    BY <1>4, <1>5, ObjectValues
  <2> QED BY <2>1, <2>2 DEF NodeIn
<1>11. \A x : IsNode(x) => Rest(x, {}) = x
  BY DEF IsNode, Rest, Graph!SoftWithout
<1>12. IsNode(node) /\ \A s \in Headers(h) : IsNode(NodeIn(h, h.objects[s]))
  BY DEF NodeIn, IsNode, WithSoft
<1>13. ASSUME NEW s \in Headers(m)
       PROVE  NodeIn(m, m.objects[s]) = Rest(g[m.objects[s].data], Gone(g, m))
  <2>1. s \in Headers(h) /\ m.objects[s].data = h.objects[s].data /\ h.objects[s].data \in NamesIn(h)
    BY <1>3, <1>5 DEF NamesIn
  <2>2. CASE s = slot
    <3>1. m.objects[s] = q /\ NodeIn(m, q) = node
      BY <1>2, <1>10, <2>1, <2>2
    <3>2. g[n] = node
      BY <1>7 DEF Graph!With, GraphIn
    <3> QED BY <1>9, <1>11, <1>12, <3>1, <3>2
  <2>3. CASE s # slot
    <3>1. m.objects[s] = h.objects[s] /\ h.objects[s].data # n
      BY <1>2, <1>7, <2>1, <2>3 DEF NamesAreUnique
    <3>2. g[h.objects[s].data] = NodeIn(h, h.objects[s])
      BY <2>1, <3>1, GraphAt DEF Graph!With
    <3>3. NodeIn(m, m.objects[s]) = NodeIn(h, h.objects[s])
      BY <1>10, <2>1, <3>1
    <3> QED BY <1>9, <1>11, <1>12, <2>1, <3>2, <3>3
  <2> QED BY <2>2, <2>3
<1>14. RootIn(m) = RootIn(h) /\ SameRawCells(h, m)
  <2>1. \A c \in Registered : h.cells[c] \in Values
    BY RootCells
  <2> QED BY <1>1, <1>4, <2>1 DEF RootIn, SameRawCells
<1>15. InternedIn(m) = InternedIn(h)
  <2>1. \A id \in h.intern_table : ObjectOf(m, id).data = ObjectOf(h, id).data
    <3> TAKE id \in h.intern_table
    <3>1. PICK s \in Headers(h) : id = IdAt(h, s)
      BY CanonicalSlots
    <3>2. checked_slot(h, id) = s
      BY <3>1, IdOfBase DEF LayoutInv
    <3>3. checked_slot(m, id) = s
      BY <3>2, SamePlacesResolve DEF LayoutInv
    <3> QED BY <1>3, <3>2, <3>3 DEF ObjectOf
  <2> QED BY <1>1, <2>1 DEF InternedIn
<1> HIDE DEF g, n, node
<1>16. Leaves(RootIn(h), g, InternedIn(h), m)
  BY <1>6, <1>8, <1>9, <1>13, <1>14, <1>15 DEF Leaves
<1> QED BY <1>4, <1>6, <1>14, <1>16 DEF Updates, g, n, node

LEMMA BarredKeepsGraph ==
  ASSUME NEW h, LayoutInv(h), NamesAreUnique(h), NEW b, BarredAs(h, b)
  PROVE  SameGraph(h, b) /\ \A v \in Values : NameIn(b, v) = NameIn(h, v)
<1>1. Alike(h, b)
  BY DEF BarredAs, Alike
<1> QED BY <1>1, AlikeKeepsGraph

LEMMA MinorAfterBarrierThins ==
  ASSUME NEW h, LayoutInv(h), NamesAreUnique(h), ReferenceInv(h),
         NEW triggered, NEW roots \in Seq(Values), NEW g, g = MinorAfterBarrier(h, triggered, roots)
  PROVE  Thins(h, g)
<1> DEFINE minor == "Minor"
<1>1. g = collect_with_extra_roots(h, roots, minor) \/ g = h
  BY DEF MinorAfterBarrier
<1> HIDE DEF minor
<1>2. SameGraph(h, h)
  BY SameHeapSameGraph
<1>3. CASE g = h
  BY <1>2, <1>3 DEF SameGraph
<1>4. CASE g = collect_with_extra_roots(h, roots, minor)
  BY <1>4, CollectWithRootsThins
<1> QED BY <1>1, <1>3, <1>4

\* A node is described by the names of what it refers to.
LEMMA NodesAlike ==
  ASSUME NEW q \in Objects, NEW h, NEW g, \A v \in Values : NameIn(g, v) = NameIn(h, v)
  PROVE  NodeIn(g, q) = NodeIn(h, q)
<1>1. q.strong \in Seq(Values) /\ q.soft \in Seq(Values)
  BY ObjectFields
<1>2. \A i \in DOMAIN q.strong : NameIn(g, q.strong[i]) = NameIn(h, q.strong[i])
  BY <1>1
<1>3. \A i \in DOMAIN q.soft : NameIn(g, q.soft[i]) = NameIn(h, q.soft[i])
  BY <1>1
<1> QED BY <1>2, <1>3 DEF NodeIn

LEMMA StoredUpdates ==
  ASSUME NEW h, LayoutInv(h), NamesAreUnique(h), ReferenceInv(h), NEW owner \in Ids, Physical(h, owner),
         NEW shaded, NEW published, NEW q, StoresOnly(h, owner, shaded, published, q),
         NEW g, StoredAs(h, owner, shaded, published, q, g)
  PROVE  Updates(h, NameIn(h, owner), NodeIn(h, q), g)
<1>1. PICK b, twin, p, triggered, roots :
        /\ b = Barriers(h, owner, shaded, published) /\ shaded \subseteq Values
        /\ Replaces(b, checked_slot(h, owner), q) /\ roots \in Seq(Values)
        /\ g = MinorAfterBarrier(StoredIn(b, checked_slot(h, owner), q, twin, p), triggered, roots)
  BY DEF StoredAs
<1> DEFINE slot == checked_slot(h, owner)
           m == StoredIn(b, slot, q, twin, p)
<1>2. BarredAs(h, b) /\ Recorded(h, owner, shaded, published, b)
  BY <1>1, CurrentResolves, BarriersKeep
<1>3. LayoutInv(b) /\ Replaces(b, slot, q)
  BY <1>1, <1>2 DEF BarredAs
<1>4. m = StoredIn(b, slot, q, twin, p) /\ g = MinorAfterBarrier(m, triggered, roots)
      /\ slot = checked_slot(h, owner)
  BY <1>1
<1> HIDE DEF m, slot
<1>5. LayoutInv(m) /\ SamePlaces(b, m) /\ MutatedAs(b, slot, q, m)
  BY <1>3, <1>4, StoredKeeps
<1>6. RefOverwrites(h, m)
  BY <1>1, <1>2, <1>4, <1>5, StoredOverwrites
<1>7. ReferenceInv(m)
  BY <1>5, <1>6, OverwritesKeepReferences
<1>8. SameGraph(h, b) /\ \A v \in Values : NameIn(b, v) = NameIn(h, v)
  BY <1>2, BarredKeepsGraph
<1>9. NamesAreUnique(b)
  BY <1>8 DEF SameGraph, Thins
<1>10. slot \in Headers(b) /\ q \in Objects /\ q.data = b.objects[slot].data
  BY <1>3 DEF Replaces
<1>11. Updates(b, q.data, NodeIn(b, q), m)
  BY <1>3, <1>5, <1>9, <1>10, MutatedUpdates
<1>12. NodeIn(b, q) = NodeIn(h, q)
  BY <1>8, <1>10, NodesAlike
<1>13. q.data = NameIn(h, owner)
  <2>1. Resolves(h, owner)
    BY CurrentResolves
  <2>2. NameIn(h, owner) = h.objects[slot].data
    BY <1>4, <2>1, NameOfReference
  <2> QED BY <1>2, <1>10, <2>2 DEF BarredAs
<1>14. Updates(h, NameIn(h, owner), NodeIn(h, q), m)
  BY <1>8, <1>11, <1>12, <1>13, UpdatesFrom
<1>15. Thins(m, g)
  BY <1>1, <1>4, <1>5, <1>7, <1>14, MinorAfterBarrierThins DEF Updates
<1> QED BY <1>5, <1>14, <1>15, UpdatesOn

LEMMA NodeOfReference ==
  ASSUME NEW h, LayoutInv(h), NamesAreUnique(h), NEW v \in Ids, Resolves(h, v)
  PROVE  /\ NameIn(h, v) \in NamesIn(h) /\ NameIn(h, v) = ObjectOf(h, v).data
         /\ GraphIn(h)[NameIn(h, v)] = NodeIn(h, ObjectOf(h, v))
<1>1. NameIn(h, v) = h.objects[checked_slot(h, v)].data /\ checked_slot(h, v) \in Headers(h)
  BY NameOfReference
<1> QED BY <1>1, GraphAt DEF ObjectOf

\* The canonical form of a reference has its name.
LEMMA CanonicalName ==
  ASSUME NEW h, LayoutInv(h), NEW v \in Values, is_object(v) => Resolves(h, v),
         NEW w, w = canonicalize_incremental_compaction_read(h, v)
  PROVE  w \in Values /\ (is_object(w) => Resolves(h, w)) /\ NameIn(h, w) = NameIn(h, v)
<1>1. w \in Values /\ (is_object(w) <=> is_object(v))
      /\ (Resolves(h, v) => Resolves(h, w) /\ checked_slot(h, w) = checked_slot(h, v))
  BY CanonicalReference
<1> QED BY <1>1 DEF NameIn, ObjectOf, is_object

LEMMA FieldNode ==
  ASSUME NEW h, NEW o \in Objects, NEW i \in DOMAIN o.strong, NEW v, NEW q, q = [o EXCEPT !.strong[i] = v]
  PROVE  NodeIn(h, q) = [NodeIn(h, o) EXCEPT !.strong[i] = NameIn(h, v)]
<1> DEFINE a == [j \in DOMAIN o.strong |-> NameIn(h, o.strong[j])]
           b == [j \in DOMAIN q.strong |-> NameIn(h, q.strong[j])]
           x == NameIn(h, v)
<1>1. /\ q.kind = o.kind /\ q.soft = o.soft /\ q.text = o.text
      /\ DOMAIN q.strong = DOMAIN o.strong
      /\ \A j \in DOMAIN o.strong : q.strong[j] = IF j = i THEN v ELSE o.strong[j]
  BY DEF Objects
<1>2. \A j \in DOMAIN o.strong :
        NameIn(h, q.strong[j]) = IF j = i THEN NameIn(h, v) ELSE NameIn(h, o.strong[j])
  BY <1>1
<1>3. [j \in DOMAIN o.strong |-> NameIn(h, q.strong[j])] =
        [j \in DOMAIN o.strong |-> IF j = i THEN NameIn(h, v) ELSE NameIn(h, o.strong[j])]
  BY ONLY <1>2
<1>4. [[j \in DOMAIN o.strong |-> NameIn(h, o.strong[j])] EXCEPT ![i] = NameIn(h, v)] =
        [j \in DOMAIN o.strong |-> IF j = i THEN NameIn(h, v) ELSE NameIn(h, o.strong[j])]
  OBVIOUS
<1>5. b = [a EXCEPT ![i] = x]
  BY <1>1, <1>3, <1>4
<1>6. /\ NodeIn(h, o).strong = a /\ IsNode(NodeIn(h, o)) /\ IsNode(NodeIn(h, q))
      /\ NodeIn(h, q).strong = b /\ NodeIn(h, q).kind = NodeIn(h, o).kind
      /\ NodeIn(h, q).soft = NodeIn(h, o).soft /\ NodeIn(h, q).text = NodeIn(h, o).text
  BY <1>1 DEF NodeIn, IsNode, WithSoft
<1> HIDE DEF a, b, x
<1>7. NodeIn(h, q) = [NodeIn(h, o) EXCEPT !.strong[i] = x]
  BY <1>5, <1>6 DEF IsNode, WithSoft
<1> QED BY <1>7 DEF x

LEMMA StoreFieldUpdates ==
  ASSUME NEW h, LayoutInv(h), NamesAreUnique(h), ReferenceInv(h), NEW owner \in Ids, Physical(h, owner),
         NEW i \in DOMAIN ObjectOf(h, owner).strong,
         NEW value \in Values, is_object(value) => Resolves(h, value),
         NEW g, g = store_field(h, owner, i, value)
  PROVE  Updates(h, NameIn(h, owner),
                 [NodeIn(h, ObjectOf(h, owner)) EXCEPT !.strong[i] = NameIn(h, value)], g)
<1>1. Resolves(h, owner)
  BY CurrentResolves
<1>2. PICK v, q : FieldStored(h, owner, i, value, v, q, g)
  BY <1>1, StoreFieldKeeps
<1> DEFINE shaded == {v}
           o == ObjectOf(h, owner)
<1>3. /\ v = canonicalize_incremental_compaction_read(h, value)
      /\ q = [ObjectOf(h, owner) EXCEPT !.strong[i] = v]
      /\ StoredAs(h, owner, shaded, shaded, q, g)
  BY <1>2 DEF FieldStored
<1>4. ObjectOf(h, owner) \in Objects /\ v \in Values /\ (v # Nil => Resolves(h, v))
  BY <1>3, ValueCanBeStored
<1>5. v \in shaded /\ \A w \in shaded \ {Nil} : Resolves(h, w)
  BY <1>4
<1> HIDE DEF shaded
<1>6. StoresOnly(h, owner, shaded, shaded, q)
  BY <1>3, <1>4, <1>5, FieldStoresOnly
<1>7. Updates(h, NameIn(h, owner), NodeIn(h, q), g)
  BY <1>3, <1>6, StoredUpdates
<1>8. NameIn(h, v) = NameIn(h, value)
  BY <1>3, CanonicalName
<1>9. NodeIn(h, q) = [NodeIn(h, o) EXCEPT !.strong[i] = NameIn(h, v)]
  BY <1>3, <1>4, FieldNode
<1> QED BY <1>7, <1>8, <1>9 DEF o

LEMMA StoreEphemeronUpdates ==
  ASSUME NEW h, LayoutInv(h), NamesAreUnique(h), ReferenceInv(h), NEW owner \in Ids, Physical(h, owner),
         ObjectOf(h, owner).kind = "Ephemeron", is_object(ObjectOf(h, owner).soft[1]),
         NEW value \in Values, is_object(value) => Resolves(h, value),
         NEW g, g = store_ephemeron_value(h, owner, value)
  PROVE  Updates(h, NameIn(h, owner),
                 [NodeIn(h, ObjectOf(h, owner)) EXCEPT !.soft = <<@[1], NameIn(h, value)>>], g)
<1>1. Resolves(h, owner) /\ owner \in Values
  BY CurrentResolves, IdsAreReferences
<1>2. PICK v, q : ValueStored(h, owner, value, v, q, g)
  BY <1>1, StoreEphemeronKeeps
<1> DEFINE shaded == {v}
           o == ObjectOf(h, owner)
<1>3. /\ v = canonicalize_incremental_compaction_read(h, value)
      /\ q = [o EXCEPT !.soft[2] = v] /\ StoredAs(h, owner, shaded, shaded, q, g)
  BY <1>2 DEF ValueStored
<1>4. o \in Objects /\ v \in Values /\ (v # Nil => Resolves(h, v))
  BY <1>3, ValueCanBeStored
<1>5. \A w \in shaded \ {Nil} : Resolves(h, w)
  BY <1>4
<1>6. o = ObjectOf(h, owner) /\ o.kind = "Ephemeron"
  OBVIOUS
<1>7. o.soft \in Seq(Values) /\ Len(o.soft) = 2
  <2>1. validate_descriptor_shape(o)
    BY <1>1, ResolvedObject
  <2> QED BY <1>4, <1>6, <2>1, ObjectFields DEF validate_descriptor_shape, EphemeronAndBuilderShape
<1> HIDE DEF shaded, o
<1>8. q.age = o.age /\ q.marked = o.marked /\ q.strong = o.strong
  BY <1>3, <1>4 DEF Objects
<1>9. StoresOnly(h, owner, shaded, shaded, q)
  BY <1>5, <1>6, <1>8 DEF StoresOnly, visit_reference_fields
<1>10. Updates(h, NameIn(h, owner), NodeIn(h, q), g)
  BY <1>3, <1>9, StoredUpdates
<1>11. NameIn(h, v) = NameIn(h, value)
  BY <1>3, CanonicalName
<1>12. NodeIn(h, q) = [NodeIn(h, o) EXCEPT !.soft = <<@[1], NameIn(h, value)>>]
  <2> DEFINE a == [j \in DOMAIN o.soft |-> NameIn(h, o.soft[j])]
             b == [j \in DOMAIN q.soft |-> NameIn(h, q.soft[j])]
             x == NameIn(h, value)
  <2>1. DOMAIN o.soft = {1, 2}
    BY <1>7
  <2>2. /\ q.kind = o.kind /\ q.strong = o.strong /\ q.text = o.text
        /\ DOMAIN q.soft = {1, 2} /\ q.soft[1] = o.soft[1] /\ q.soft[2] = v
    BY <1>3, <1>4, <2>1 DEF Objects
  <2>3. /\ NodeIn(h, o).soft = a /\ IsNode(NodeIn(h, o)) /\ IsNode(NodeIn(h, q))
        /\ NodeIn(h, q).soft = b /\ NodeIn(h, q).kind = NodeIn(h, o).kind
        /\ NodeIn(h, q).strong = NodeIn(h, o).strong /\ NodeIn(h, q).text = NodeIn(h, o).text
    BY <2>2 DEF NodeIn, IsNode, WithSoft
  <2>4. b = <<a[1], x>>
    <3>1. DOMAIN b = 1 .. 2 /\ b[1] = a[1] /\ b[2] = x
      BY <1>11, <2>1, <2>2
    <3>2. b = [j \in DOMAIN q.soft |-> b[j]]
      OBVIOUS
    <3> HIDE DEF a, b, x
    <3> QED BY <2>2, <3>1, <3>2
  <2> HIDE DEF a, b, x
  <2>5. NodeIn(h, q) = [NodeIn(h, o) EXCEPT !.soft = <<@[1], x>>]
    BY <2>3, <2>4 DEF IsNode, WithSoft
  <2> QED BY <2>5 DEF x
<1> QED BY <1>6, <1>10, <1>12

LEMMA UpdateMapUpdates ==
  ASSUME NEW h, LayoutInv(h), NamesAreUnique(h), ReferenceInv(h), NEW owner \in Ids, Physical(h, owner),
         NEW entry, 2 * entry \in DOMAIN ObjectOf(h, owner).strong,
         NEW key \in Values, is_object(key) => Resolves(h, key),
         NEW value \in Values, is_object(value) => Resolves(h, value),
         NEW g, g = update_map_entry(h, owner, entry, key, value)
  PROVE  Updates(h, NameIn(h, owner),
                 [NodeIn(h, ObjectOf(h, owner)) EXCEPT !.strong[2 * entry] = NameIn(h, value)], g)
<1>1. Resolves(h, owner)
  BY CurrentResolves
<1>2. PICK k, v, q : EntryStored(h, owner, entry, key, value, k, v, q, g)
  BY <1>1, UpdateMapKeeps
<1> DEFINE shaded == {k, v}
           published == {v}
           i == 2 * entry
           o == ObjectOf(h, owner)
<1>3. /\ k = canonicalize_incremental_compaction_read(h, key)
      /\ v = canonicalize_incremental_compaction_read(h, value)
      /\ q = [ObjectOf(h, owner) EXCEPT !.strong[i] = v]
      /\ StoredAs(h, owner, shaded, published, q, g) /\ i \in DOMAIN ObjectOf(h, owner).strong
  BY <1>2 DEF EntryStored
<1>4. ObjectOf(h, owner) \in Objects /\ v \in Values /\ (v # Nil => Resolves(h, v))
  BY <1>3, ValueCanBeStored
<1>5. k # Nil => Resolves(h, k)
  BY <1>3, ValueCanBeStored
<1>6. v \in shaded /\ v \in published /\ \A w \in shaded \ {Nil} : Resolves(h, w)
  BY <1>4, <1>5
<1> HIDE DEF shaded, published, i
<1>7. StoresOnly(h, owner, shaded, published, q)
  BY <1>3, <1>4, <1>6, FieldStoresOnly
<1>8. Updates(h, NameIn(h, owner), NodeIn(h, q), g)
  BY <1>3, <1>7, StoredUpdates
<1>9. NameIn(h, v) = NameIn(h, value)
  BY <1>3, CanonicalName
<1>10. NodeIn(h, q) = [NodeIn(h, o) EXCEPT !.strong[i] = NameIn(h, v)]
  BY <1>3, <1>4, FieldNode
<1> QED BY <1>8, <1>9, <1>10 DEF o, i

LEMMA NamedResolves ==
  ASSUME NEW h, NEW v, NameIn(h, v) \in Nat
  PROVE  is_object(v) /\ Resolves(h, v)
BY NamesAssumption DEF NameIn, is_object, Resolves

LEMMA RetextedUpdates ==
  ASSUME NEW h, LayoutInv(h), NamesAreUnique(h), NEW slot, NEW text, NEW g, LayoutInv(g),
         Retexted(h, slot, text, g)
  PROVE  /\ slot \in Headers(h)
         /\ Updates(h, h.objects[slot].data, [NodeIn(h, h.objects[slot]) EXCEPT !.text = text], g)
         /\ slot \in Headers(g) /\ g.objects[slot].data = h.objects[slot].data
         /\ g.objects[slot].text = text
<1>1. PICK q : MutatedAs(h, slot, q, g) /\ WithText(h.objects[slot], text, q)
  BY DEF Retexted
<1>2. slot \in Headers(h) /\ SamePlaces(h, g)
  BY DEF Retexted
<1>3. Updates(h, q.data, NodeIn(h, q), g) /\ q.data = h.objects[slot].data
  BY <1>1, <1>2, MutatedUpdates DEF WithText
<1>4. NodeIn(h, q) = [NodeIn(h, h.objects[slot]) EXCEPT !.text = text]
  <2> DEFINE a == NodeIn(h, h.objects[slot])
             b == NodeIn(h, q)
  <2>1. /\ IsNode(a) /\ IsNode(b) /\ b.kind = a.kind /\ b.strong = a.strong /\ b.soft = a.soft
        /\ b.text = text
    BY <1>1 DEF NodeIn, IsNode, WithSoft, WithText
  <2> HIDE DEF a, b
  <2>2. b = [a EXCEPT !.text = text]
    BY <2>1 DEF IsNode, WithSoft
  <2> QED BY <2>2 DEF a, b
<1>5. g.objects[slot] = q /\ slot \in Headers(g)
  <2>1. slot \in DOMAIN h.objects
    BY <1>2 DEF Headers
  <2> QED BY <1>1, <1>2, <2>1 DEF MutatedAs, SamePlaces
<1> QED BY <1>1, <1>2, <1>3, <1>4, <1>5 DEF WithText

\* Both operands as the mutator names them.
Appends(h, n, source, g) ==
  LET node == GraphIn(h)[n]
  IN  Updates(h, n, [node EXCEPT !.text = node.text \o GraphIn(h)[source].text], g)

LEMMA ExtendsUpdates ==
  ASSUME NEW h, LayoutInv(h), NamesAreUnique(h), h.extra \in Seq(Values),
         1 \in DOMAIN h.extra, 2 \in DOMAIN h.extra,
         Resolves(h, h.extra[1]), Resolves(h, h.extra[2]), NEW g, LayoutInv(g), Extends(h, g)
  PROVE  Appends(h, NameIn(h, h.extra[1]), NameIn(h, h.extra[2]), g)
<1> DEFINE o == h.extra[1]
           v == h.extra[2]
           slot == checked_slot(h, o)
           text == AppendedText(h)
<1>1. o \in Ids /\ v \in Ids
  BY ResolvedObject
<1>2. Retexted(h, slot, text, g)
  BY DEF Extends
<1>3. h.objects[slot] = ObjectOf(h, o) /\ text = ObjectOf(h, o).text \o ObjectOf(h, v).text
  BY DEF ObjectOf, AppendedText
<1> HIDE DEF slot, text, o, v
<1>4. Updates(h, h.objects[slot].data, [NodeIn(h, h.objects[slot]) EXCEPT !.text = text], g)
  BY <1>2, RetextedUpdates
<1>5. /\ NameIn(h, o) = ObjectOf(h, o).data
      /\ GraphIn(h)[NameIn(h, o)] = NodeIn(h, ObjectOf(h, o))
      /\ GraphIn(h)[NameIn(h, v)] = NodeIn(h, ObjectOf(h, v))
  BY <1>1, NodeOfReference DEF o, v
<1>6. NodeIn(h, ObjectOf(h, o)).text = ObjectOf(h, o).text
      /\ NodeIn(h, ObjectOf(h, v)).text = ObjectOf(h, v).text
  BY DEF NodeIn
<1>7. Appends(h, NameIn(h, o), NameIn(h, v), g)
  BY <1>3, <1>4, <1>5, <1>6 DEF Appends
<1> QED BY <1>7 DEF o, v

LEMMA BuilderAppendUpdates ==
  ASSUME NEW h, LayoutInv(h), NamesAreUnique(h), ReferenceInv(h),
         NEW owner \in Values, Resolves(h, owner), NEW source \in Values, Resolves(h, source),
         NEW g, LayoutInv(g), BuilderGrown(h, owner, source, g)
  PROVE  Appends(h, NameIn(h, owner), NameIn(h, source), g)
<1>1. PICK operands \in Seq(Values) :
        LET start == [h EXCEPT !.extra = operands]
        IN  /\ operands = <<canonicalize_incremental_compaction_read(h, owner),
                            canonicalize_incremental_compaction_read(h, source)>>
            /\ \/ Extends(start, g)
               \/ \E width, grown : GrownFor(start, width, grown) /\ Extends(grown, g)
  BY DEF BuilderGrown
<1> DEFINE start == [h EXCEPT !.extra = operands]
           o == canonicalize_incremental_compaction_read(h, owner)
           v == canonicalize_incremental_compaction_read(h, source)
<1>2. /\ start = [h EXCEPT !.extra = operands] /\ operands = <<o, v>>
      /\ \/ Extends(start, g)
         \/ \E width, grown : GrownFor(start, width, grown) /\ Extends(grown, g)
  BY <1>1
<1>3. /\ o \in Values /\ Resolves(h, o) /\ NameIn(h, o) = NameIn(h, owner)
      /\ v \in Values /\ Resolves(h, v) /\ NameIn(h, v) = NameIn(h, source)
  <2>1. is_object(owner) /\ is_object(source)
    BY DEF Resolves
  <2> QED BY <2>1, CanonicalName, CanonicalReference
<1> HIDE DEF start, o, v
<1>4. /\ SameGraph(h, start) /\ LayoutInv(start) /\ NamesAreUnique(start) /\ start.extra = operands
      /\ \A w \in Values : NameIn(start, w) = NameIn(h, w)
  BY <1>1, <1>2, RootedKeepsGraph
<1>5. ReferenceInv(start)
  BY <1>1, <1>2, RootedKeepsReferences
<1>6. Len(operands) = 2 /\ operands[1] = o /\ operands[2] = v /\ DOMAIN operands = {1, 2}
  <2>1. Len(operands) = 2 /\ operands[1] = o /\ operands[2] = v
    BY <1>2
  <2>2. DOMAIN operands = 1 .. 2
    BY <2>1, LenProperties
  <2> QED BY <2>1, <2>2
<1>7. NameIn(h, o) \in Nat /\ NameIn(h, v) \in Nat
  <2>1. o \in Ids /\ v \in Ids
    BY <1>3, ResolvedObject
  <2> QED BY <1>3, <2>1, NameOfReference
<1>8. Resolves(start, o) /\ Resolves(start, v)
  BY <1>3, <1>4, <1>7, NamedResolves
<1>9. ASSUME NEW m, LayoutInv(m), SameGraph(h, m), m.extra \in Seq(Values), Len(m.extra) = 2,
             NameIn(m, m.extra[1]) = NameIn(h, o), NameIn(m, m.extra[2]) = NameIn(h, v), Extends(m, g)
      PROVE  Appends(h, NameIn(h, owner), NameIn(h, source), g)
  <2>1. DOMAIN m.extra = {1, 2}
    <3>1. DOMAIN m.extra = 1 .. 2
      BY <1>9, LenProperties
    <3> QED BY <3>1
  <2>2. Resolves(m, m.extra[1]) /\ Resolves(m, m.extra[2])
    BY <1>7, <1>9, NamedResolves
  <2>3. NamesAreUnique(m) /\ GraphIn(m) = GraphIn(h)
    BY <1>9, SameGraphIs
  <2>4. Appends(m, NameIn(m, m.extra[1]), NameIn(m, m.extra[2]), g)
    BY <1>9, <2>1, <2>2, <2>3, ExtendsUpdates
  <2>5. Appends(m, NameIn(h, owner), NameIn(h, source), g)
    BY <1>3, <1>9, <2>4
  <2> QED BY <1>9, <2>3, <2>5, UpdatesFrom DEF Appends
<1>10. CASE Extends(start, g)
  BY <1>3, <1>4, <1>6, <1>9, <1>10
<1>11. CASE \E width, grown : GrownFor(start, width, grown) /\ Extends(grown, g)
  <2>1. PICK width, grown : GrownFor(start, width, grown) /\ Extends(grown, g)
    BY <1>11
  <2>2. OperandsResolve(start)
    BY <1>4, <1>6, <1>8 DEF OperandsResolve
  <2>3. LayoutInv(grown) /\ SameGraph(start, grown) /\ OperandsGoAlong(start, grown)
    BY <1>4, <1>5, <2>1, <2>2, GrownForKeepsGraph
  <2>4. SameGraph(h, grown)
    BY <1>4, <2>3, SameGraphOn
  <2>5. grown.extra \in Seq(Values) /\ Len(grown.extra) = 2
    BY <1>4, <1>6, <2>3 DEF OperandsGoAlong, LayoutInv, HeapIsTyped
  <2>6. NameIn(grown, grown.extra[1]) = NameIn(h, o) /\ NameIn(grown, grown.extra[2]) = NameIn(h, v)
    BY <1>3, <1>4, <1>6, <2>3 DEF OperandsGoAlong, SameName
  <2> QED BY <1>9, <2>1, <2>3, <2>4, <2>5, <2>6
<1> QED BY <1>2, <1>10, <1>11

\* The entry is added after what the map holds.
InsertsEntry(h, n, k, v, g) ==
  Updates(h, n, [GraphIn(h)[n] EXCEPT !.strong = @ \o <<k, v>>], g)

LEMMA SequenceOf ==
  ASSUME NEW S, NEW z \in Nat, NEW b, b = [j \in 1 .. z |-> b[j]], \A j \in 1 .. z : b[j] \in S
  PROVE  b \in Seq(S) /\ Len(b) = z
OBVIOUS

ShowsEntry(h, o, k, v, q) ==
  NodeIn(h, q) = [NodeIn(h, o) EXCEPT !.strong = @ \o <<NameIn(h, k), NameIn(h, v)>>]

\* Names go along with a concatenation.
LEMMA EntryNode ==
  ASSUME NEW h, NEW o \in Objects, NEW k, NEW v, NEW q \in Objects,
         NEW pair, pair = <<k, v>>, q.strong = o.strong \o pair,
         q.kind = o.kind, q.soft = o.soft, q.text = o.text
  PROVE  ShowsEntry(h, o, k, v, q)
<1> DEFINE a == [j \in DOMAIN o.strong |-> NameIn(h, o.strong[j])]
           b == [j \in DOMAIN q.strong |-> NameIn(h, q.strong[j])]
           names == <<NameIn(h, k), NameIn(h, v)>>
           n == Len(o.strong)
<1>1. o.strong \in Seq(Values) /\ q.strong \in Seq(Values)
  BY ObjectFields
<1>2. /\ n \in Nat /\ DOMAIN o.strong = 1 .. n /\ DOMAIN q.strong = 1 .. n + 2
      /\ \A j \in 1 .. n : q.strong[j] = o.strong[j]
      /\ q.strong[n + 1] = k /\ q.strong[n + 2] = v
  BY <1>1
<1>3. names[1] = NameIn(h, k) /\ names[2] = NameIn(h, v) /\ Len(names) = 2
  OBVIOUS
<1>4. /\ NodeIn(h, o).strong = a /\ IsNode(NodeIn(h, o)) /\ IsNode(NodeIn(h, q))
      /\ NodeIn(h, q).strong = b /\ NodeIn(h, q).kind = NodeIn(h, o).kind
      /\ NodeIn(h, q).soft = NodeIn(h, o).soft /\ NodeIn(h, q).text = NodeIn(h, o).text
  BY DEF NodeIn, IsNode, WithSoft
<1>5. /\ DOMAIN a = 1 .. n /\ \A j \in 1 .. n : a[j] = NameIn(h, o.strong[j])
      /\ DOMAIN b = 1 .. n + 2 /\ \A j \in 1 .. n + 2 : b[j] = NameIn(h, q.strong[j])
  BY <1>2
<1> DEFINE S == {a[j] : j \in 1 .. n} \cup {NameIn(h, k), NameIn(h, v)}
<1>6. a \in Seq(S) /\ Len(a) = n /\ names \in Seq(S) /\ b \in Seq(S) /\ Len(b) = n + 2
  <2>1. a = [j \in 1 .. n |-> a[j]] /\ \A j \in 1 .. n : a[j] \in S
    BY <1>2
  <2>2. b = [j \in 1 .. n + 2 |-> b[j]]
    BY <1>2
  <2>3. \A j \in 1 .. n + 2 : b[j] \in S
    <3> TAKE j \in 1 .. n + 2
    <3>1. CASE j \in 1 .. n
      BY <1>2, <1>5, <3>1
    <3>2. CASE j \notin 1 .. n
      <4>1. j = n + 1 \/ j = n + 2
        BY <1>2, <3>2
      <4> QED BY <1>2, <1>5, <4>1
    <3> QED BY <3>1, <3>2
  <2>4. NameIn(h, k) \in S /\ NameIn(h, v) \in S
    OBVIOUS
  <2>7. names \in Seq(S)
    BY <2>4
  <2>8. n + 2 \in Nat
    BY <1>2
  <2> DEFINE z == n + 2
  <2>9. z \in Nat /\ b = [j \in 1 .. z |-> b[j]] /\ \A j \in 1 .. z : b[j] \in S
    BY <2>2, <2>3, <2>8
  <2> HIDE DEF S, a, b, n, names, z
  <2>5. a \in Seq(S) /\ Len(a) = n
    BY <1>2, <2>1, SequenceOf
  <2>6. b \in Seq(S) /\ Len(b) = n + 2
    BY <2>9, SequenceOf DEF z
  <2> QED BY <2>5, <2>6, <2>7
<1> HIDE DEF S, a, b, n, names
<1>7. b = a \o names
  <2> DEFINE c == a \o names
  <2>1. /\ c \in Seq(S) /\ Len(c) = n + 2
        /\ \A j \in 1 .. n + 2 : c[j] = IF j <= n THEN a[j] ELSE names[j - n]
    <3>1. /\ a \o names \in Seq(S) /\ Len(a \o names) = Len(a) + Len(names)
          /\ \A j \in 1 .. Len(a) + Len(names) :
               (a \o names)[j] = IF j <= Len(a) THEN a[j] ELSE names[j - Len(a)]
      BY <1>6, ConcatProperties
    <3>2. Len(a) = n /\ Len(names) = 2
      BY <1>3, <1>6
    <3> QED BY <3>1, <3>2
  <2> HIDE DEF c
  <2>2. \A j \in 1 .. n + 2 : c[j] = b[j]
    <3> TAKE j \in 1 .. n + 2
    <3>1. CASE j <= n
      <4>1. j \in 1 .. n
        BY <1>2, <3>1
      <4> QED BY <1>2, <1>5, <2>1, <3>1, <4>1
    <3>2. CASE ~(j <= n)
      <4>1. (j = n + 1 /\ j - n = 1) \/ (j = n + 2 /\ j - n = 2)
        BY <1>2, <3>2
      <4> QED BY <1>2, <1>3, <1>5, <2>1, <3>2, <4>1
    <3> QED BY <3>1, <3>2
  <2>3. c = b
    BY <1>6, <2>1, <2>2, SeqEqual
  <2> QED BY <2>3 DEF c
<1>8. NodeIn(h, q) = [NodeIn(h, o) EXCEPT !.strong = @ \o names]
  BY <1>4, <1>7 DEF IsNode, WithSoft
<1> QED BY <1>8 DEF names, ShowsEntry

LEMMA InsertMapUpdates ==
  ASSUME NEW h, LayoutInv(h), NamesAreUnique(h), ReferenceInv(h),
         NEW owner \in Values, Resolves(h, owner), ObjectOf(h, owner).kind = "Map",
         NEW key \in Values, is_object(key) => Resolves(h, key),
         NEW value \in Values, is_object(value) => Resolves(h, value),
         NEW g, g = insert_map_entry(h, owner, key, value)
  PROVE  InsertsEntry(h, NameIn(h, owner), NameIn(h, key), NameIn(h, value), g)
<1>1. MapGrown(h, owner, key, value, g)
  BY InsertMapKeeps
<1>2. PICK operands, width, grown, q :
        /\ operands \in Seq(Values)
        /\ operands = <<owner, key, value>> /\ GrownFor([h EXCEPT !.extra = operands], width, grown)
        /\ EntryAdded(h, operands, grown, q, g)
  BY <1>1 DEF MapGrown
<1> DEFINE start == [h EXCEPT !.extra = operands]
           o == grown.extra[1]
           k == grown.extra[2]
           v == grown.extra[3]
           shaded == {k, v}
           m == ObjectOf(grown, o)
<1>3. start = [h EXCEPT !.extra = operands] /\ GrownFor(start, width, grown)
  BY <1>2
<1>4. operands[1] = owner /\ operands[2] = key /\ operands[3] = value /\ DOMAIN operands = {1, 2, 3}
  <2>1. operands[1] = owner /\ operands[2] = key /\ operands[3] = value /\ Len(operands) = 3
    BY <1>2
  <2>2. DOMAIN operands = 1 .. 3
    BY <1>2, <2>1, LenProperties
  <2> QED BY <2>1, <2>2
<1>5. /\ grown.phase # "compacting" /\ o \in Ids /\ Resolves(grown, o)
      /\ Becomes(h, key, grown, k) /\ Becomes(h, value, grown, v)
      /\ q = [m EXCEPT !.strong = @ \o <<k, v>>, !.length = @ + 1]
      /\ StoredAs(grown, o, shaded, shaded, q, g)
  BY <1>2, <1>4 DEF EntryAdded
<1> HIDE DEF start
<1>6. /\ SameGraph(h, start) /\ LayoutInv(start) /\ NamesAreUnique(start) /\ start.extra = operands
      /\ ReferenceInv(start) /\ \A w \in Values : NameIn(start, w) = NameIn(h, w)
  <2>1. operands \in Seq(Values) /\ start = [h EXCEPT !.extra = operands]
    BY <1>2, <1>3
  <2>2. /\ SameGraph(h, start) /\ LayoutInv(start) /\ NamesAreUnique(start) /\ start.extra = operands
        /\ \A w \in Values : NameIn(start, w) = NameIn(h, w)
    BY <2>1, RootedKeepsGraph
  <2>3. ReferenceInv(start)
    BY <2>1, RootedKeepsReferences
  <2> QED BY <2>2, <2>3
<1>7. OperandsResolve(start)
  <2>1. \A w : Resolves(start, w) <=> Resolves(h, w)
    <3>1. LayoutInv(start) /\ SamePlaces(h, start)
      BY <1>2, <1>3, RootedKeeps
    <3> QED BY <3>1, SamePlacesResolve DEF LayoutInv
  <2> QED BY <1>4, <1>6, <2>1 DEF OperandsResolve
<1>8. /\ LayoutInv(grown) /\ ReferenceInv(grown) /\ SameGraph(start, grown)
      /\ OperandsGoAlong(start, grown)
  BY <1>3, <1>6, <1>7, GrownForKeepsGraph
<1>9. SameGraph(h, grown)
  BY <1>6, <1>8, SameGraphOn
<1>10. /\ NameIn(grown, o) = NameIn(h, owner) /\ NameIn(grown, k) = NameIn(h, key)
       /\ NameIn(grown, v) = NameIn(h, value)
  BY <1>4, <1>6, <1>8 DEF OperandsGoAlong, SameName
<1> HIDE DEF o, k, v, shaded
<1>11. Physical(grown, o) /\ o \in Values
  BY <1>5, <1>8, StillResolves, IdsAreReferences
<1>12. (k # Nil => Resolves(grown, k)) /\ (v # Nil => Resolves(grown, v))
  BY <1>5 DEF Becomes, is_object
<1>13. m \in Objects
  BY <1>5, <1>8, <1>11, ResolvedObject
<1>14. m = ObjectOf(grown, o)
  OBVIOUS
<1> HIDE DEF m
<1> DEFINE pair == <<k, v>>
           strong == m.strong \o pair
<1>15. /\ q.age = m.age /\ q.marked = m.marked /\ q.strong = strong
       /\ q.kind = m.kind /\ q.soft = m.soft /\ q.text = m.text
  BY <1>5, <1>13 DEF Objects
<1>16. ASSUME NEW w \in visit_reference_fields(q)
       PROVE  w \in visit_reference_fields(m) \/ w \in shaded
  <2>1. PICK i \in DOMAIN strong : w = strong[i] /\ is_object(w)
    BY <1>15, <1>16 DEF visit_reference_fields
  <2>2. m.strong \in Seq(Values)
    BY <1>13, ObjectFields
  <2> DEFINE n == Len(m.strong)
  <2>3. /\ n \in Nat /\ DOMAIN strong = 1 .. n + 2 /\ DOMAIN m.strong = 1 .. n
        /\ \A j \in 1 .. n : strong[j] = m.strong[j]
        /\ \A j \in 1 .. n + 2 : j > n => strong[j] = pair[j - n]
    BY <2>2
  <2> HIDE DEF strong, n
  <2>4. CASE i \in 1 .. n
    <3>1. w = m.strong[i] /\ i \in DOMAIN m.strong
      BY <2>1, <2>3, <2>4
    <3> QED BY <2>1, <3>1 DEF visit_reference_fields
  <2>5. CASE i \notin 1 .. n
    <3>1. i - n \in {1, 2} /\ w = pair[i - n]
      BY <2>1, <2>3, <2>5
    <3>2. w = k \/ w = v
      BY <3>1
    <3> QED BY <3>2 DEF shaded
  <2> QED BY <2>4, <2>5
<1>17. \A w \in shaded \ {Nil} : Resolves(grown, w)
  BY <1>12 DEF shaded
<1>18. pair = <<k, v>> /\ q.strong = m.strong \o pair
  BY <1>15
<1> HIDE DEF strong, pair
<1>19. StoresOnly(grown, o, shaded, shaded, q)
  BY <1>14, <1>15, <1>16, <1>17 DEF StoresOnly
<1>20. NamesAreUnique(grown) /\ GraphIn(grown) = GraphIn(h)
  BY <1>9, SameGraphIs
<1>21. Updates(grown, NameIn(grown, o), NodeIn(grown, q), g)
  BY <1>5, <1>8, <1>11, <1>19, <1>20, StoredUpdates
<1>22. q \in Objects
  <2>1. \E b : Replaces(b, checked_slot(grown, o), q)
    BY <1>5 DEF StoredAs
  <2> QED BY <2>1 DEF Replaces
<1>23. NodeIn(grown, q) = [NodeIn(grown, m) EXCEPT !.strong = @ \o <<NameIn(grown, k), NameIn(grown, v)>>]
  <2> DEFINE ok == ShowsEntry(grown, m, k, v, q)
  <2>1. /\ m \in Objects /\ q \in Objects /\ pair = <<k, v>> /\ q.strong = m.strong \o pair
        /\ q.kind = m.kind /\ q.soft = m.soft /\ q.text = m.text
    BY <1>13, <1>15, <1>18, <1>22
  <2>2. ok
    <3>1. ShowsEntry(grown, m, k, v, q)
      BY ONLY <2>1, EntryNode
    <3> QED BY <3>1
  <2> QED BY <2>2 DEF ShowsEntry
<1>24. NodeIn(grown, m) = GraphIn(h)[NameIn(h, owner)]
  BY <1>5, <1>8, <1>10, <1>14, <1>20, NodeOfReference
<1>25. Updates(grown, NameIn(h, owner),
               [GraphIn(h)[NameIn(h, owner)] EXCEPT !.strong = @ \o <<NameIn(h, key), NameIn(h, value)>>], g)
  BY <1>10, <1>21, <1>23, <1>24
<1> QED BY <1>9, <1>25, UpdatesFrom DEF InsertsEntry


(***************************************************************************)
(* New objects.                                                            *)
(***************************************************************************)
\* The heap k has a new object, the operand, described by node.
Adds(h, node, k) ==
  /\ Updates(h, h.allocated, node, k)
  /\ k.allocated = h.allocated + 1 /\ NameIn(k, k.extra[1]) = h.allocated

LEMMA PlacedAdds ==
  ASSUME NEW h, LayoutInv(h), NamesAreUnique(h), StrongResolve(h), RootsAreCurrent(h),
         h.phase # "compacting",
         NEW q \in Objects, q.data = h.allocated,
         \A i \in DOMAIN q.strong : is_object(q.strong[i]) => Resolves(h, q.strong[i]),
         \A i \in DOMAIN q.soft : is_object(q.soft[i]) => Resolves(h, q.soft[i]),
         NEW base \in Nat, base + storage_slot_count(q) <= Size(h),
         Vacant(h, base, storage_slot_count(q)),
         NEW gen, gen = h.generations[base] + 1, NEW g, PlacedAs(h, base, gen, q, g), LayoutInv(g)
  PROVE  Adds(h, NodeIn(h, q), g)
<1> DEFINE w == storage_slot_count(q)
           new == make_object_id(base, gen)
           n == h.allocated
           node == NodeIn(h, q)
           G == Graph!With(GraphIn(h), n, node)
<1>1. /\ HeapIsTyped(h) /\ RunsFollow(h) /\ DOMAIN h.objects = 0 .. Size(h) - 1 /\ Size(h) \in Nat
      /\ DOMAIN h.generations = 0 .. Size(h) - 1 /\ Headers(h) \subseteq 0 .. Size(h) - 1
      /\ \A s \in Headers(h) : s \in Nat /\ Width(h, s) \in Nat \ {0}
      /\ HeapIsTyped(g) /\ RunsFollow(g)
  <2>1. HeapIsTyped(h) /\ RunsFollow(h) /\ HeapIsTyped(g) /\ RunsFollow(g)
    BY DEF LayoutInv
  <2> QED BY <2>1, HeaderIsObject
<1>2. base \in 0 .. Size(h) - 1 /\ base \notin Headers(h)
  <2>1. w \in Nat \ {0}
    BY WidthOfObject
  <2>2. base \in 0 .. Size(h) - 1
    BY <1>1, <2>1
  <2>3. base \notin Headers(h)
    BY <1>1, <2>1 DEF Vacant
  <2> QED BY <2>2, <2>3
<1>3. Headers(g) = Headers(h) \cup {base} /\ g.objects[base] = q
  <2>1. q # None
    BY NoneAssumption
  <2>2. g.objects = [h.objects EXCEPT ![base] = q]
    BY DEF PlacedAs
  <2> QED BY <1>1, <1>2, <2>1, <2>2 DEF Headers
<1>4. \A s \in Headers(h) : /\ s # base /\ g.objects[s] = h.objects[s]
                            /\ IdAt(g, s) = IdAt(h, s)
  BY <1>1, <1>2 DEF IdAt, PlacedAs
<1>5. IdAt(g, base) = new /\ checked_slot(g, new) = base /\ Resolves(g, new)
  <2>1. IdAt(g, base) = new
    BY <1>1, <1>2 DEF IdAt, PlacedAs
  <2>2. base \in Headers(g)
    BY <1>3
  <2> HIDE DEF new
  <2> QED BY <1>1, <2>1, <2>2, IdOfBase
<1>6. ASSUME NEW v \in Values, is_object(v) => Resolves(h, v)
      PROVE  NameIn(g, v) = NameIn(h, v)
  <2>1. CASE v = Nil
    BY <2>1, NameOfNil
  <2>2. CASE v # Nil
    <3>1. v \in Ids /\ Resolves(h, v)
      BY <1>6, <2>2 DEF Values, is_object
    <3>2. checked_slot(h, v) \in Headers(h) /\ v = IdAt(h, checked_slot(h, v))
      BY <3>1, StillResolves
    <3>3. v = IdAt(g, checked_slot(h, v)) /\ checked_slot(h, v) \in Headers(g)
      BY <1>3, <1>4, <3>2
    <3>4. Resolves(g, v) /\ checked_slot(g, v) = checked_slot(h, v)
      BY <1>1, <3>3, IdOfBase
    <3>5. ObjectOf(g, v) = ObjectOf(h, v)
      BY <1>4, <3>2, <3>4 DEF ObjectOf
    <3> QED BY <2>2, <3>1, <3>4, <3>5 DEF NameIn
  <2> QED BY <2>1, <2>2
<1>7. n \in Nat /\ n \notin NamesIn(h)
  <2>1. n \in Nat
    BY <1>1 DEF HeapIsTyped
  <2>2. \A s \in Headers(h) : h.objects[s].data < n /\ h.objects[s].data \in Nat
    <3>1. \A s \in Headers(h) : h.objects[s].data \in Nat
      BY <1>1, HeaderIsObject, ObjectFields
    <3> QED BY <3>1 DEF LayoutInv, NamesAreUsed
  <2> QED BY <2>1, <2>2 DEF NamesIn
<1>8. NamesIn(g) = NamesIn(h) \cup {n} /\ NamesAreUnique(g)
  <2>1. NamesIn(g) = NamesIn(h) \cup {n}
    BY <1>3, <1>4 DEF NamesIn
  <2>2. \A s \in Headers(h) : h.objects[s].data # n
    BY <1>7 DEF NamesIn
  <2>3. NamesAreUnique(g)
    BY <1>3, <1>4, <2>2 DEF NamesAreUnique
  <2> QED BY <2>1, <2>3
<1>9. DOMAIN G = NamesIn(h) \cup {n} /\ G[n] = node
  <2>1. DOMAIN GraphIn(h) = NamesIn(h)
    BY DEF GraphIn
  <2> QED BY <2>1 DEF Graph!With
<1>10. Gone(G, g) = {}
  BY <1>8, <1>9 DEF Gone
<1>11. \A x : IsNode(x) => Rest(x, {}) = x
  BY DEF IsNode, Rest, Graph!SoftWithout
<1>12. ASSUME NEW o \in Objects,
              \A i \in DOMAIN o.strong : is_object(o.strong[i]) => Resolves(h, o.strong[i]),
              \A i \in DOMAIN o.soft : is_object(o.soft[i]) => Resolves(h, o.soft[i])
       PROVE  NodeIn(g, o) = NodeIn(h, o) /\ IsNode(NodeIn(h, o))
  <2>1. o.strong \in Seq(Values) /\ o.soft \in Seq(Values)
    BY ObjectFields
  <2>2. \A i \in DOMAIN o.strong : NameIn(g, o.strong[i]) = NameIn(h, o.strong[i])
    BY <1>6, <1>12, <2>1
  <2>3. \A i \in DOMAIN o.soft : NameIn(g, o.soft[i]) = NameIn(h, o.soft[i])
    BY <1>6, <1>12, <2>1
  <2> QED BY <2>2, <2>3 DEF NodeIn, IsNode, WithSoft
<1>13. ASSUME NEW s \in Headers(g)
       PROVE  NodeIn(g, g.objects[s]) = Rest(G[g.objects[s].data], Gone(G, g))
  <2>1. CASE s = base
    <3>1. NodeIn(g, q) = node /\ IsNode(node)
      BY <1>12
    <3>2. g.objects[s] = q /\ q.data = n
      BY <1>3, <2>1
    <3> HIDE DEF G, node, n
    <3> QED BY <1>9, <1>10, <1>11, <3>1, <3>2
  <2>2. CASE s # base
    <3>1. s \in Headers(h) /\ g.objects[s] = h.objects[s]
      BY <1>3, <1>4, <2>2
    <3>2. h.objects[s] \in Objects
      BY <1>1, <3>1, HeaderIsObject
    <3>3. \A i \in DOMAIN h.objects[s].strong :
            is_object(h.objects[s].strong[i]) => Resolves(h, h.objects[s].strong[i])
      BY <3>1 DEF StrongResolve, visit_reference_fields
    <3>4. \A i \in DOMAIN h.objects[s].soft :
            is_object(h.objects[s].soft[i]) => Resolves(h, h.objects[s].soft[i])
      BY <3>1 DEF LayoutInv, RegistriesName, SoftReferences
    <3>5. NodeIn(g, h.objects[s]) = NodeIn(h, h.objects[s]) /\ IsNode(NodeIn(h, h.objects[s]))
      BY <1>12, <3>2, <3>3, <3>4
    <3>6. h.objects[s].data \in NamesIn(h) /\ h.objects[s].data # n
      BY <1>7, <3>1 DEF NamesIn
    <3>7. G[h.objects[s].data] = NodeIn(h, h.objects[s])
      BY <3>1, <3>6, GraphAt DEF Graph!With
    <3> HIDE DEF G
    <3> QED BY <1>10, <1>11, <3>1, <3>5, <3>7
  <2> QED BY <2>1, <2>2
<1>14. RootIn(g) = RootIn(h) /\ SameRawCells(h, g)
  <2>1. g.cells = h.cells
    BY DEF PlacedAs
  <2>2. ASSUME NEW c \in Registered PROVE NameIn(g, h.cells[c]) = NameIn(h, h.cells[c])
    <3>1. h.cells[c] \in Values
      BY RootCells
    <3>2. is_object(h.cells[c]) => h.cells[c] \in Ids /\ Physical(h, h.cells[c])
      BY <3>1 DEF RootsAreCurrent, Registered, Values, is_object
    <3> QED BY <1>6, <3>1, <3>2, CurrentResolves
  <2> QED BY <2>1, <2>2 DEF RootIn, SameRawCells
<1>15. InternedIn(g) = InternedIn(h)
  <2>1. g.intern_table = h.intern_table
    BY DEF PlacedAs
  <2>2. \A id \in h.intern_table : ObjectOf(g, id).data = ObjectOf(h, id).data
    <3> TAKE id \in h.intern_table
    <3>1. PICK s \in Headers(h) : id = IdAt(h, s)
      BY CanonicalSlots
    <3>2. checked_slot(h, id) = s
      BY <1>1, <3>1, IdOfBase
    <3>3. id = IdAt(g, s) /\ s \in Headers(g)
      BY <1>3, <1>4, <3>1
    <3>4. checked_slot(g, id) = s
      BY <1>1, <3>3, IdOfBase
    <3> QED BY <1>4, <3>1, <3>2, <3>4 DEF ObjectOf
  <2> QED BY <2>1, <2>2 DEF InternedIn
<1>16. /\ g.allocated = h.allocated + 1 /\ g.extra[1] = new
  BY DEF PlacedAs
<1>17. NameIn(g, g.extra[1]) = n
  <2>1. new # Nil
    BY <1>5, <1>3, <1>1, IdOfBase, NilAssumption
  <2> HIDE DEF new
  <2> QED BY <1>3, <1>5, <1>16, <2>1 DEF NameIn, ObjectOf
<1>18. Leaves(RootIn(h), G, InternedIn(h), g)
  <2> HIDE DEF G, node, n
  <2> QED BY <1>8, <1>9, <1>10, <1>13, <1>14, <1>15 DEF Leaves
<1> QED BY <1>8, <1>14, <1>16, <1>17, <1>18 DEF Adds, Updates

\* An object is described by the names of its references before it is placed.
LEMMA SplitNode ==
  ASSUME NEW h, NEW o \in Objects, NEW start, start.extra = References(o),
         \A v \in Values : NameIn(start, v) = NameIn(h, v),
         NEW room, OperandsGoAlong(start, room), Len(room.extra) = Len(References(o)),
         room.extra \in Seq(Values), NEW q, SplitAs(o, room.extra, q)
  PROVE  NodeIn(room, q) = NodeIn(h, o)
<1> DEFINE refs == References(o)
<1>1. o.strong \in Seq(Values) /\ o.soft \in Seq(Values) /\ refs \in Seq(Values)
      /\ q.strong \in Seq(Values) /\ q.soft \in Seq(Values)
  BY ObjectFields DEF References, SplitAs
<1>2. DOMAIN refs = DOMAIN room.extra
  <2>1. DOMAIN refs = 1 .. Len(refs) /\ DOMAIN room.extra = 1 .. Len(room.extra)
    BY <1>1, LenProperties
  <2> QED BY <2>1
<1> HIDE DEF refs
<1>3. \A j \in DOMAIN room.extra : refs[j] \in Values /\ NameIn(room, room.extra[j]) = NameIn(h, refs[j])
  <2> TAKE j \in DOMAIN room.extra
  <2>1. j \in DOMAIN refs /\ refs[j] \in Values
    BY <1>1, <1>2
  <2>2. SameName(start, start.extra[j], room, room.extra[j]) /\ start.extra[j] = refs[j]
    BY <2>1 DEF OperandsGoAlong, refs
  <2> QED BY <2>1, <2>2 DEF SameName
<1>4. DOMAIN q.strong = DOMAIN o.strong /\ DOMAIN q.soft = DOMAIN o.soft
  <2>1. /\ DOMAIN q.strong = 1 .. Len(q.strong) /\ DOMAIN o.strong = 1 .. Len(o.strong)
        /\ DOMAIN q.soft = 1 .. Len(q.soft) /\ DOMAIN o.soft = 1 .. Len(o.soft)
    BY <1>1, LenProperties
  <2> QED BY <2>1 DEF SplitAs
<1>5. \A i \in DOMAIN o.strong : NameIn(room, q.strong[i]) = NameIn(h, o.strong[i])
  <2> TAKE i \in DOMAIN o.strong
  <2>1. i \in DOMAIN room.extra /\ q.strong[i] = room.extra[i] /\ refs[i] = o.strong[i]
    BY <1>4 DEF SplitAs, refs
  <2> QED BY <1>3, <2>1
<1>6. \A i \in DOMAIN o.soft : NameIn(room, q.soft[i]) = NameIn(h, o.soft[i])
  <2> TAKE i \in DOMAIN o.soft
  <2> DEFINE j == Len(o.strong) + i
  <2>1. j \in DOMAIN room.extra /\ q.soft[i] = room.extra[j] /\ refs[j] = o.soft[i]
    BY <1>4 DEF SplitAs, refs
  <2> HIDE DEF j
  <2> QED BY <1>3, <2>1
<1>7. [i \in DOMAIN q.strong |-> NameIn(room, q.strong[i])] = [i \in DOMAIN o.strong |-> NameIn(h, o.strong[i])]
  BY ONLY <1>4, <1>5
<1>8. [i \in DOMAIN q.soft |-> NameIn(room, q.soft[i])] = [i \in DOMAIN o.soft |-> NameIn(h, o.soft[i])]
  BY ONLY <1>4, <1>6
<1> QED BY <1>7, <1>8 DEF NodeIn, SplitAs

LEMMA AllocateObjectAdds ==
  ASSUME NEW h, LayoutInv(h), NamesAreUnique(h), ReferenceInv(h), NEW o, FitsStrongly(h, o),
         NEW g, g = allocate_object(h, o)
  PROVE  Adds(h, NodeIn(h, o), g)
<1>1. Allocated(h, o, g) /\ Constructed(h, o, g)
  BY AllocateObjectKeeps DEF FitsStrongly
<1>2. PICK k, n, room, base, gen, q :
        /\ k = CompactionFinished([h EXCEPT !.extra = References(o)])
        /\ Places(k, n, room, base, gen, q, g)
        /\ SplitAs(o, room.extra, q)
  BY <1>1 DEF Constructed
<1> DEFINE refs == References(o)
           start == [h EXCEPT !.extra = refs]
<1>3. o \in Objects /\ refs \in Seq(Values) /\ o.strong \in Seq(Values) /\ o.soft \in Seq(Values)
  <2>1. o \in Objects
    BY DEF FitsStrongly, Fits
  <2> QED BY <2>1, ObjectFields DEF References
<1>4. start = [h EXCEPT !.extra = refs] /\ k = CompactionFinished(start) /\ refs = References(o)
  BY <1>2
<1> HIDE DEF refs, start
<1>5. /\ LayoutInv(start) /\ ReferenceInv(start) /\ NamesAreUnique(start) /\ SameGraph(h, start)
      /\ start.extra = refs /\ SamePlaces(h, start)
      /\ \A v \in Values : NameIn(start, v) = NameIn(h, v)
  <2>1. LayoutInv(start) /\ SamePlaces(h, start)
    BY <1>3, <1>4, RootedKeeps
  <2>2. ReferenceInv(start)
    BY <1>3, <1>4, RootedKeepsReferences
  <2>3. /\ NamesAreUnique(start) /\ SameGraph(h, start) /\ start.extra = refs
        /\ \A v \in Values : NameIn(start, v) = NameIn(h, v)
    BY <1>3, <1>4, RootedKeepsGraph
  <2> QED BY <2>1, <2>2, <2>3
<1>6. \A i \in DOMAIN refs : is_object(refs[i]) => Resolves(h, refs[i])
  <2>1. \A i \in DOMAIN o.strong : is_object(o.strong[i]) => Resolves(h, o.strong[i])
    BY DEF FitsStrongly, visit_reference_fields
  <2>2. \A i \in DOMAIN o.soft : is_object(o.soft[i]) => Resolves(h, o.soft[i])
    BY DEF FitsStrongly, Fits, SoftReferences
  <2>3. ASSUME NEW i \in DOMAIN refs
        PROVE  \/ i \in DOMAIN o.strong /\ refs[i] = o.strong[i]
               \/ i - Len(o.strong) \in DOMAIN o.soft /\ refs[i] = o.soft[i - Len(o.strong)]
    <3> DEFINE a == o.strong
               b == o.soft
    <3>1. a \in Seq(Values) /\ b \in Seq(Values) /\ refs = a \o b /\ i \in DOMAIN refs
      BY <1>3, <1>4, <2>3 DEF References
    <3> HIDE DEF a, b
    <3>2. \/ i \in DOMAIN a /\ refs[i] = a[i]
          \/ i - Len(a) \in DOMAIN b /\ refs[i] = b[i - Len(a)]
      BY ONLY <3>1
    <3> QED BY <3>2 DEF a, b
  <2> QED BY <2>1, <2>2, <2>3
<1>7. OperandsResolve(start)
  <2>1. \A v : Resolves(start, v) <=> Resolves(h, v)
    BY <1>5, SamePlacesResolve DEF LayoutInv
  <2> QED BY <1>5, <1>6, <2>1 DEF OperandsResolve
<1>8. LayoutInv(k) /\ Carries(start, k)
  BY <1>4, <1>5, CompactionFinishedKeeps
<1>9. ReferenceInv(k) /\ SameGraph(start, k)
  BY <1>4, <1>5, CompactionFinishedKeepsReferences, CompactionFinishedKeepsGraph
<1>10. NamesAreUnique(k)
  BY <1>9 DEF SameGraph, Thins
<1>11. /\ LayoutInv(k) /\ n \in Nat /\ Size(k) <= n /\ ResizedAs(k, n, room)
       /\ LayoutInv(room) /\ room.phase # "compacting" /\ q \in Objects
       /\ base \in Nat /\ base + storage_slot_count(q) <= Size(room)
       /\ Vacant(room, base, storage_slot_count(q))
       /\ gen = room.generations[base] + 1 /\ PlacedAs(room, base, gen, q, g)
  BY <1>2 DEF Places
<1>12. ReferenceInv(room) /\ SameGraph(k, room) /\ Carries(k, room)
  <2>1. ReferenceInv(room)
    BY <1>9, <1>11, ResizedKeepsReferences
  <2>2. SameGraph(k, room)
    BY <1>10, <1>11, ResizedKeepsGraph
  <2>3. Carries(k, room)
    BY <1>11, ResizedKeeps
  <2> QED BY <2>1, <2>2, <2>3
<1>13. Carries(start, room)
  BY <1>5, <1>8, <1>11, <1>12, CarriesOn
<1>14. OperandsGoAlong(start, room) /\ Len(room.extra) = Len(refs) /\ room.extra \in Seq(Values)
  <2>1. OperandsGoAlong(start, room)
    BY <1>7, <1>13, CarriedOperands
  <2> QED BY <1>5, <1>11, <2>1 DEF OperandsGoAlong, LayoutInv, HeapIsTyped
<1>15. NodeIn(room, q) = NodeIn(h, o)
  <2>1. start.extra = References(o) /\ Len(room.extra) = Len(References(o)) /\ SplitAs(o, room.extra, q)
    BY <1>2, <1>4, <1>5, <1>14
  <2> QED BY <1>3, <1>5, <1>14, <2>1, SplitNode
<1>16. SameGraph(h, room) /\ NamesAreUnique(room)
  <2>1. SameGraph(start, room)
    BY <1>8, <1>9, <1>12, SameGraphOn
  <2>2. SameGraph(h, room)
    BY <1>5, <2>1, SameGraphOn
  <2> QED BY <2>2 DEF SameGraph, Thins
<1>17. OperandsResolve(room)
  <2> SUFFICES ASSUME NEW i \in DOMAIN room.extra, is_object(room.extra[i])
               PROVE  Resolves(room, room.extra[i])
    BY DEF OperandsResolve
  <2>1. i \in DOMAIN start.extra
    <3>1. DOMAIN room.extra = 1 .. Len(room.extra) /\ DOMAIN refs = 1 .. Len(refs)
      BY <1>3, <1>14, LenProperties
    <3> QED BY <1>5, <1>14, <3>1
  <2>2. Becomes(start, start.extra[i], room, room.extra[i])
    BY <1>13, <2>1 DEF Carries
  <2> QED BY <1>7, <2>1, <2>2 DEF Becomes, OperandsResolve
<1>18. /\ \A i \in DOMAIN q.strong : is_object(q.strong[i]) => Resolves(room, q.strong[i])
       /\ \A i \in DOMAIN q.soft : is_object(q.soft[i]) => Resolves(room, q.soft[i])
  BY <1>2, <1>17 DEF SplitAs, OperandsResolve
<1>19. room.allocated = h.allocated /\ q.data = room.allocated
  <2>1. room.allocated = h.allocated
    BY <1>16 DEF SameGraph, Thins
  <2> QED BY <1>2, <2>1 DEF SplitAs, FitsStrongly, Fits
<1>20. LayoutInv(g) /\ StrongResolve(room) /\ RootsAreCurrent(room)
  BY <1>1, <1>12 DEF Allocated, ReferenceInv
<1>21. Adds(room, NodeIn(room, q), g)
  BY <1>11, <1>16, <1>18, <1>19, <1>20, PlacedAdds
<1>22. Updates(h, h.allocated, NodeIn(h, o), g)
  BY <1>15, <1>16, <1>19, <1>21, UpdatesFrom DEF Adds
<1> QED BY <1>19, <1>21, <1>22 DEF Adds

\* A collection goes on with the names of its operands.
LEMMA CollectKeepsOperandNames ==
  ASSUME NEW h, LayoutInv(h), NamesAreUnique(h), NEW roots \in Seq(Values),
         \A i \in DOMAIN roots : is_object(roots[i]) => Resolves(h, roots[i]),
         NEW g, LayoutInv(g), Carries([h EXCEPT !.extra = roots], g)
  PROVE  /\ Len(g.extra) = Len(roots) /\ DOMAIN g.extra = DOMAIN roots
         /\ \A i \in DOMAIN roots : NameIn(g, g.extra[i]) = NameIn(h, roots[i])
<1> DEFINE start == [h EXCEPT !.extra = roots]
<1>1. start = [h EXCEPT !.extra = roots]
  OBVIOUS
<1> HIDE DEF start
<1>2. LayoutInv(start) /\ SamePlaces(h, start) /\ start.extra = roots
  BY <1>1, RootedKeeps
<1>3. \A v \in Values : NameIn(start, v) = NameIn(h, v)
  BY <1>1, RootedKeepsGraph
<1>4. OperandsResolve(start)
  <2>1. \A v : Resolves(start, v) <=> Resolves(h, v)
    BY <1>2, SamePlacesResolve DEF LayoutInv
  <2> QED BY <1>2, <2>1 DEF OperandsResolve
<1>5. OperandsGoAlong(start, g)
  BY <1>1, <1>4, CarriedOperands
<1>6. Len(g.extra) = Len(roots) /\ g.extra \in Seq(Values)
  BY <1>2, <1>5 DEF OperandsGoAlong, LayoutInv, HeapIsTyped
<1>7. DOMAIN g.extra = DOMAIN roots
  <2>1. DOMAIN g.extra = 1 .. Len(g.extra) /\ DOMAIN roots = 1 .. Len(roots)
    BY <1>6, LenProperties
  <2> QED BY <1>6, <2>1
<1>8. \A i \in DOMAIN roots : roots[i] \in Values
  OBVIOUS
<1> QED BY <1>2, <1>3, <1>5, <1>6, <1>7, <1>8 DEF OperandsGoAlong, SameName


\* A weak target or key of the node is not among gone.
KeepsSoft(node, gone) ==
  IsNode(node) /\ (node.kind \in {"WeakRef", "Ephemeron"} => node.soft[1] \notin gone)

LEMMA AddsFrom ==
  ASSUME NEW f, LayoutInv(f), NamesAreUnique(f), NEW h, LayoutInv(h), NamesAreUnique(h), Thins(f, h),
         NEW node, KeepsSoft(node, Gone(GraphIn(f), h)), NEW k, Adds(h, node, k)
  PROVE  Adds(f, node, k)
<1> DEFINE n == h.allocated
           lost == Gone(GraphIn(f), h)
           F == Graph!With(GraphIn(f), n, node)
           G == Graph!With(GraphIn(h), n, node)
<1>1. /\ n = f.allocated /\ SameRawCells(f, h) /\ RootIn(h) = RootIn(f)
      /\ NamesIn(h) \subseteq NamesIn(f) /\ InternedIn(h) = InternedIn(f) \ lost
      /\ \A s \in Headers(h) : NodeIn(h, h.objects[s]) = Rest(GraphIn(f)[h.objects[s].data], lost)
  <2>1. DOMAIN GraphIn(f) = NamesIn(f)
    BY DEF GraphIn
  <2> QED BY <2>1 DEF Thins, Leaves
<1>2. /\ Leaves(RootIn(h), G, InternedIn(h), k) /\ NamesAreUnique(k) /\ SameRawCells(h, k)
      /\ k.allocated = n + 1 /\ NameIn(k, k.extra[1]) = n
  BY DEF Adds, Updates
<1>3. n \notin NamesIn(f) /\ n \notin NamesIn(h) /\ n \in Nat
  <2>1. n \in Nat
    BY DEF LayoutInv, HeapIsTyped
  <2>2. \A s \in Headers(f) : f.objects[s].data < n
    BY <1>1 DEF LayoutInv, NamesAreUsed
  <2>3. NamesIn(f) \subseteq Nat
    BY NamesAreNumbers
  <2> QED BY <1>1, <2>1, <2>2, <2>3 DEF NamesIn
<1>4. /\ DOMAIN F = NamesIn(f) \cup {n} /\ DOMAIN G = NamesIn(h) \cup {n}
      /\ F[n] = node /\ G[n] = node
      /\ \A m \in NamesIn(f) : F[m] = GraphIn(f)[m]
      /\ \A m \in NamesIn(h) : G[m] = GraphIn(h)[m]
  <2>1. DOMAIN GraphIn(f) = NamesIn(f) /\ DOMAIN GraphIn(h) = NamesIn(h)
    BY DEF GraphIn
  <2> QED BY <1>3, <2>1 DEF Graph!With
<1>5. lost = NamesIn(f) \ NamesIn(h)
  BY DEF Gone, GraphIn
<1> HIDE DEF n, lost, F, G
<1>6. NamesIn(k) \subseteq NamesIn(h) \cup {n}
  BY <1>2, <1>4 DEF Leaves
<1>7. Gone(F, k) = lost \cup Gone(G, k) /\ Nil \notin Gone(G, k)
  <2>1. Gone(F, k) = lost \cup Gone(G, k)
    BY <1>1, <1>3, <1>4, <1>5, <1>6 DEF Gone
  <2>2. Gone(G, k) \subseteq NamesIn(h) \cup {n}
    BY <1>4 DEF Gone
  <2>3. Nil \notin NamesIn(h)
    BY NamesAreNumbers
  <2> QED BY <1>3, <2>1, <2>2, <2>3, NamesAssumption
<1>8. InternedIn(k) = InternedIn(f) \ Gone(F, k)
  BY <1>1, <1>2, <1>7 DEF Leaves
<1>9. Rest(node, lost) = node
  BY DEF KeepsSoft, IsNode, Rest, Graph!SoftWithout, lost
<1>10. ASSUME NEW s \in Headers(k)
       PROVE  NodeIn(k, k.objects[s]) = Rest(F[k.objects[s].data], Gone(F, k))
  <2> DEFINE m == k.objects[s].data
  <2>1. NodeIn(k, k.objects[s]) = Rest(G[m], Gone(G, k)) /\ m \in NamesIn(k)
    BY <1>2 DEF Leaves, NamesIn
  <2>2. CASE m = n
    <3>1. Rest(Rest(node, lost), Gone(G, k)) = Rest(node, Gone(F, k))
      BY <1>7, RestOfRest
    <3> QED BY <1>4, <1>9, <2>1, <2>2, <3>1
  <2>3. CASE m # n
    <3>1. m \in NamesIn(h) /\ m \in NamesIn(f)
      BY <1>1, <1>6, <2>1, <2>3
    <3>2. PICK t \in Headers(h) : m = h.objects[t].data
      BY <3>1, SlotOfName
    <3>3. GraphIn(h)[m] = Rest(GraphIn(f)[m], lost)
      BY <1>1, <3>2, GraphAt
    <3>4. Rest(Rest(GraphIn(f)[m], lost), Gone(G, k)) = Rest(GraphIn(f)[m], Gone(F, k))
      BY <1>7, RestOfRest
    <3> QED BY <1>4, <2>1, <3>1, <3>3, <3>4
  <2> QED BY <2>2, <2>3
<1>11. NamesIn(k) \subseteq DOMAIN F
  BY <1>1, <1>4, <1>6
<1>12. Leaves(RootIn(f), F, InternedIn(f), k)
  BY <1>1, <1>2, <1>8, <1>10, <1>11 DEF Leaves
<1>13. SameRawCells(f, k)
  BY <1>1, <1>2 DEF SameRawCells
<1> QED BY <1>1, <1>2, <1>12, <1>13 DEF Adds, Updates, F, n

LEMMA ConstructAdds ==
  ASSUME NEW b, LayoutInv(b), NamesAreUnique(b), ReferenceInv(b), NEW o, FitsStrongly(b, o),
         NEW k, k = StressAfterAllocation(allocate_object(b, o))
  PROVE  Adds(b, NodeIn(b, o), k)
<1> DEFINE g == allocate_object(b, o)
           major == "Major"
<1>1. Fits(b, o) /\ g = allocate_object(b, o) /\ k = StressAfterAllocation(g)
  BY DEF FitsStrongly
<1> HIDE DEF g
<1>2. Allocated(b, o, g) /\ ReferenceInv(g) /\ Adds(b, NodeIn(b, o), g)
  BY <1>1, AllocateObjectKeeps, AllocateObjectKeepsReferences, AllocateObjectAdds
<1>3. LayoutInv(g) /\ NamesAreUnique(g) /\ g.extra \in Seq(Values) /\ 1 \in DOMAIN g.extra
      /\ Resolves(g, g.extra[1]) /\ Len(g.extra) = 1
  <2>1. g.extra \in Seq(Values) /\ Len(g.extra) = 1
    BY <1>2 DEF Allocated, LayoutInv, HeapIsTyped
  <2>2. 1 \in DOMAIN g.extra
    BY <2>1
  <2> QED BY <1>2, <2>1, <2>2 DEF Allocated, Adds, Updates
<1>4. k = g \/ k = collect_with_extra_roots(g, g.extra, major)
  BY <1>1 DEF StressAfterAllocation
<1> HIDE DEF major
<1>5. CASE k = g
  BY <1>2, <1>5
<1>6. CASE k = collect_with_extra_roots(g, g.extra, major)
  <2>1. Thins(g, k)
    BY <1>2, <1>3, <1>6, CollectWithRootsThins
  <2>2. LayoutInv(k) /\ Carries([g EXCEPT !.extra = g.extra], k)
    BY <1>3, <1>6, CollectWithRootsKeeps
  <2> DEFINE roots == g.extra
  <2>3. roots \in Seq(Values) /\ DOMAIN roots = {1} /\ Resolves(g, roots[1])
    <3>1. DOMAIN g.extra = 1 .. 1
      BY <1>3, LenProperties
    <3> QED BY <1>3, <3>1
  <2>4. \A i \in DOMAIN roots : is_object(roots[i]) => Resolves(g, roots[i])
    BY <2>3
  <2>5. Carries([g EXCEPT !.extra = roots], k)
    BY <2>2
  <2> HIDE DEF roots
  <2>6. \A i \in DOMAIN roots : NameIn(k, k.extra[i]) = NameIn(g, roots[i])
    BY <1>3, <2>2, <2>3, <2>4, <2>5, CollectKeepsOperandNames
  <2>7. NameIn(k, k.extra[1]) = NameIn(g, g.extra[1])
    BY <2>3, <2>6 DEF roots
  <2>8. Updates(b, b.allocated, NodeIn(b, o), k)
    BY <1>2, <1>3, <2>1, UpdatesOn DEF Adds
  <2> QED BY <1>2, <2>1, <2>7, <2>8 DEF Adds, Thins
<1> QED BY <1>4, <1>5, <1>6

\* A new object refers to what is there.
LEMMA FittingKeepsSoft ==
  ASSUME NEW h, LayoutInv(h), NEW b, LayoutInv(b), Thins(h, b), NEW o, Fits(b, o)
  PROVE  KeepsSoft(NodeIn(b, o), Gone(GraphIn(h), b))
<1>1. o \in Objects /\ o.soft \in Seq(Values) /\ validate_descriptor_shape(o)
  BY ObjectFields DEF Fits
<1>2. IsNode(NodeIn(b, o)) /\ NodeIn(b, o).kind = o.kind
  BY DEF IsNode, WithSoft, NodeIn
<1>3. ASSUME o.kind \in {"WeakRef", "Ephemeron"}
      PROVE  NodeIn(b, o).soft[1] \notin Gone(GraphIn(h), b)
  <2>1. Len(o.soft) > 0
    <3>1. CASE o.kind = "WeakRef"
      <4>1. Len(o.soft) = 1
        BY <1>1, <3>1 DEF validate_descriptor_shape
      <4> QED BY <4>1
    <3>2. CASE o.kind = "Ephemeron"
      <4>1. Len(o.soft) = 2
        BY <1>1, <3>2 DEF validate_descriptor_shape, EphemeronAndBuilderShape
      <4> QED BY <4>1
    <3> QED BY <1>3, <3>1, <3>2
  <2>2. 1 \in DOMAIN o.soft /\ o.soft[1] \in Values
    BY <1>1, <2>1
  <2>3. NodeIn(b, o).soft[1] = NameIn(b, o.soft[1])
    BY <2>2 DEF NodeIn
  <2>4. CASE o.soft[1] = Nil
    <3>1. Nil \notin DOMAIN GraphIn(h)
      BY NamesAreNumbers DEF GraphIn
    <3> QED BY <2>3, <2>4, <3>1, NameOfNil DEF Gone
  <2>5. CASE o.soft[1] # Nil
    <3>1. o.soft[1] \in Ids /\ o.soft[1] \in SoftReferences(o)
      BY <2>2, <2>5 DEF Values, SoftReferences, is_object
    <3>2. NameIn(b, o.soft[1]) \in NamesIn(b)
      BY <3>1, NameOfReference DEF Fits
    <3> QED BY <2>3, <3>2 DEF Gone
  <2> QED BY <2>4, <2>5
<1> QED BY <1>2, <1>3 DEF KeepsSoft

LEMMA StressBeforeThins ==
  ASSUME NEW h, LayoutInv(h), NamesAreUnique(h), ReferenceInv(h), NEW operands \in Seq(Values),
         NEW b, b = StressBeforeAllocation(h, operands)
  PROVE  Thins(h, b) /\ LayoutInv(b) /\ NamesAreUnique(b) /\ ReferenceInv(b)
<1> DEFINE major == "Major"
<1>1. b = collect_with_extra_roots(h, operands, major) \/ b = [h EXCEPT !.extra = operands]
  BY DEF StressBeforeAllocation
<1> HIDE DEF major
<1>2. LayoutInv(b) /\ ReferenceInv(b)
  BY StressBeforeKeeps, StressBeforeKeepsReferences
<1>3. Thins(h, b)
  BY <1>1, RootedKeepsGraph, CollectWithRootsThins DEF SameGraph
<1> QED BY <1>2, <1>3 DEF Thins

\* A collection first, then a new object, and a collection.
LEMMA MethodAdds ==
  ASSUME NEW h, LayoutInv(h), NamesAreUnique(h), ReferenceInv(h), NEW operands \in Seq(Values),
         NEW b, b = StressBeforeAllocation(h, operands), NEW o, FitsStrongly(b, o),
         NEW k, k = StressAfterAllocation(allocate_object(b, o))
  PROVE  Adds(h, NodeIn(b, o), k)
<1>1. Thins(h, b) /\ LayoutInv(b) /\ NamesAreUnique(b) /\ ReferenceInv(b)
  BY StressBeforeThins
<1>2. KeepsSoft(NodeIn(b, o), Gone(GraphIn(h), b))
  BY <1>1, FittingKeepsSoft DEF FitsStrongly
<1>3. Adds(b, NodeIn(b, o), k)
  BY <1>1, ConstructAdds
<1> QED BY <1>1, <1>2, <1>3, AddsFrom


\* The node refers to the objects of these names.
Refers(node, S) ==
  /\ IsNode(node)
  /\ node.strong \in [DOMAIN node.strong -> S] /\ node.soft \in [DOMAIN node.soft -> S]
  /\ node.kind = "WeakRef" => DOMAIN node.soft = {1}
  /\ node.kind = "Ephemeron" => DOMAIN node.soft = {1, 2}

OperandNames(h, values) == {NameIn(h, values[i]) : i \in DOMAIN values}

LEMMA ConstructorAdds ==
  ASSUME NEW h, LayoutInv(h), NamesAreUnique(h), ReferenceInv(h),
         NEW shape, NEW values, NEW text, Given(h, shape, values, text),
         NEW b, b = StressBeforeAllocation(h, values),
         NEW o, o = NewObject(b, shape, b.extra, text),
         NEW g, g = StressAfterAllocation(allocate_object(b, o))
  PROVE  \E node : Adds(h, node, g) /\ Refers(node, OperandNames(h, values))
<1> DEFINE node == NodeIn(b, o)
<1>1. LayoutInv(b) /\ Fits(b, o) /\ OperandsResolve(b)
  BY ConstructorKeeps
<1>2. values \in Seq(Values) /\ DOMAIN values = 1 .. shape.refs
  <2>1. values \in Seq(Values)
    BY SeqDef DEF Given, Constructible
  <2> QED BY <2>1 DEF Given
<1>3. FitsStrongly(b, o)
  BY <1>1, NewObjectFitsStrongly
<1>4. Adds(h, node, g)
  BY <1>2, <1>3, MethodAdds
<1>5. Carries([h EXCEPT !.extra = values], b)
  BY <1>2, StressBeforeKeeps
<1>6. \A i \in DOMAIN values : is_object(values[i]) => Resolves(h, values[i])
  BY <1>2 DEF Given
<1>7. /\ DOMAIN b.extra = DOMAIN values
      /\ \A i \in DOMAIN values : NameIn(b, b.extra[i]) = NameIn(h, values[i])
  <2>1. LayoutInv(h) /\ NamesAreUnique(h) /\ values \in Seq(Values)
    BY <1>2
  <2> QED BY ONLY <1>1, <1>5, <1>6, <2>1, CollectKeepsOperandNames
<1> DEFINE S == OperandNames(h, values)
<1>8. \A i \in DOMAIN b.extra : NameIn(b, b.extra[i]) \in S
  BY <1>7 DEF OperandNames
<1>9. o.strong \in {<<>>, b.extra} /\ o.soft \in {<<>>, b.extra}
  BY DEF NewObject
<1> HIDE DEF S
<1>10. /\ \A i \in DOMAIN o.strong : NameIn(b, o.strong[i]) \in S
       /\ \A i \in DOMAIN o.soft : NameIn(b, o.soft[i]) \in S
  BY <1>8, <1>9
<1>11. /\ IsNode(node) /\ node.kind = o.kind
       /\ DOMAIN node.strong = DOMAIN o.strong /\ DOMAIN node.soft = DOMAIN o.soft
       /\ node.strong \in [DOMAIN o.strong -> S] /\ node.soft \in [DOMAIN o.soft -> S]
  BY <1>10 DEF NodeIn, IsNode, WithSoft
<1>12. /\ o.kind = "WeakRef" => DOMAIN o.soft = {1}
       /\ o.kind = "Ephemeron" => DOMAIN o.soft = {1, 2}
  <2>1. o.soft \in Seq(Values) /\ o \in Objects /\ validate_descriptor_shape(o)
    BY <1>3, ObjectFields DEF FitsStrongly, Fits
  <2>2. CASE o.kind = "WeakRef"
    <3>1. Len(o.soft) = 1
      BY <2>1, <2>2 DEF validate_descriptor_shape
    <3> QED BY <2>1, <2>2, <3>1
  <2>3. CASE o.kind = "Ephemeron"
    <3>1. Len(o.soft) = 2
      BY <2>1, <2>3 DEF validate_descriptor_shape, EphemeronAndBuilderShape
    <3> QED BY <2>1, <2>3, <3>1
  <2> QED BY <2>2, <2>3
<1> HIDE DEF node
<1>13. Refers(node, S)
  BY <1>11, <1>12 DEF Refers
<1> QED BY <1>4, <1>13 DEF S

StringNode(text) == [kind |-> "Str", strong |-> <<>>, soft |-> <<>>, text |-> text]

LEMMA StringAdds ==
  ASSUME NEW h, LayoutInv(h), NamesAreUnique(h), ReferenceInv(h), NEW operands, NEW text, NEW g,
         StringBuilt(h, operands, text, g)
  PROVE  Adds(h, StringNode(text), g)
<1> DEFINE b == StressBeforeAllocation(h, operands)
           o == NewString(b, text)
<1>1. /\ operands \in Seq(Values) /\ text \in Seq(Chunks) /\ LayoutInv(b)
      /\ g = StressAfterAllocation(allocate_object(b, o))
  BY DEF StringBuilt
<1>2. b = StressBeforeAllocation(h, operands) /\ o = NewString(b, text)
  OBVIOUS
<1>3. o.kind = "Str" /\ o.strong = <<>> /\ o.soft = <<>> /\ o.text = text
  BY DEF NewString, NewObject
<1> HIDE DEF b, o
<1>4. FitsStrongly(b, o)
  BY <1>1, <1>2, NewStringFitsStrongly
<1>5. Adds(h, NodeIn(b, o), g)
  BY <1>1, <1>2, <1>4, MethodAdds
<1>6. NodeIn(b, o) = StringNode(text)
  <2>1. /\ [i \in DOMAIN o.strong |-> NameIn(b, o.strong[i])] = <<>>
        /\ [i \in DOMAIN o.soft |-> NameIn(b, o.soft[i])] = <<>>
    BY <1>3
  <2> QED BY <1>3, <2>1 DEF NodeIn, StringNode
<1> QED BY <1>5, <1>6

LEMMA StringKeepsSoft == \A text, gone : KeepsSoft(StringNode(text), gone)
BY DEF KeepsSoft, StringNode, IsNode, WithSoft

\* What a method that copies its operand starts from shows the same graph.
LEMMA StartOfCopyKeepsGraph ==
  ASSUME NEW h, LayoutInv(h), NamesAreUnique(h), ReferenceInv(h), NEW v \in Values, Resolves(h, v),
         NEW operands, operands = <<v>>,
         NEW still, still = CompactionFinished([h EXCEPT !.extra = operands])
  PROVE  SameGraph(h, still) /\ NamesAreUnique(still) /\ NameIn(still, still.extra[1]) = NameIn(h, v)
<1> DEFINE start == [h EXCEPT !.extra = operands]
<1>1. operands \in Seq(Values) /\ DOMAIN operands = {1} /\ operands[1] = v
  OBVIOUS
<1>2. start = [h EXCEPT !.extra = operands] /\ still = CompactionFinished(start)
  OBVIOUS
<1> HIDE DEF start
<1>3. /\ LayoutInv(start) /\ ReferenceInv(start) /\ NamesAreUnique(start) /\ SameGraph(h, start)
  <2>1. LayoutInv(start) /\ NamesAreUnique(start) /\ SameGraph(h, start)
    BY <1>1, <1>2, RootedKeepsGraph
  <2>2. ReferenceInv(start)
    BY <1>1, <1>2, RootedKeepsReferences
  <2> QED BY <2>1, <2>2
<1>4. LayoutInv(still) /\ Carries(start, still)
  BY <1>2, <1>3, CompactionFinishedKeeps
<1>5. SameGraph(start, still)
  BY <1>2, <1>3, CompactionFinishedKeepsGraph
<1>6. SameGraph(h, still)
  BY <1>3, <1>5, SameGraphOn
<1>7. \A i \in DOMAIN operands : NameIn(still, still.extra[i]) = NameIn(h, operands[i])
  <2>1. Carries([h EXCEPT !.extra = operands], still)
    BY <1>2, <1>4
  <2>2. \A i \in DOMAIN operands : is_object(operands[i]) => Resolves(h, operands[i])
    BY <1>1
  <2>3. LayoutInv(h) /\ NamesAreUnique(h) /\ operands \in Seq(Values) /\ LayoutInv(still)
    BY <1>1, <1>4
  <2> QED BY ONLY <2>1, <2>2, <2>3, CollectKeepsOperandNames
<1> QED BY <1>1, <1>6, <1>7 DEF SameGraph, Thins

LEMMA CopyAdds ==
  ASSUME NEW h, LayoutInv(h), NamesAreUnique(h), NEW still, SameGraph(h, still), LayoutInv(still),
         NamesAreUnique(still), ReferenceInv(still), 1 \in DOMAIN still.extra,
         Resolves(still, still.extra[1]), NEW g, g = CopyOperandText(still)
  PROVE  Adds(h, StringNode(ObjectOf(still, still.extra[1]).text), g)
<1> DEFINE text == ObjectOf(still, still.extra[1]).text
<1>1. StringBuilt(still, still.extra, text, g)
  BY CopyKeeps
<1> HIDE DEF text
<1>2. Adds(still, StringNode(text), g)
  BY <1>1, StringAdds
<1>3. Adds(h, StringNode(text), g)
  BY <1>2, StringKeepsSoft, AddsFrom DEF SameGraph
<1> QED BY <1>3 DEF text

LEMMA BuilderToStringAdds ==
  ASSUME NEW h, LayoutInv(h), NamesAreUnique(h), ReferenceInv(h), NEW builder \in Values,
         Resolves(h, builder), NEW g, g = builder_to_string(h, builder)
  PROVE  \E text : Adds(h, StringNode(text), g)
<1> DEFINE operands == <<builder>>
           still == CompactionFinished([h EXCEPT !.extra = operands])
<1>1. g = CopyOperandText(still)
  BY DEF builder_to_string
<1>2. operands = <<builder>> /\ still = CompactionFinished([h EXCEPT !.extra = operands])
  OBVIOUS
<1> HIDE DEF operands, still
<1>3. /\ LayoutInv(still) /\ ReferenceInv(still)
      /\ 1 \in DOMAIN still.extra /\ Resolves(still, still.extra[1])
  BY <1>2, StartOfCopyKeepsReferences
<1>4. SameGraph(h, still) /\ NamesAreUnique(still)
  BY <1>2, StartOfCopyKeepsGraph
<1>5. Adds(h, StringNode(ObjectOf(still, still.extra[1]).text), g)
  BY <1>1, <1>3, <1>4, CopyAdds
<1> QED BY <1>5


\* What the string source is interned as.
InternsOld(h, source, k) ==
  \E n \in InternedIn(h) :
    /\ GraphIn(h)[n].text = GraphIn(h)[source].text
    /\ SameGraph(h, k) /\ NameIn(k, k.extra[1]) = n

\* The new object is canonical.
AddsCanonical(h, node, k) ==
  /\ Leaves(RootIn(h), Graph!With(GraphIn(h), h.allocated, node), InternedIn(h) \cup {h.allocated}, k)
  /\ NamesAreUnique(k) /\ SameRawCells(h, k)
  /\ k.allocated = h.allocated + 1 /\ NameIn(k, k.extra[1]) = h.allocated

InternsNew(h, source, k) ==
  /\ \A n \in InternedIn(h) : GraphIn(h)[n].text # GraphIn(h)[source].text
  /\ AddsCanonical(h, StringNode(GraphIn(h)[source].text), k)

\* Canonical strings, by name and by id.
LEMMA CanonicalNames ==
  ASSUME NEW h, LayoutInv(h), NamesAreUnique(h)
  PROVE  /\ \A id \in h.intern_table : /\ ObjectOf(h, id).data \in InternedIn(h)
                                       /\ GraphIn(h)[ObjectOf(h, id).data].text = ObjectOf(h, id).text
                                       /\ NameIn(h, id) = ObjectOf(h, id).data /\ id \in Ids
         /\ \A n \in InternedIn(h) : \E id \in h.intern_table :
              n = ObjectOf(h, id).data /\ GraphIn(h)[n].text = ObjectOf(h, id).text
<1>1. ASSUME NEW id \in h.intern_table
      PROVE  /\ ObjectOf(h, id).data \in InternedIn(h)
             /\ GraphIn(h)[ObjectOf(h, id).data].text = ObjectOf(h, id).text
             /\ NameIn(h, id) = ObjectOf(h, id).data /\ id \in Ids
  <2>1. id \in Ids /\ Resolves(h, id)
    BY CanonicalSlots, IdOfBase, CanonicalIsPhysical, CurrentResolves
  <2>2. GraphIn(h)[NameIn(h, id)] = NodeIn(h, ObjectOf(h, id)) /\ NameIn(h, id) = ObjectOf(h, id).data
    BY <2>1, NodeOfReference
  <2>3. NodeIn(h, ObjectOf(h, id)).text = ObjectOf(h, id).text
    BY DEF NodeIn
  <2> QED BY <2>1, <2>2, <2>3 DEF InternedIn
<1> QED BY <1>1 DEF InternedIn

LEMMA AddedToInternTableInterns ==
  ASSUME NEW h, NEW node, NEW k, LayoutInv(k), Adds(h, node, k), k.extra[1] \in Ids,
         Resolves(k, k.extra[1]), NEW g, g = AddToInternTable(k)
  PROVE  AddsCanonical(h, node, g)
<1> DEFINE id == k.extra[1]
           n == h.allocated
           G == Graph!With(GraphIn(h), n, node)
<1>1. /\ DOMAIN g = HeapFields /\ g.intern_table = k.intern_table \cup {id}
      /\ g.objects = k.objects /\ g.generations = k.generations
      /\ g.cells = k.cells /\ g.extra = k.extra /\ g.phase = k.phase
      /\ g.plan = k.plan /\ g.cursor = k.cursor /\ g.allocated = k.allocated
  <2>1. DOMAIN k = HeapFields
    BY DEF LayoutInv, HeapIsTyped
  <2> QED BY <2>1 DEF HeapFields, AddToInternTable
<1>2. /\ Leaves(RootIn(h), G, InternedIn(h), k) /\ NamesAreUnique(k) /\ SameRawCells(h, k)
      /\ k.allocated = n + 1 /\ NameIn(k, id) = n
  BY DEF Adds, Updates
<1> HIDE DEF G, n
<1>3. Headers(g) = Headers(k)
  BY <1>1 DEF Headers
<1>4. \A v : /\ Resolves(g, v) <=> Resolves(k, v)
             /\ ObjectOf(g, v) = ObjectOf(k, v) /\ NameIn(g, v) = NameIn(k, v)
  <2>1. \A v : checked_slot(g, v) = checked_slot(k, v)
    BY <1>1 DEF checked_slot, Moved, Physical
  <2> QED BY <1>1, <2>1 DEF ObjectOf, NameIn, Resolves
<1>5. NamesIn(g) = NamesIn(k) /\ RootIn(g) = RootIn(k) /\ NamesAreUnique(g) /\ SameRawCells(h, g)
  BY <1>1, <1>2, <1>3, <1>4 DEF NamesIn, RootIn, NamesAreUnique, SameRawCells
<1>6. \A o : NodeIn(g, o) = NodeIn(k, o)
  BY <1>4 DEF NodeIn
<1>7. ObjectOf(k, id).data = n /\ n \in NamesIn(k)
  <2>1. id # Nil
    BY NilAssumption
  <2>2. NameIn(k, id) \in NamesIn(k)
    BY NameOfReference
  <2> QED BY <1>2, <2>1, <2>2 DEF NameIn
<1>8. Gone(G, g) = Gone(G, k) /\ n \notin Gone(G, k)
  BY <1>5, <1>7 DEF Gone
<1>9. InternedIn(g) = InternedIn(k) \cup {n}
  BY <1>1, <1>4, <1>7 DEF InternedIn
<1>10. InternedIn(g) = (InternedIn(h) \cup {n}) \ Gone(G, g)
  BY <1>2, <1>8, <1>9 DEF Leaves
<1>11. Leaves(RootIn(h), G, InternedIn(h) \cup {n}, g)
  BY <1>1, <1>2, <1>3, <1>5, <1>6, <1>8, <1>10 DEF Leaves
<1> QED BY <1>1, <1>2, <1>4, <1>5, <1>11 DEF G, n, AddsCanonical

LEMMA InternInterns ==
  ASSUME NEW h, LayoutInv(h), NamesAreUnique(h), ReferenceInv(h), NEW source \in Values,
         Resolves(h, source), NEW g, g = intern_string(h, source)
  PROVE  InternsOld(h, NameIn(h, source), g) \/ InternsNew(h, NameIn(h, source), g)
<1> DEFINE operands == <<source>>
           still == CompactionFinished([h EXCEPT !.extra = operands])
           text == ObjectOf(still, still.extra[1]).text
           hits == CanonicalStrings(still, text)
<1>1. /\ g = IF hits # {} THEN ReturnCanonical(still, CHOOSE id \in hits : TRUE)
             ELSE AddToInternTable(CopyOperandText(still))
      /\ operands = <<source>>
  BY DEF intern_string, InternOperand
<1> HIDE DEF operands
<1>2. still = CompactionFinished([h EXCEPT !.extra = operands])
  OBVIOUS
<1> HIDE DEF still
<1>3. /\ LayoutInv(still) /\ ReferenceInv(still) /\ still.phase # "compacting"
      /\ 1 \in DOMAIN still.extra /\ Resolves(still, still.extra[1]) /\ still.extra[1] \in Ids
  <2>1. /\ LayoutInv(still) /\ ReferenceInv(still) /\ still.phase # "compacting"
        /\ 1 \in DOMAIN still.extra /\ Resolves(still, still.extra[1])
    BY <1>1, <1>2, StartOfCopyKeepsReferences
  <2>2. still.extra[1] \in Values
    BY <2>1 DEF LayoutInv, HeapIsTyped
  <2> QED BY <2>1, <2>2, ResolvedObject
<1>4. SameGraph(h, still) /\ NamesAreUnique(still) /\ NameIn(still, still.extra[1]) = NameIn(h, source)
  BY <1>1, <1>2, StartOfCopyKeepsGraph
<1>5. GraphIn(still) = GraphIn(h) /\ InternedIn(still) = InternedIn(h)
  BY <1>4, SameGraphIs
<1>6. GraphIn(h)[NameIn(h, source)].text = text
  <2> DEFINE v == still.extra[1]
  <2>1. v \in Ids /\ Resolves(still, v) /\ NameIn(still, v) = NameIn(h, source)
    BY <1>3, <1>4
  <2>2. text = ObjectOf(still, v).text
    OBVIOUS
  <2> HIDE DEF v, text
  <2>3. GraphIn(still)[NameIn(still, v)] = NodeIn(still, ObjectOf(still, v))
    BY <1>3, <1>4, <2>1, NodeOfReference
  <2>4. NodeIn(still, ObjectOf(still, v)).text = text
    BY <2>2 DEF NodeIn
  <2> QED BY <1>5, <2>1, <2>3, <2>4
<1>7. CASE hits # {}
  <2> DEFINE hit == CHOOSE id \in hits : TRUE
  <2>1. /\ hit \in still.intern_table /\ ObjectOf(still, hit).text = text
        /\ g = ReturnCanonical(still, hit)
    BY <1>1, <1>7 DEF CanonicalStrings
  <2> HIDE DEF hit
  <2>2. LayoutInv(g) /\ g.extra = <<hit>>
    BY <1>3, <2>1, ReturnCanonicalKeeps
  <2>3. /\ ObjectOf(still, hit).data \in InternedIn(still) /\ hit \in Ids
        /\ GraphIn(still)[ObjectOf(still, hit).data].text = ObjectOf(still, hit).text
        /\ NameIn(still, hit) = ObjectOf(still, hit).data
    BY <1>3, <1>4, <2>1, CanonicalNames
  <2>4. Alike(still, g)
    <3>1. DOMAIN still = HeapFields
      BY <1>3 DEF LayoutInv, HeapIsTyped
    <3>2. /\ g.objects = still.objects /\ g.generations = still.generations /\ g.cells = still.cells
          /\ g.intern_table = still.intern_table /\ g.allocated = still.allocated
          /\ g.phase = still.phase /\ g.plan = still.plan /\ g.cursor = still.cursor
      BY <2>1, <3>1 DEF ReturnCanonical, HeapFields
    <3>3. Size(g) = Size(still) /\ Headers(g) = Headers(still)
      BY <3>2 DEF Size, Headers
    <3>4. SamePlaces(still, g)
      BY <2>2, <3>2, <3>3 DEF SamePlaces, LayoutInv
    <3> QED BY <3>2, <3>4 DEF Alike
  <2>5. SameGraph(still, g) /\ NameIn(g, hit) = NameIn(still, hit)
    <3>1. hit \in Values
      BY <2>3 DEF Values
    <3> QED BY <1>3, <1>4, <2>4, <3>1, AlikeKeepsGraph
  <2>6. SameGraph(h, g)
    BY <1>3, <1>4, <2>5, SameGraphOn
  <2> QED BY <1>5, <1>6, <2>1, <2>2, <2>3, <2>5, <2>6 DEF InternsOld
<1>8. CASE hits = {}
  <2> DEFINE k == CopyOperandText(still)
  <2>1. g = AddToInternTable(k) /\ k = CopyOperandText(still)
    BY <1>1, <1>8
  <2>2. TextAllocated(still, text, k)
    BY <1>3, <2>1, CopyKeeps
  <2>3. Adds(h, StringNode(text), k)
    BY <1>3, <1>4, <2>1, CopyAdds
  <2>4. \A n \in InternedIn(h) : GraphIn(h)[n].text # text
    <3>1. \A id \in still.intern_table : ObjectOf(still, id).text # text
      BY <1>8 DEF CanonicalStrings
    <3> QED BY <1>3, <1>4, <1>5, <3>1, CanonicalNames
  <2> HIDE DEF k, text
  <2>5. AddsCanonical(h, StringNode(text), g)
    <3>1. LayoutInv(k) /\ k.extra[1] \in Ids /\ Resolves(k, k.extra[1])
      BY <2>2 DEF TextAllocated
    <3> QED BY <2>1, <2>3, <3>1, AddedToInternTableInterns
  <2> QED BY <1>6, <2>4, <2>5 DEF InternsNew
<1> QED BY <1>7, <1>8


(***************************************************************************)
(* The heap shows a step of ObjectGraph.                                   *)
(***************************************************************************)
View(h) ==
  [root |-> RootIn(h), graph |-> GraphIn(h), interned |-> InternedIn(h), next |-> h.allocated]

AllNodes(g) == \A n \in DOMAIN g : IsNode(g[n])

LEMMA RootNames ==
  ASSUME NEW h, Closed(h)
  PROVE  /\ Graph!Held(RootIn(h)) \subseteq NamesIn(h)
         /\ \A c \in Registered : h.cells[c] \in Values /\ (is_object(h.cells[c]) => Resolves(h, h.cells[c]))
<1>1. ASSUME NEW c \in Registered
      PROVE  /\ h.cells[c] \in Values /\ (is_object(h.cells[c]) => Resolves(h, h.cells[c]))
             /\ NameIn(h, h.cells[c]) \in NamesIn(h) \cup {Nil}
  <2>1. h.cells[c] \in Values
    BY RootCells DEF Closed
  <2>2. CASE h.cells[c] = Nil
    BY <2>1, <2>2, NameOfNil DEF is_object
  <2>3. CASE h.cells[c] # Nil
    <3>1. h.cells[c] \in Ids /\ Physical(h, h.cells[c])
      BY <2>1, <2>3 DEF Closed, RootsAreCurrent, Registered, Values, is_object
    <3>2. Resolves(h, h.cells[c])
      BY <3>1, CurrentResolves DEF Closed
    <3> QED BY <2>1, <3>1, <3>2, NameOfReference DEF Closed
  <2> QED BY <2>2, <2>3
<1> QED BY <1>1 DEF Graph!Held, RootIn

\* Edges stay within the heap.
LEMMA NodeNames ==
  ASSUME NEW h, Closed(h), NEW s \in Headers(h), NEW node, node = NodeIn(h, h.objects[s])
  PROVE  /\ Graph!Edges(node) \subseteq NamesIn(h)
         /\ \A i \in DOMAIN node.soft : node.soft[i] \in NamesIn(h) \cup {Nil}
<1> DEFINE o == h.objects[s]
<1>1. /\ o \in Objects /\ \A i \in DOMAIN o.strong : o.strong[i] \in Values
      /\ \A i \in DOMAIN o.soft : o.soft[i] \in Values
  BY ObjectValues DEF Closed
<1>2. ASSUME NEW v \in Values, is_object(v) => Resolves(h, v)
      PROVE  NameIn(h, v) \in NamesIn(h) \cup {Nil}
  BY <1>2, NameOfNil, NameOfReference DEF Closed, Values, is_object
<1>3. \A i \in DOMAIN o.strong : NameIn(h, o.strong[i]) \in NamesIn(h) \cup {Nil}
  <2> TAKE i \in DOMAIN o.strong
  <2>1. is_object(o.strong[i]) => Resolves(h, o.strong[i])
    BY DEF Closed, StrongResolve, visit_reference_fields
  <2> QED BY <1>1, <1>2, <2>1
<1>4. \A i \in DOMAIN o.soft : NameIn(h, o.soft[i]) \in NamesIn(h) \cup {Nil}
  <2> TAKE i \in DOMAIN o.soft
  <2>1. is_object(o.soft[i]) => Resolves(h, o.soft[i])
    BY DEF Closed, LayoutInv, RegistriesName, SoftReferences
  <2> QED BY <1>1, <1>2, <2>1
<1> HIDE DEF o
<1> QED BY <1>3, <1>4 DEF NodeIn, Graph!Edges, o

\* What is left keeps everything reachable.
LEMMA NothingReachableIsGone ==
  ASSUME NEW r, NEW g, NEW i, NEW k, Closed(k), NamesAreUnique(k), Leaves(r, g, i, k)
  PROVE  /\ Graph!KeepsReachable(r, g, NamesIn(k))
         /\ \A n \in Gone(g, k) : n \notin Graph!Reachable(r, g)
<1>1. NamesIn(k) \subseteq DOMAIN g /\ RootIn(k) = r
  BY DEF Leaves
<1>2. Graph!Held(r) \subseteq NamesIn(k)
  BY <1>1, RootNames
<1>3. ASSUME NEW n \in NamesIn(k)
      PROVE  /\ Graph!Edges(g[n]) \subseteq NamesIn(k)
             /\ g[n].kind = "Ephemeron" /\ g[n].soft[1] \in NamesIn(k) /\ g[n].soft[2] # Nil
                => g[n].soft[2] \in NamesIn(k)
  <2>1. PICK s \in Headers(k) : n = k.objects[s].data
    BY SlotOfName
  <2> DEFINE o == k.objects[s]
             node == NodeIn(k, o)
  <2>2. node = Rest(g[n], Gone(g, k))
    BY <2>1 DEF Leaves
  <2>3. /\ Graph!Edges(node) \subseteq NamesIn(k)
        /\ \A j \in DOMAIN node.soft : node.soft[j] \in NamesIn(k) \cup {Nil}
    BY NodeNames
  <2>4. node.strong = g[n].strong /\ node.kind = g[n].kind
        /\ node.soft = Graph!SoftWithout(g[n], Gone(g, k))
    BY <2>2 DEF Rest, WithSoft
  <2>5. Graph!Edges(g[n]) \subseteq NamesIn(k)
    BY <2>3, <2>4 DEF Graph!Edges
  <2>6. ASSUME g[n].kind = "Ephemeron", g[n].soft[1] \in NamesIn(k), g[n].soft[2] # Nil
        PROVE  g[n].soft[2] \in NamesIn(k)
    <3>1. g[n].soft[1] \notin Gone(g, k)
      BY <2>6 DEF Gone
    <3>2. node.soft = g[n].soft
      BY <2>4, <2>6, <3>1 DEF Graph!SoftWithout
    <3>3. o.kind = "Ephemeron" /\ DOMAIN node.soft = DOMAIN o.soft
      BY <2>4, <2>6 DEF NodeIn
    <3>4. 2 \in DOMAIN o.soft
      <4>1. o \in Objects /\ validate_descriptor_shape(o)
        BY ObjectValues DEF Closed
      <4>2. Len(o.soft) = 2 /\ o.soft \in Seq(Values)
        BY <3>3, <4>1, ObjectFields DEF validate_descriptor_shape, EphemeronAndBuilderShape
      <4> QED BY <4>2
    <3> QED BY <2>3, <2>6, <3>2, <3>3, <3>4
  <2> QED BY <2>5, <2>6
<1>4. Graph!KeepsReachable(r, g, NamesIn(k))
  BY <1>2, <1>3 DEF Graph!KeepsReachable
<1>5. NamesIn(k) \in SUBSET DOMAIN g
  BY <1>1
<1> QED BY <1>4, <1>5 DEF Graph!Reachable, Gone

LEMMA LeavesInstalls ==
  ASSUME NEW r, NEW g, NEW i, NEW k, Closed(k), NamesAreUnique(k), Leaves(r, g, i, k), AllNodes(g)
  PROVE  Graph!Installs(View(k), r, g, i)
<1> DEFINE t == View(k)
           gone == DOMAIN g \ DOMAIN t.graph
<1>1. t.graph = GraphIn(k) /\ DOMAIN GraphIn(k) = NamesIn(k)
  BY DEF GraphIn, View
<1>2. gone = Gone(g, k) /\ DOMAIN g \ gone = NamesIn(k)
  BY <1>1 DEF Gone, Leaves
<1>3. t.root = r /\ t.interned = i \ gone
  BY <1>2 DEF View, Leaves
<1> HIDE DEF gone, t
<1>4. ASSUME NEW n \in NamesIn(k)
      PROVE  GraphIn(k)[n] = [g[n] EXCEPT !.soft = Graph!SoftWithout(g[n], gone)]
  <2>1. PICK s \in Headers(k) : n = k.objects[s].data
    BY SlotOfName
  <2>2. GraphIn(k)[n] = NodeIn(k, k.objects[s])
    BY <2>1, GraphAt
  <2>3. NodeIn(k, k.objects[s]) = Rest(g[n], gone)
    BY <1>2, <2>1 DEF Leaves
  <2>4. IsNode(g[n])
    BY DEF AllNodes, Leaves
  <2>5. [g[n] EXCEPT !.soft = Graph!SoftWithout(g[n], gone)] = Rest(g[n], gone)
    <3> DEFINE node == g[n]
               soft == Graph!SoftWithout(g[n], gone)
    <3>1. node = WithSoft(node, node.soft)
      BY <2>4 DEF IsNode
    <3> HIDE DEF node, soft
    <3>2. [node EXCEPT !.soft = soft] = WithSoft(node, soft)
      BY <3>1 DEF WithSoft
    <3> QED BY <3>2 DEF Rest, node, soft
  <2> QED BY <2>2, <2>3, <2>5
<1>5. GraphIn(k) = [n \in DOMAIN g \ gone |-> [g[n] EXCEPT !.soft = Graph!SoftWithout(g[n], gone)]]
  <2>1. GraphIn(k) = [n \in NamesIn(k) |-> GraphIn(k)[n]]
    BY DEF GraphIn
  <2> QED BY <1>2, <1>4, <2>1
<1>6. \A n \in gone : n \notin Graph!Reachable(r, g)
  BY <1>2, NothingReachableIsGone
<1>7. t.graph = [n \in DOMAIN g \ gone |-> [g[n] EXCEPT !.soft = Graph!SoftWithout(g[n], gone)]]
  BY <1>1, <1>5
<1>8. Graph!Installs(t, r, g, i)
  BY ONLY <1>3, <1>6, <1>7, Zenon DEF Graph!Installs, gone
<1> QED BY <1>8 DEF t

LEMMA NodesOfHeap ==
  ASSUME NEW h, NamesAreUnique(h)
  PROVE  AllNodes(GraphIn(h))
<1> QED BY HeapNodes DEF AllNodes, GraphIn

LEMMA NodesWith ==
  ASSUME NEW h, NamesAreUnique(h), NEW n, NEW node, IsNode(node)
  PROVE  AllNodes(Graph!With(GraphIn(h), n, node))
<1> QED BY NodesOfHeap DEF AllNodes, Graph!With

\* A cell is given a value.
LEMMA CellShows ==
  ASSUME NEW r, NEW g, NEW i, NEW h, LayoutInv(h), NamesAreUnique(h), Leaves(r, g, i, h),
         NEW c \in Registered, NEW v \in Values, NEW k, k = [h EXCEPT !.cells[c] = v]
  PROVE  /\ Leaves([r EXCEPT ![c] = NameIn(h, v)], g, i, k) /\ NamesAreUnique(k)
         /\ k.allocated = h.allocated /\ SameRawCells(h, k)
<1>1. /\ h.cells \in [Cells -> Values] /\ DOMAIN h = HeapFields
      /\ c \in Cells /\ c \notin RawCells /\ RawCells \subseteq Cells
  BY CellsAssumption DEF LayoutInv, HeapIsTyped, Registered
<1>2. /\ k.objects = h.objects /\ k.generations = h.generations /\ k.intern_table = h.intern_table
      /\ k.plan = h.plan /\ k.cursor = h.cursor /\ k.allocated = h.allocated /\ k.phase = h.phase
      /\ k.cells = [h.cells EXCEPT ![c] = v]
  BY <1>1 DEF HeapFields
<1>3. Headers(k) = Headers(h)
  BY <1>2 DEF Headers
<1>4. \A w : ObjectOf(k, w) = ObjectOf(h, w) /\ NameIn(k, w) = NameIn(h, w)
  <2>1. \A w : checked_slot(k, w) = checked_slot(h, w)
    BY <1>2 DEF checked_slot, Moved, Physical
  <2> QED BY <1>2, <2>1 DEF ObjectOf, NameIn, Resolves
<1>5. /\ NamesIn(k) = NamesIn(h) /\ NamesAreUnique(k) /\ SameRawCells(h, k)
      /\ \A o : NodeIn(k, o) = NodeIn(h, o)
      /\ InternedIn(k) = InternedIn(h)
  BY <1>1, <1>2, <1>3, <1>4 DEF NamesIn, NamesAreUnique, SameRawCells, NodeIn, InternedIn
<1>6. RootIn(k) = [r EXCEPT ![c] = NameIn(h, v)]
  <2>1. r = RootIn(h)
    BY DEF Leaves
  <2>2. \A d \in Registered : d \in Cells
    BY DEF Registered
  <2> QED BY <1>1, <1>2, <1>4, <2>1, <2>2 DEF RootIn
<1>7. Gone(g, k) = Gone(g, h)
  BY <1>5 DEF Gone
<1> QED BY <1>2, <1>3, <1>5, <1>6, <1>7 DEF Leaves


(***************************************************************************)
(* Actions.                                                                *)
(***************************************************************************)
GraphStep(s, t) ==
  \/ Graph!Reclaim(s, t) \/ Graph!Load(s, t) \/ Graph!New(s, t) \/ Graph!Store(s, t)
  \/ Graph!InternHit(s, t) \/ Graph!InternMiss(s, t)

\* The mutator holds no reference outside the registered cells.
OnlyRoots == host.raw = {} /\ \A c \in RawCells : heap.cells[c] = Nil

\* What every action does: names stay unique, raw cells that the host does
\* not use stay as they are, and the mutator sees a step of ObjectGraph.
Steps ==
  /\ NamesAreUnique(heap') /\ (host.raw = {} => SameRawCells(heap, heap'))
  /\ OnlyRoots => GraphStep(View(heap), View(heap'))

\* What holds at both ends of a step.
StepHolds == GcInv /\ NamesAreUnique(heap) /\ LayoutInv(heap') /\ ReferenceInv(heap')

LEMMA BecomeShows ==
  ASSUME StepHolds, NEW k, LayoutInv(k), NamesAreUnique(k), Become(k)
  PROVE  SameGraph(k, heap')
<1> DEFINE g == heap'
<1>1. /\ DOMAIN g = HeapFields
      /\ g.objects = k.objects /\ g.generations = k.generations
      /\ g.remembered_set = k.remembered_set /\ g.weak_refs = k.weak_refs
      /\ g.ephemerons = k.ephemerons /\ g.intern_table = k.intern_table
      /\ g.cells = k.cells /\ g.extra = <<>>
      /\ g.phase = k.phase /\ g.worklist = k.worklist /\ g.plan = k.plan
      /\ g.cursor = k.cursor /\ g.shadow = k.shadow /\ g.allocated = k.allocated
  BY DEF heap, Become, HeapFields
<1>2. g = heap'
  OBVIOUS
<1> HIDE DEF g
<1>3. SameButOperands(k, g) /\ g.extra \in Seq(Values) /\ g.cells \in [Cells -> Values]
  BY <1>1, EmptySeq DEF SameButOperands, LayoutInv, HeapIsTyped
<1>4. SamePlaces(k, g)
  BY <1>3, OperandsKeep
<1>5. Alike(k, g)
  BY <1>1, <1>4 DEF Alike
<1>6. SameGraph(k, g)
  BY <1>5, AlikeKeepsGraph
<1> QED BY <1>2, <1>6

\* The step ends in a heap that shows r, g and i less some garbage.
LEMMA Stepping ==
  ASSUME StepHolds, NEW k, LayoutInv(k), NamesAreUnique(k), Become(k),
         NEW r, NEW g, NEW i, Leaves(r, g, i, k), AllNodes(g)
  PROVE  /\ NamesAreUnique(heap') /\ SameRawCells(k, heap')
         /\ Graph!Installs(View(heap'), r, g, i) /\ View(heap').next = k.allocated
         /\ Leaves(r, g, i, heap')
<1> DEFINE f == heap'
<1>1. LayoutInv(f) /\ ReferenceInv(f) /\ f = heap'
  BY DEF StepHolds
<1>2. SameGraph(k, f)
  BY BecomeShows
<1> HIDE DEF f
<1>3. Thins(k, f)
  BY <1>2 DEF SameGraph
<1>4. Leaves(r, g, i, f)
  BY <1>3, LeavesOn DEF Thins
<1>5. Closed(f)
  BY <1>1 DEF Closed, ReferenceInv
<1>6. Graph!Installs(View(f), r, g, i)
  BY <1>3, <1>4, <1>5, LeavesInstalls DEF Thins
<1>7. NamesAreUnique(f) /\ SameRawCells(k, f) /\ View(f).next = k.allocated
  BY <1>3 DEF Thins, View
<1> QED BY <1>1, <1>4, <1>6, <1>7

\* A collection.
LEMMA ThinsSteps ==
  ASSUME StepHolds, NEW k, LayoutInv(k), Thins(heap, k), Become(k)
  PROVE  Steps
<1> DEFINE h == heap
           t == View(heap')
<1>1. h = heap /\ t = View(heap') /\ NamesAreUnique(h)
  BY DEF StepHolds
<1>2. Leaves(RootIn(h), GraphIn(h), InternedIn(h), k) /\ NamesAreUnique(k) /\ SameRawCells(h, k)
      /\ k.allocated = h.allocated
  BY DEF Thins
<1> HIDE DEF h, t
<1>3. AllNodes(GraphIn(h))
  BY <1>1, NodesOfHeap
<1>4. /\ NamesAreUnique(heap') /\ SameRawCells(k, heap')
      /\ Graph!Installs(t, RootIn(h), GraphIn(h), InternedIn(h)) /\ t.next = h.allocated
  BY <1>1, <1>2, <1>3, Stepping
<1>5. Graph!Reclaim(View(h), t)
  BY <1>4 DEF Graph!Reclaim, View
<1>6. SameRawCells(h, heap')
  BY <1>2, <1>4 DEF SameRawCells
<1> QED BY <1>1, <1>4, <1>5, <1>6 DEF Steps, GraphStep


(***************************************************************************)
(* Stores.                                                                 *)
(***************************************************************************)
\* The heap with another stress configuration, as a store starts from it.
LEMMA StressedShows ==
  ASSUME StepHolds, NEW config, NEW h, h = Stressed(config)
  PROVE  /\ LayoutInv(h) /\ ReferenceInv(h) /\ NamesAreUnique(h) /\ SameGraph(heap, h)
         /\ h.allocated = heap.allocated
         /\ \A v \in Values : NameIn(h, v) = NameIn(heap, v)
         /\ \A v : (Resolves(h, v) <=> Resolves(heap, v)) /\ (Physical(h, v) <=> Physical(heap, v))
         /\ \A v : ObjectOf(h, v) = ObjectOf(heap, v)
<1> DEFINE f == heap
<1>1. LayoutInv(f) /\ NamesAreUnique(f) /\ f = heap /\ f.cells = heap.cells
  BY DEF StepHolds, GcInv, GcLayoutInv
<1>2. LayoutInv(h) /\ ReferenceInv(h) /\ StressedAs(config, h) /\ \A v : Physical(h, v) <=> Physical(heap, v)
  BY StressedKeepsReferences DEF StepHolds
<1>3. h.cells = heap.cells
  BY HeapRecord DEF Stressed, HeapFields
<1> HIDE DEF f
<1>4. Alike(f, h)
  BY <1>1, <1>2, <1>3 DEF StressedAs, SameButOperands, Alike
<1>5. SameGraph(f, h) /\ \A v \in Values : NameIn(h, v) = NameIn(f, v)
  BY <1>1, <1>4, AlikeKeepsGraph
<1>6. NamesAreUnique(h) /\ h.allocated = f.allocated
  BY <1>5 DEF SameGraph, Thins
<1> QED BY <1>1, <1>2, <1>5, <1>6 DEF StressedAs

\* What the mutator holds, and what it can name.
LEMMA OperandNameIs ==
  ASSUME StepHolds, OnlyRoots
  PROVE  /\ \A v \in Operands : NameIn(heap, v) \in Graph!References(View(heap))
         /\ \A v \in ObjectOperands :
              /\ v \in Ids /\ Resolves(heap, v)
              /\ NameIn(heap, v) \in Graph!Held(RootIn(heap))
              /\ NameIn(heap, v) \in NamesIn(heap)
              /\ GraphIn(heap)[NameIn(heap, v)] = NodeIn(heap, ObjectOf(heap, v))
<1> DEFINE h == heap
<1>1. LayoutInv(h) /\ NamesAreUnique(h) /\ h = heap /\ h.cells = cells
  BY HeapRecord DEF StepHolds, GcInv, GcLayoutInv
<1>2. \A v \in Operands : v \in Values /\ (is_object(v) => Resolves(h, v))
  BY <1>1, OperandsAreUsable
<1>3. ASSUME NEW v \in Operands, v # Nil
      PROVE  /\ v \in Ids /\ Resolves(h, v) /\ NameIn(h, v) \in Graph!Held(RootIn(h))
             /\ NameIn(h, v) \in NamesIn(h)
             /\ GraphIn(h)[NameIn(h, v)] = NodeIn(h, ObjectOf(h, v))
  <2>1. v \in Ids /\ Resolves(h, v)
    BY <1>2, <1>3 DEF Values, is_object
  <2>2. PICK c \in Cells : v = h.cells[c]
    BY <1>1, <1>3 DEF Operands
  <2>3. c \in Registered
    BY <1>1, <1>3, <2>2 DEF OnlyRoots, Registered
  <2> HIDE DEF h
  <2>4. NameIn(h, v) \in NamesIn(h) /\ NameIn(h, v) # Nil
    BY <1>1, <2>1, NameOfReference
  <2>5. RootIn(h)[c] = NameIn(h, v)
    BY <2>2, <2>3 DEF RootIn
  <2>6. NameIn(h, v) \in Graph!Held(RootIn(h))
    BY <2>3, <2>4, <2>5 DEF Graph!Held
  <2> QED BY <1>1, <2>1, <2>4, <2>6, NodeOfReference
<1> HIDE DEF h
<1>4. \A v \in Operands : NameIn(h, v) \in Graph!References(View(h))
  BY <1>3, NameOfNil DEF Graph!References, View
<1> QED BY <1>1, <1>3, <1>4 DEF ObjectOperands

LEMMA ReceiverIsOperand ==
  ASSUME StepHolds, OwnersAreCurrent, NEW kinds
  PROVE  Receivers(kinds) \subseteq ObjectOperands
<1>1. LayoutInv(heap) /\ host \in Hosts
  BY DEF StepHolds, GcInv, GcLayoutInv
<1> SUFFICES ASSUME NEW v \in Receivers(kinds) PROVE v \in ObjectOperands
  OBVIOUS
<1>2. v \in Ids /\ Resolves(heap, v)
  BY <1>1, ReceiversAreUsable
<1>3. \E c \in Cells : v = cells[c]
  BY <1>1, HostsAssumption DEF Receivers
<1> QED BY <1>2, <1>3, IdsAreReferences DEF ObjectOperands, Operands, Usable, is_object

\* The object n has become node.
LEMMA UpdateSteps ==
  ASSUME StepHolds, NEW k, LayoutInv(k), Become(k), k.allocated = heap.allocated,
         NEW n, NEW node, IsNode(node), Updates(heap, n, node, k)
  PROVE  /\ NamesAreUnique(heap') /\ SameRawCells(heap, heap')
         /\ Graph!Installs(View(heap'), RootIn(heap), Graph!With(GraphIn(heap), n, node), InternedIn(heap))
         /\ View(heap').next = View(heap).next
         /\ Leaves(RootIn(heap), Graph!With(GraphIn(heap), n, node), InternedIn(heap), heap')
<1> DEFINE h == heap
           g == Graph!With(GraphIn(h), n, node)
<1>1. NamesAreUnique(h) /\ h = heap
  BY DEF StepHolds
<1>2. Leaves(RootIn(h), g, InternedIn(h), k) /\ NamesAreUnique(k) /\ SameRawCells(h, k)
  BY DEF Updates
<1> HIDE DEF h
<1>3. AllNodes(g)
  BY <1>1, NodesWith
<1>4. g = Graph!With(GraphIn(h), n, node)
  OBVIOUS
<1> HIDE DEF g
<1>5. /\ NamesAreUnique(heap') /\ SameRawCells(k, heap')
      /\ Graph!Installs(View(heap'), RootIn(h), g, InternedIn(h)) /\ View(heap').next = k.allocated
      /\ Leaves(RootIn(h), g, InternedIn(h), heap')
  BY <1>2, <1>3, Stepping
<1>6. View(heap').next = View(h).next
  BY <1>1, <1>5 DEF View
<1>7. SameRawCells(h, heap')
  BY <1>2, <1>5 DEF SameRawCells
<1> QED BY <1>1, <1>4, <1>5, <1>6, <1>7


\* The four ways in which an object changes.
StoresTo(s, t, n, changed) ==
  /\ t.next = s.next /\ n \in Graph!Held(s.root)
  /\ Graph!Installs(t, s.root, Graph!With(s.graph, n, changed), s.interned)

LEMMA FieldStores ==
  ASSUME NEW s, NEW t, NEW n, NEW i \in DOMAIN s.graph[n].strong, NEW v \in Graph!References(s),
         NEW changed, changed = [s.graph[n] EXCEPT !.strong[i] = v], StoresTo(s, t, n, changed)
  PROVE  Graph!Store(s, t)
<1> QED BY DEF Graph!Store, StoresTo

LEMMA EntryStores ==
  ASSUME NEW s, NEW t, NEW n, NEW entry \in Graph!References(s) \X Graph!References(s),
         NEW changed, changed = [s.graph[n] EXCEPT !.strong = @ \o entry], StoresTo(s, t, n, changed)
  PROVE  Graph!Store(s, t)
<1>1. changed \in {[s.graph[n] EXCEPT !.strong = @ \o e] : e \in Graph!References(s) \X Graph!References(s)}
  BY Zenon
<1> QED BY <1>1 DEF Graph!Store, StoresTo

LEMMA ValueStores ==
  ASSUME NEW s, NEW t, NEW n, s.graph[n].kind = "Ephemeron", NEW v \in Graph!References(s),
         NEW changed, changed = [s.graph[n] EXCEPT !.soft = <<@[1], v>>], StoresTo(s, t, n, changed)
  PROVE  Graph!Store(s, t)
<1> QED BY DEF Graph!Store, StoresTo

LEMMA TextStores ==
  ASSUME NEW s, NEW t, NEW n, NEW text \in Graph!NewTexts(s, t, n),
         NEW changed, changed = [s.graph[n] EXCEPT !.text = text], StoresTo(s, t, n, changed)
  PROVE  Graph!Store(s, t)
<1> QED BY DEF Graph!Store, StoresTo


LEMMA ChangedIsNode ==
  ASSUME NEW node, IsNode(node), NEW x
  PROVE  /\ IsNode([node EXCEPT !.strong = x]) /\ IsNode([node EXCEPT !.text = x])
         /\ IsNode([node EXCEPT !.soft = x])
         /\ \A i : IsNode([node EXCEPT !.strong[i] = x])
         /\ [node EXCEPT !.text = x].text = x /\ [node EXCEPT !.text = x].kind = node.kind
<1>1. node = WithSoft(node, node.soft)
  BY DEF IsNode
<1> DEFINE k == node.kind  strong == node.strong  soft == node.soft  text == node.text
<1>2. node = [kind |-> k, strong |-> strong, soft |-> soft, text |-> text]
  BY <1>1 DEF WithSoft
<1> HIDE DEF k, strong, soft, text
<1> QED BY <1>2 DEF IsNode, WithSoft

\* The heap that a store installs has node in place of the receiver.
LEMMA StoredSteps ==
  ASSUME StepHolds, OwnersAreCurrent, NEW kinds, NEW owner \in Receivers(kinds),
         NEW g, LayoutInv(g), Become(g), g.allocated = heap.allocated,
         NEW node, IsNode(node), Updates(heap, NameIn(heap, owner), node, g)
  PROVE  /\ NamesAreUnique(heap') /\ SameRawCells(heap, heap')
         /\ OnlyRoots => StoresTo(View(heap), View(heap'), NameIn(heap, owner), node)
         /\ Leaves(RootIn(heap), Graph!With(GraphIn(heap), NameIn(heap, owner), node), InternedIn(heap), heap')
<1>1. /\ NamesAreUnique(heap') /\ SameRawCells(heap, heap')
      /\ Graph!Installs(View(heap'), RootIn(heap),
                        Graph!With(GraphIn(heap), NameIn(heap, owner), node), InternedIn(heap))
      /\ View(heap').next = View(heap).next
      /\ Leaves(RootIn(heap), Graph!With(GraphIn(heap), NameIn(heap, owner), node), InternedIn(heap), heap')
  BY UpdateSteps
<1>2. OnlyRoots => NameIn(heap, owner) \in Graph!Held(RootIn(heap))
  BY ReceiverIsOperand, OperandNameIs
<1>3. View(heap).root = RootIn(heap) /\ View(heap).graph = GraphIn(heap)
      /\ View(heap).interned = InternedIn(heap)
  BY DEF View
<1> QED BY <1>1, <1>2, <1>3 DEF StoresTo

\* The receiver and a value as a store finds them.
LEMMA StoreShows ==
  ASSUME StepHolds, OwnersAreCurrent, NEW config, NEW h, h = Stressed(config), NEW kinds,
         NEW owner \in Receivers(kinds), NEW o, o = ObjectOf(h, owner)
  PROVE  /\ o = ObjectOf(heap, owner) /\ o \in Objects /\ o.kind \in kinds
         /\ validate_descriptor_shape(o)
         /\ owner \in Ids /\ owner \in Values /\ Resolves(h, owner) /\ Physical(h, owner)
         /\ NameIn(h, owner) = NameIn(heap, owner)
         /\ NodeIn(h, o) = NodeIn(heap, o) /\ GraphIn(heap)[NameIn(heap, owner)] = NodeIn(heap, o)
         /\ IsNode(NodeIn(heap, o))
         /\ \A n, node, g : Updates(h, n, node, g) => Updates(heap, n, node, g)
<1> DEFINE f == heap
<1>1. LayoutInv(f) /\ NamesAreUnique(f) /\ f = heap
  BY DEF StepHolds, GcInv, GcLayoutInv
<1>2. /\ o = ObjectOf(heap, owner) /\ o \in Objects /\ o.kind \in kinds /\ validate_descriptor_shape(o)
      /\ owner \in Ids /\ owner \in Values /\ Resolves(h, owner) /\ Physical(h, owner)
  <2>1. Nil \in Operands
    BY DEF Operands, Usable, is_object
  <2> QED BY <2>1, StoreStartsFrom DEF StepHolds
<1>3. /\ SameGraph(f, h) /\ \A v \in Values : NameIn(h, v) = NameIn(f, v)
      /\ \A v : Resolves(h, v) <=> Resolves(f, v)
  BY StressedShows
<1> HIDE DEF f
<1>4. NodeIn(h, o) = NodeIn(f, o)
  BY <1>2, <1>3, NodesAlike
<1>5. GraphIn(f)[NameIn(f, owner)] = NodeIn(f, o)
  BY <1>1, <1>2, <1>3, NodeOfReference
<1>6. IsNode(NodeIn(f, o))
  BY DEF NodeIn, IsNode, WithSoft
<1>7. \A n, node, g : Updates(h, n, node, g) => Updates(f, n, node, g)
  BY <1>1, <1>3, UpdatesFrom
<1> QED BY <1>1, <1>2, <1>3, <1>4, <1>5, <1>6, <1>7

LEMMA StoreFieldSteps ==
  ASSUME StepHolds, OwnersAreCurrent, StoreField
  PROVE  Steps
<1> SUFFICES ASSUME NEW config \in host.stress, NEW owner \in Receivers({"Pair", "Record", "RefArray"}),
                    NEW value \in Operands, NEW i \in DOMAIN ObjectOf(heap, owner).strong,
                    Become(store_field(Stressed(config), owner, i, value))
             PROVE  Steps
  BY DEF StoreField
<1> DEFINE h == Stressed(config)
           g == store_field(h, owner, i, value)
           o == ObjectOf(h, owner)
           kinds == {"Pair", "Record", "RefArray"}
<1>1. Become(g) /\ h = Stressed(config) /\ g = store_field(h, owner, i, value) /\ o = ObjectOf(h, owner)
      /\ owner \in Receivers(kinds)
  OBVIOUS
<1> HIDE DEF h, g, o, kinds
<1>2. /\ o = ObjectOf(heap, owner) /\ owner \in Ids /\ Resolves(h, owner) /\ Physical(h, owner)
      /\ NameIn(h, owner) = NameIn(heap, owner)
      /\ NodeIn(h, o) = NodeIn(heap, o) /\ GraphIn(heap)[NameIn(heap, owner)] = NodeIn(heap, o)
      /\ IsNode(NodeIn(heap, o))
      /\ \A n, node, k : Updates(h, n, node, k) => Updates(heap, n, node, k)
      /\ i \in DOMAIN ObjectOf(h, owner).strong /\ i \in DOMAIN o.strong
  BY <1>1, StoreShows
<1>3. /\ LayoutInv(h) /\ ReferenceInv(h) /\ NamesAreUnique(h) /\ h.allocated = heap.allocated
      /\ value \in Values /\ (is_object(value) => Resolves(h, value)) /\ NameIn(h, value) = NameIn(heap, value)
  BY <1>1, StressedShows, StoreStartsFrom DEF StepHolds
<1> DEFINE v == NameIn(heap, value)
           n == NameIn(heap, owner)
           node == NodeIn(heap, o)
           changed == [node EXCEPT !.strong[i] = v]
<1>4. LayoutInv(g) /\ g.allocated = heap.allocated
  BY <1>1, <1>2, <1>3, StoreFieldKeeps
<1>5. Updates(heap, n, changed, g)
  <2>1. Updates(h, NameIn(h, owner), [NodeIn(h, ObjectOf(h, owner)) EXCEPT !.strong[i] = NameIn(h, value)], g)
    BY <1>1, <1>2, <1>3, StoreFieldUpdates
  <2>2. Updates(h, n, changed, g)
    BY <1>1, <1>2, <1>3, <2>1
  <2> QED BY <1>2, <2>2
<1>6. IsNode(changed) /\ changed = [View(heap).graph[n] EXCEPT !.strong[i] = v]
      /\ i \in DOMAIN View(heap).graph[n].strong
  <2>1. IsNode(node) /\ node = View(heap).graph[n]
    BY <1>2 DEF View
  <2>2. DOMAIN node.strong = DOMAIN o.strong
    BY DEF NodeIn
  <2> HIDE DEF node
  <2> QED BY <1>2, <2>1, <2>2, ChangedIsNode
<1>7. OnlyRoots => v \in Graph!References(View(heap))
  BY OperandNameIs
<1> HIDE DEF v, n, node, changed
<1>8. /\ NamesAreUnique(heap') /\ SameRawCells(heap, heap')
      /\ OnlyRoots => StoresTo(View(heap), View(heap'), n, changed)
  BY <1>1, <1>4, <1>5, <1>6, StoredSteps DEF n
<1>9. OnlyRoots => Graph!Store(View(heap), View(heap'))
  BY <1>6, <1>7, <1>8, FieldStores
<1> QED BY <1>8, <1>9 DEF Steps, GraphStep


LEMMA StoreEphemeronValueSteps ==
  ASSUME StepHolds, OwnersAreCurrent, StoreEphemeronValue
  PROVE  Steps
<1> SUFFICES ASSUME NEW config \in host.stress, NEW owner \in Receivers({"Ephemeron"}),
                    NEW value \in Operands, is_object(ObjectOf(heap, owner).soft[1]),
                    Become(store_ephemeron_value(Stressed(config), owner, value))
             PROVE  Steps
  BY DEF StoreEphemeronValue
<1> DEFINE h == Stressed(config)
           g == store_ephemeron_value(h, owner, value)
           o == ObjectOf(h, owner)
           kinds == {"Ephemeron"}
<1>1. Become(g) /\ h = Stressed(config) /\ g = store_ephemeron_value(h, owner, value)
      /\ o = ObjectOf(h, owner) /\ owner \in Receivers(kinds) /\ \A kind \in kinds : kind = "Ephemeron"
  OBVIOUS
<1> HIDE DEF h, g, o, kinds
<1>2. /\ o = ObjectOf(heap, owner) /\ owner \in Ids /\ Resolves(h, owner) /\ Physical(h, owner)
      /\ o.kind = "Ephemeron" /\ NameIn(h, owner) = NameIn(heap, owner)
      /\ NodeIn(h, o) = NodeIn(heap, o) /\ GraphIn(heap)[NameIn(heap, owner)] = NodeIn(heap, o)
      /\ IsNode(NodeIn(heap, o))
      /\ \A n, node, k : Updates(h, n, node, k) => Updates(heap, n, node, k)
      /\ ObjectOf(h, owner).kind = "Ephemeron" /\ is_object(ObjectOf(h, owner).soft[1])
  BY <1>1, StoreShows
<1>3. /\ LayoutInv(h) /\ ReferenceInv(h) /\ NamesAreUnique(h) /\ h.allocated = heap.allocated
      /\ value \in Values /\ (is_object(value) => Resolves(h, value)) /\ NameIn(h, value) = NameIn(heap, value)
  BY <1>1, StressedShows, StoreStartsFrom DEF StepHolds
<1> DEFINE v == NameIn(heap, value)
           n == NameIn(heap, owner)
           node == NodeIn(heap, o)
           changed == [node EXCEPT !.soft = <<@[1], v>>]
<1>4. LayoutInv(g) /\ g.allocated = heap.allocated
  BY <1>1, <1>2, <1>3, StoreEphemeronKeeps
<1>5. Updates(heap, n, changed, g)
  <2>1. Updates(h, NameIn(h, owner), [NodeIn(h, ObjectOf(h, owner)) EXCEPT !.soft = <<@[1], NameIn(h, value)>>], g)
    BY <1>1, <1>2, <1>3, StoreEphemeronUpdates
  <2>2. Updates(h, n, changed, g)
    BY <1>1, <1>2, <1>3, <2>1
  <2> QED BY <1>2, <2>2
<1>6. IsNode(changed) /\ changed = [View(heap).graph[n] EXCEPT !.soft = <<@[1], v>>]
      /\ View(heap).graph[n].kind = "Ephemeron"
  <2>1. IsNode(node) /\ node = View(heap).graph[n]
    BY <1>2 DEF View
  <2>2. node.kind = "Ephemeron"
    BY <1>2 DEF NodeIn
  <2> HIDE DEF node
  <2> QED BY <1>2, <2>1, <2>2, ChangedIsNode
<1>7. OnlyRoots => v \in Graph!References(View(heap))
  BY OperandNameIs
<1> HIDE DEF v, n, node, changed
<1>8. /\ NamesAreUnique(heap') /\ SameRawCells(heap, heap')
      /\ OnlyRoots => StoresTo(View(heap), View(heap'), n, changed)
  BY <1>1, <1>4, <1>5, <1>6, StoredSteps DEF n
<1>9. OnlyRoots => Graph!Store(View(heap), View(heap'))
  BY <1>6, <1>7, <1>8, ValueStores
<1> QED BY <1>8, <1>9 DEF Steps, GraphStep

LEMMA MapInsertSteps ==
  ASSUME StepHolds, OwnersAreCurrent, MapInsert
  PROVE  Steps
<1> SUFFICES ASSUME NEW config \in host.stress, NEW owner \in Receivers({"Map"}),
                    NEW key \in StringOperands \cup {Nil}, NEW value \in Operands,
                    Become(insert_map_entry(Stressed(config), owner, key, value))
             PROVE  Steps
  BY DEF MapInsert
<1> DEFINE h == Stressed(config)
           g == insert_map_entry(h, owner, key, value)
           o == ObjectOf(h, owner)
           kinds == {"Map"}
<1>1. Become(g) /\ h = Stressed(config) /\ g = insert_map_entry(h, owner, key, value)
      /\ o = ObjectOf(h, owner) /\ owner \in Receivers(kinds) /\ \A kind \in kinds : kind = "Map"
  OBVIOUS
<1> HIDE DEF h, g, o, kinds
<1>2. /\ o = ObjectOf(heap, owner) /\ owner \in Values /\ Resolves(h, owner)
      /\ NameIn(h, owner) = NameIn(heap, owner)
      /\ GraphIn(heap)[NameIn(heap, owner)] = NodeIn(heap, o)
      /\ IsNode(NodeIn(heap, o))
      /\ \A n, node, k : Updates(h, n, node, k) => Updates(heap, n, node, k)
      /\ ObjectOf(h, owner).kind = "Map"
  BY <1>1, StoreShows
<1>3. /\ LayoutInv(h) /\ ReferenceInv(h) /\ NamesAreUnique(h) /\ h.allocated = heap.allocated
      /\ SameGraph(heap, h)
      /\ value \in Values /\ (is_object(value) => Resolves(h, value)) /\ NameIn(h, value) = NameIn(heap, value)
  BY <1>1, StressedShows, StoreStartsFrom DEF StepHolds
<1>4. /\ key \in Operands /\ key \in Values /\ (is_object(key) => Resolves(h, key))
      /\ NameIn(h, key) = NameIn(heap, key)
  <2>1. key \in Values /\ (is_object(key) => Resolves(h, key))
    BY <1>1, KeysCanBeUsed DEF StepHolds
  <2>2. Nil \in Operands
    BY DEF Operands, Usable, is_object
  <2> QED BY <1>1, <2>1, <2>2, StressedShows DEF StringOperands, ObjectOperands
<1> DEFINE k == NameIn(heap, key)
           v == NameIn(heap, value)
           n == NameIn(heap, owner)
           node == NodeIn(heap, o)
           entry == <<k, v>>
           changed == [node EXCEPT !.strong = @ \o entry]
<1>5. LayoutInv(g) /\ g.allocated = heap.allocated
  <2>1. /\ LayoutInv(h) /\ owner \in Values /\ Resolves(h, owner) /\ ObjectOf(h, owner).kind = "Map"
        /\ key \in Values /\ value \in Values /\ g = insert_map_entry(h, owner, key, value)
    BY <1>1, <1>2, <1>3, <1>4
  <2>2. LayoutInv(g) /\ g.allocated = h.allocated
    BY ONLY <2>1, InsertMapKeeps
  <2> QED BY <1>3, <2>2
<1>6. node = GraphIn(heap)[n] /\ node = GraphIn(h)[n]
  <2>1. GraphIn(h) = GraphIn(heap)
    BY <1>3, SameGraphIs DEF StepHolds
  <2> QED BY <1>2, <2>1
<1>7. IsNode(node)
  BY <1>2
<1> HIDE DEF node
<1>8. Updates(heap, n, changed, g)
  <2>1. InsertsEntry(h, NameIn(h, owner), NameIn(h, key), NameIn(h, value), g)
    BY <1>1, <1>2, <1>3, <1>4, InsertMapUpdates
  <2>2. InsertsEntry(h, n, k, v, g)
    BY <1>2, <1>3, <1>4, <2>1
  <2>3. Updates(h, n, changed, g)
    BY ONLY <1>6, <2>2, Zenon DEF InsertsEntry
  <2> QED BY <1>2, <2>3
<1>9. IsNode(changed) /\ changed = [View(heap).graph[n] EXCEPT !.strong = @ \o entry]
  <2>1. node = View(heap).graph[n]
    BY <1>6 DEF View
  <2> QED BY <1>7, <2>1, ChangedIsNode
<1>10. OnlyRoots => entry \in Graph!References(View(heap)) \X Graph!References(View(heap))
  BY <1>4, OperandNameIs
<1> HIDE DEF entry, n, changed
<1>11. /\ NamesAreUnique(heap') /\ SameRawCells(heap, heap')
       /\ OnlyRoots => StoresTo(View(heap), View(heap'), n, changed)
  BY <1>1, <1>5, <1>8, <1>9, StoredSteps DEF n
<1>12. OnlyRoots => Graph!Store(View(heap), View(heap'))
  BY <1>9, <1>10, <1>11, EntryStores
<1> QED BY <1>11, <1>12 DEF Steps, GraphStep

LEMMA MapUpdateSteps ==
  ASSUME StepHolds, OwnersAreCurrent, MapUpdate
  PROVE  Steps
<1> SUFFICES ASSUME NEW config \in host.stress, NEW owner \in Receivers({"Map"}), NEW value \in Operands,
                    NEW i \in 1 .. ObjectOf(heap, owner).length, NEW key \in StringOperands \cup {Nil},
                    Become(update_map_entry(Stressed(config), owner, i, key, value))
             PROVE  Steps
  BY DEF MapUpdate
<1> DEFINE h == Stressed(config)
           g == update_map_entry(h, owner, i, key, value)
           o == ObjectOf(h, owner)
           kinds == {"Map"}
<1>1. Become(g) /\ h = Stressed(config) /\ g = update_map_entry(h, owner, i, key, value)
      /\ o = ObjectOf(h, owner) /\ owner \in Receivers(kinds) /\ \A kind \in kinds : kind = "Map"
  OBVIOUS
<1> HIDE DEF h, g, o, kinds
<1>2. /\ o = ObjectOf(heap, owner) /\ owner \in Ids /\ Resolves(h, owner) /\ Physical(h, owner)
      /\ NameIn(h, owner) = NameIn(heap, owner)
      /\ NodeIn(h, o) = NodeIn(heap, o) /\ GraphIn(heap)[NameIn(heap, owner)] = NodeIn(heap, o)
      /\ IsNode(NodeIn(heap, o)) /\ o \in Objects /\ o.kind = "Map" /\ validate_descriptor_shape(o)
      /\ \A n, node, k : Updates(h, n, node, k) => Updates(heap, n, node, k)
  BY <1>1, StoreShows
<1>3. /\ LayoutInv(h) /\ ReferenceInv(h) /\ NamesAreUnique(h) /\ h.allocated = heap.allocated
      /\ value \in Values /\ (is_object(value) => Resolves(h, value)) /\ NameIn(h, value) = NameIn(heap, value)
  BY <1>1, StressedShows, StoreStartsFrom DEF StepHolds
<1>4. key \in Values /\ (is_object(key) => Resolves(h, key))
  BY <1>1, KeysCanBeUsed DEF StepHolds
<1>5. 2 * i \in DOMAIN ObjectOf(h, owner).strong /\ 2 * i \in DOMAIN o.strong
  <2>1. o.strong \in Seq(Values) /\ o.length \in Nat /\ Len(o.strong) = 2 * o.length
    BY <1>2, ObjectFields DEF validate_descriptor_shape
  <2>2. DOMAIN o.strong = 1 .. 2 * o.length
    BY <2>1, LenProperties
  <2>3. i \in 1 .. o.length
    BY <1>2
  <2> QED BY <1>1, <2>1, <2>2, <2>3
<1> DEFINE v == NameIn(heap, value)
           n == NameIn(heap, owner)
           node == NodeIn(heap, o)
           field == 2 * i
           changed == [node EXCEPT !.strong[field] = v]
<1>6. LayoutInv(g) /\ g.allocated = heap.allocated
  <2>1. /\ LayoutInv(h) /\ owner \in Ids /\ Resolves(h, owner) /\ 2 * i \in DOMAIN ObjectOf(h, owner).strong
        /\ key \in Values /\ value \in Values /\ g = update_map_entry(h, owner, i, key, value)
    BY <1>1, <1>2, <1>3, <1>4, <1>5
  <2>2. LayoutInv(g) /\ g.allocated = h.allocated /\ \E k, w, q : EntryStored(h, owner, i, key, value, k, w, q, g)
    BY ONLY <2>1, UpdateMapKeeps
  <2> QED BY <1>3, <2>2
<1>7. Updates(heap, n, changed, g)
  <2>1. Updates(h, NameIn(h, owner), [NodeIn(h, ObjectOf(h, owner)) EXCEPT !.strong[2 * i] = NameIn(h, value)], g)
    BY <1>1, <1>2, <1>3, <1>4, <1>5, UpdateMapUpdates
  <2>2. Updates(h, n, changed, g)
    BY <1>1, <1>2, <1>3, <2>1
  <2> QED BY <1>2, <2>2
<1>8. IsNode(changed) /\ changed = [View(heap).graph[n] EXCEPT !.strong[field] = v]
      /\ field \in DOMAIN View(heap).graph[n].strong
  <2>1. IsNode(node) /\ node = View(heap).graph[n]
    BY <1>2 DEF View
  <2>2. DOMAIN node.strong = DOMAIN o.strong
    BY DEF NodeIn
  <2> HIDE DEF node
  <2> QED BY <1>5, <2>1, <2>2, ChangedIsNode
<1>9. OnlyRoots => v \in Graph!References(View(heap))
  BY OperandNameIs
<1> HIDE DEF v, n, node, changed, field
<1>10. /\ NamesAreUnique(heap') /\ SameRawCells(heap, heap')
       /\ OnlyRoots => StoresTo(View(heap), View(heap'), n, changed)
  BY <1>1, <1>6, <1>7, <1>8, StoredSteps DEF n
<1>11. OnlyRoots => Graph!Store(View(heap), View(heap'))
  BY <1>8, <1>9, <1>10, FieldStores
<1> QED BY <1>10, <1>11 DEF Steps, GraphStep


\* What the step shows of the object that it changed.
LEMMA StoredNode ==
  ASSUME StepHolds, NEW r, NEW g, NEW i, Leaves(r, g, i, heap'), NamesAreUnique(heap'),
         NEW n \in Graph!Held(r), NEW node, NEW b, g = Graph!With(b, n, node)
  PROVE  /\ n \in DOMAIN View(heap').graph
         /\ View(heap').graph[n] = Rest(node, Gone(g, heap'))
<1> DEFINE f == heap'
<1>1. f = heap' /\ Closed(f)
  BY DEF StepHolds, Closed, ReferenceInv
<1> HIDE DEF f
<1>2. RootIn(f) = r
  BY <1>1 DEF Leaves
<1>3. n \in NamesIn(f)
  BY <1>1, <1>2, RootNames
<1>4. PICK s \in Headers(f) : n = f.objects[s].data
  BY <1>3, SlotOfName
<1>5. GraphIn(f)[n] = NodeIn(f, f.objects[s]) /\ DOMAIN GraphIn(f) = NamesIn(f)
  BY <1>1, <1>4, GraphAt
<1>6. NodeIn(f, f.objects[s]) = Rest(g[n], Gone(g, f))
  BY <1>1, <1>4 DEF Leaves
<1>7. g[n] = node
  BY DEF Graph!With
<1> QED BY <1>1, <1>3, <1>5, <1>6, <1>7 DEF View

LEMMA BuilderAppendSteps ==
  ASSUME StepHolds, OwnersAreCurrent, BuilderAppend
  PROVE  Steps
<1> SUFFICES ASSUME NEW owner \in Receivers({"Builder"}), NEW source \in StringOperands,
                    Become(builder_append(heap, owner, source))
             PROVE  Steps
  BY DEF BuilderAppend
<1> DEFINE h == heap
           g == builder_append(h, owner, source)
           o == ObjectOf(h, owner)
           kinds == {"Builder"}
<1>1. Become(g) /\ g = builder_append(h, owner, source) /\ h = heap /\ o = ObjectOf(h, owner)
      /\ owner \in Receivers(kinds) /\ \A kind \in kinds : kind = "Builder"
  OBVIOUS
<1>2. LayoutInv(h) /\ ReferenceInv(h) /\ NamesAreUnique(h) /\ host \in Hosts
  BY DEF StepHolds, GcInv, GcLayoutInv, GcReferenceInv
<1> HIDE DEF h, g, o, kinds
<1>3. owner \in Ids /\ owner \in Values /\ Resolves(h, owner) /\ o.kind = "Builder"
  BY <1>1, <1>2, ReceiversAreUsable
<1>4. source \in Values /\ source \in Ids /\ Resolves(h, source) /\ ObjectOf(h, source).kind = "Str"
      /\ source \in ObjectOperands
  BY <1>1, <1>2, StringsAreUsable DEF StringOperands, ObjectOperands, Values
<1>5. LayoutInv(g) /\ g.allocated = h.allocated /\ BuilderGrown(h, owner, source, g)
  BY <1>1, <1>2, <1>3, <1>4, BuilderAppendKeeps
<1> DEFINE n == NameIn(h, owner)
           m == NameIn(h, source)
           node == NodeIn(h, o)
           text == GraphIn(h)[n].text \o GraphIn(h)[m].text
           changed == [node EXCEPT !.text = text]
<1>6. GraphIn(h)[n] = node /\ GraphIn(h)[m].kind = "Str" /\ node.kind = "Builder" /\ IsNode(node)
      /\ View(h).graph = GraphIn(h) /\ View(h).root = RootIn(h)
  <2>1. GraphIn(h)[n] = node
    BY <1>1, <1>2, <1>3, NodeOfReference
  <2>2. GraphIn(h)[m] = NodeIn(h, ObjectOf(h, source))
    BY <1>2, <1>4, NodeOfReference
  <2> QED BY <1>3, <1>4, <2>1, <2>2 DEF NodeIn, IsNode, WithSoft, View
<1>7. Appends(h, n, m, g)
  BY <1>2, <1>3, <1>4, <1>5, BuilderAppendUpdates
<1> HIDE DEF n, m, node
<1>8. Updates(h, n, changed, g)
  BY ONLY <1>6, <1>7, Zenon DEF Appends
<1>9. text = View(h).graph[n].text \o View(h).graph[m].text
  BY ONLY <1>6, Zenon
<1> HIDE DEF text
<1>10. IsNode(changed) /\ changed = [View(h).graph[n] EXCEPT !.text = text]
  BY <1>6, ChangedIsNode
<1>11. OnlyRoots => m \in Graph!Held(RootIn(h))
  BY <1>1, <1>4, OperandNameIs DEF m
<1>12. OnlyRoots => text \in Graph!NewTexts(View(h), View(heap'), n)
  <2> SUFFICES ASSUME OnlyRoots PROVE text \in Graph!NewTexts(View(h), View(heap'), n)
    OBVIOUS
  <2> DEFINE s == View(h)
             sources == {k \in Graph!Held(s.root) : s.graph[k].kind = "Str"}
             longer == {s.graph[n].text \o s.graph[k].text : k \in sources}
  <2>1. m \in sources
    BY <1>6, <1>11
  <2>2. text \in longer
    BY ONLY <1>9, <2>1, Zenon
  <2> DEFINE texts == {<<>>} \cup longer
  <2>3. text \in texts
    BY <2>2
  <2>4. s.graph[n].kind = "Builder"
    BY <1>6
  <2>5. Graph!NewTexts(s, View(heap'), n) = texts
    BY ONLY <2>4, Zenon DEF Graph!NewTexts
  <2> QED BY <2>3, <2>5
<1> HIDE DEF changed
<1>13. /\ NamesAreUnique(heap') /\ SameRawCells(heap, heap')
       /\ OnlyRoots => StoresTo(View(heap), View(heap'), n, changed)
  BY <1>1, <1>5, <1>8, <1>10, StoredSteps DEF n
<1>14. OnlyRoots => Graph!Store(View(heap), View(heap'))
  BY <1>1, <1>10, <1>12, <1>13, TextStores
<1> QED BY <1>13, <1>14 DEF Steps, GraphStep

LEMMA StoreScalarsSteps ==
  ASSUME StepHolds, OwnersAreCurrent, StoreScalars
  PROVE  Steps
<1> SUFFICES ASSUME NEW owner \in Receivers({"Builder", "ScalarArray"}), NEW chunk \in Chunks,
                    Become(store_scalars(heap, owner,
                             IF ObjectOf(heap, owner).kind = "Builder" THEN <<>> ELSE <<chunk>>))
             PROVE  Steps
  BY DEF StoreScalars
<1> DEFINE h == heap
           o == ObjectOf(h, owner)
           text == IF o.kind = "Builder" THEN <<>> ELSE <<chunk>>
           g == store_scalars(h, owner, text)
           kinds == {"Builder", "ScalarArray"}
<1>1. /\ Become(g) /\ g = store_scalars(h, owner, text) /\ h = heap /\ o = ObjectOf(h, owner)
      /\ owner \in Receivers(kinds) /\ \A kind \in kinds : kind \in {"Builder", "ScalarArray"}
      /\ text \in Seq(Chunks) /\ (o.kind = "Builder" => text = <<>>)
  BY EmptySeq
<1>2. LayoutInv(h) /\ NamesAreUnique(h) /\ host \in Hosts
  BY DEF StepHolds, GcInv, GcLayoutInv
<1> HIDE DEF h, g, o, kinds, text
<1>3. owner \in Ids /\ owner \in Values /\ Resolves(h, owner) /\ o.kind \in {"Builder", "ScalarArray"}
      /\ checked_slot(h, owner) \in Headers(h) /\ NameIn(h, owner) = h.objects[checked_slot(h, owner)].data
  BY <1>1, <1>2, ReceiversAreUsable, NameOfReference
<1>4. LayoutInv(g) /\ g.allocated = h.allocated /\ Retexted(h, checked_slot(h, owner), text, g)
  BY <1>1, <1>2, <1>3, StoreScalarsKeeps
<1> DEFINE n == NameIn(h, owner)
           node == NodeIn(h, o)
           changed == [node EXCEPT !.text = text]
<1>5. GraphIn(h)[n] = node /\ node.kind = o.kind /\ IsNode(node) /\ o = h.objects[checked_slot(h, owner)]
      /\ View(h).graph = GraphIn(h)
  <2>1. GraphIn(h)[n] = node
    BY <1>1, <1>2, <1>3, NodeOfReference
  <2> QED BY <1>1, <2>1 DEF NodeIn, IsNode, WithSoft, View, ObjectOf
<1>6. Updates(h, n, changed, g)
  BY <1>2, <1>3, <1>4, <1>5, RetextedUpdates
<1> HIDE DEF n, node
<1>7. IsNode(changed) /\ changed = [View(h).graph[n] EXCEPT !.text = text] /\ changed.text = text
  <2>1. IsNode(node) /\ node = View(h).graph[n]
    BY <1>5
  <2>2. IsNode(changed) /\ changed.text = text
    BY ONLY <2>1, ChangedIsNode
  <2> QED BY <2>1, <2>2
<1> HIDE DEF changed
<1> DEFINE b == Graph!With(GraphIn(h), n, changed)
<1>8. /\ NamesAreUnique(heap') /\ SameRawCells(heap, heap')
      /\ OnlyRoots => StoresTo(View(heap), View(heap'), n, changed)
      /\ Leaves(RootIn(h), b, InternedIn(h), heap')
  BY <1>1, <1>4, <1>6, <1>7, StoredSteps DEF n
<1>9. OnlyRoots => text \in Graph!NewTexts(View(h), View(heap'), n)
  <2> SUFFICES ASSUME OnlyRoots PROVE text \in Graph!NewTexts(View(h), View(heap'), n)
    OBVIOUS
  <2>1. n \in Graph!Held(RootIn(h))
    BY <1>1, <1>8 DEF StoresTo, View
  <2>2. View(heap').graph[n] = Rest(changed, Gone(b, heap'))
    BY <1>8, <2>1, StoredNode
  <2>3. View(heap').graph[n].text = text
    BY <1>7, <2>2 DEF Rest, WithSoft
  <2> DEFINE s == View(h)
  <2>4. s.graph[n].kind = o.kind
    BY <1>5
  <2> HIDE DEF s
  <2>5. CASE o.kind = "Builder"
    BY <1>1, <2>4, <2>5 DEF Graph!NewTexts, s
  <2>6. CASE o.kind = "ScalarArray"
    BY <2>3, <2>4, <2>6 DEF Graph!NewTexts, s
  <2> QED BY <1>3, <2>5, <2>6
<1>10. OnlyRoots => Graph!Store(View(heap), View(heap'))
  BY <1>1, <1>7, <1>8, <1>9, TextStores
<1> QED BY <1>8, <1>10 DEF Steps, GraphStep


(***************************************************************************)
(* Loads.                                                                  *)
(***************************************************************************)
\* The mutator keeps v in one of its cells.
LEMMA CellSteps ==
  ASSUME StepHolds, NEW r, NEW g, NEW i, NEW k, LayoutInv(k), ReferenceInv(k), NamesAreUnique(k),
         Leaves(r, g, i, k), AllNodes(g), SameRawCells(heap, k),
         NEW c \in Registered, NEW v \in Values, is_object(v) => Physical(k, v),
         Become([k EXCEPT !.cells[c] = v])
  PROVE  /\ NamesAreUnique(heap') /\ SameRawCells(heap, heap')
         /\ Graph!Installs(View(heap'), [r EXCEPT ![c] = NameIn(k, v)], g, i)
         /\ View(heap').next = k.allocated
         /\ Leaves([r EXCEPT ![c] = NameIn(k, v)], g, i, heap')
<1> DEFINE m == [k EXCEPT !.cells[c] = v]
           q == [r EXCEPT ![c] = NameIn(k, v)]
<1>1. Become(m) /\ m = [k EXCEPT !.cells[c] = v] /\ q = [r EXCEPT ![c] = NameIn(k, v)] /\ c \in Cells
  BY RegisteredCells
<1> HIDE DEF m
<1>2. LayoutInv(m)
  BY <1>1, CellKeepsReferences
<1>3. /\ Leaves(q, g, i, m) /\ NamesAreUnique(m) /\ m.allocated = k.allocated /\ SameRawCells(k, m)
  BY <1>1, CellShows
<1> HIDE DEF q
<1>4. /\ NamesAreUnique(heap') /\ SameRawCells(m, heap')
      /\ Graph!Installs(View(heap'), q, g, i) /\ View(heap').next = m.allocated
      /\ Leaves(q, g, i, heap')
  BY <1>1, <1>2, <1>3, Stepping
<1>5. SameRawCells(heap, heap')
  BY <1>3, <1>4 DEF SameRawCells
<1> QED BY <1>1, <1>3, <1>4, <1>5

LEMMA HeapShowsItself ==
  ASSUME StepHolds
  PROVE  /\ LayoutInv(heap) /\ ReferenceInv(heap) /\ NamesAreUnique(heap)
         /\ Leaves(RootIn(heap), GraphIn(heap), InternedIn(heap), heap)
         /\ AllNodes(GraphIn(heap)) /\ SameRawCells(heap, heap)
<1>1. LayoutInv(heap) /\ ReferenceInv(heap) /\ NamesAreUnique(heap)
  BY DEF StepHolds, GcInv, GcLayoutInv, GcReferenceInv
<1> QED BY <1>1, SameHeapSameGraph, NodesOfHeap DEF SameGraph, Thins

LEMMA LoadReferenceSteps ==
  ASSUME StepHolds, LoadReference
  PROVE  Steps
<1> SUFFICES ASSUME NEW c \in Registered, NEW owner \in ObjectOperands,
                    NEW v \in visit_reference_fields(ObjectOf(heap, owner))
                              \cup SoftReferences(ObjectOf(heap, owner)),
                    Become([heap EXCEPT !.cells[c] = canonicalize_incremental_compaction_read(heap, v)])
             PROVE  Steps
  BY DEF LoadReference
<1> DEFINE h == heap
           w == canonicalize_incremental_compaction_read(h, v)
           o == ObjectOf(h, owner)
           r == RootIn(h)
           g == GraphIn(h)
           i == InternedIn(h)
<1>1. /\ Become([h EXCEPT !.cells[c] = w]) /\ w = canonicalize_incremental_compaction_read(h, v)
      /\ o = ObjectOf(h, owner) /\ h = heap
      /\ v \in visit_reference_fields(o) \cup SoftReferences(o)
  OBVIOUS
<1>2. LayoutInv(h) /\ ReferenceInv(h) /\ NamesAreUnique(h) /\ Leaves(r, g, i, h) /\ AllNodes(g)
      /\ SameRawCells(heap, h)
  BY HeapShowsItself
<1> HIDE DEF h, w, o
<1>3. owner \in Values /\ Resolves(h, owner)
  BY <1>1, <1>2, OperandsAreUsable DEF ObjectOperands, is_object
<1>4. o = h.objects[checked_slot(h, owner)] /\ checked_slot(h, owner) \in Headers(h) /\ o \in Objects
  BY <1>1, <1>2, <1>3, ResolvedObject DEF ObjectOf
<1>5. v \in Ids /\ v \in Values
  <2>1. v \in Values \ {Nil}
    BY <1>1, <1>4, FieldsAreValues
  <2> QED BY <2>1 DEF Values
<1>6. Resolves(h, v)
  BY <1>1, <1>2, <1>4 DEF ReferenceInv, StrongResolve, LayoutInv, RegistriesName
<1>7. Physical(h, w) /\ w \in Values /\ NameIn(h, w) = NameIn(h, v)
  BY <1>1, <1>2, <1>5, <1>6, CanonicalIsCurrent, CanonicalName
<1> DEFINE name == NameIn(h, w)
<1> HIDE DEF r, g, i
<1>8. /\ NamesAreUnique(heap') /\ SameRawCells(heap, heap')
      /\ Graph!Installs(View(heap'), [r EXCEPT ![c] = name], g, i) /\ View(heap').next = h.allocated
  BY <1>1, <1>2, <1>7, CellSteps
<1>9. NameIn(h, v) \in Graph!Edges(NodeIn(h, o)) \cup {NodeIn(h, o).soft[j] : j \in DOMAIN NodeIn(h, o).soft}
  <2>1. NameIn(h, v) # Nil
    BY <1>2, <1>5, <1>6, NameOfReference
  <2>2. CASE v \in visit_reference_fields(o)
    <3>1. PICK j \in DOMAIN o.strong : v = o.strong[j]
      BY <2>2 DEF visit_reference_fields
    <3> QED BY <2>1, <3>1 DEF NodeIn, Graph!Edges
  <2>3. CASE v \in SoftReferences(o)
    <3>1. PICK j \in DOMAIN o.soft : v = o.soft[j]
      BY <2>3 DEF SoftReferences
    <3> QED BY <3>1 DEF NodeIn
  <2> QED BY <1>1, <2>2, <2>3
<1>10. OnlyRoots => Graph!Load(View(h), View(heap'))
  <2> SUFFICES ASSUME OnlyRoots PROVE Graph!Load(View(h), View(heap'))
    OBVIOUS
  <2> DEFINE n == NameIn(h, owner)
             s == View(h)
             node == NodeIn(h, o)
  <2>1. n \in Graph!Held(r) /\ g[n] = node
    BY <1>1, OperandNameIs DEF r, g
  <2>2. s.root = r /\ s.graph = g /\ s.interned = i /\ s.next = h.allocated
    BY DEF View, r, g, i
  <2> HIDE DEF n, s, node, name
  <2>3. name \in Graph!Edges(node) \cup {node.soft[j] : j \in DOMAIN node.soft}
    BY <1>7, <1>9 DEF node, name
  <2>4. /\ n \in Graph!Held(s.root) /\ View(heap').next = s.next
        /\ name \in Graph!References(s) \cup Graph!Edges(s.graph[n])
                     \cup {s.graph[n].soft[j] : j \in DOMAIN s.graph[n].soft}
        /\ Graph!Installs(View(heap'), [s.root EXCEPT ![c] = name], s.graph, s.interned)
    BY <1>8, <2>1, <2>2, <2>3
  <2>5. Graph!Load(s, View(heap'))
    BY <2>4 DEF Graph!Load
  <2> QED BY <2>5 DEF s
<1> QED BY <1>1, <1>8, <1>10 DEF Steps, GraphStep

\* A copy into a raw cell shows nothing.
LEMMA RawCellSteps ==
  ASSUME StepHolds, NEW c \in RawCells, NEW v \in Values, Become([heap EXCEPT !.cells[c] = v])
  PROVE  NamesAreUnique(heap')
<1> DEFINE g == [heap EXCEPT !.cells[c] = v]
           h == heap
<1>1. Become(g) /\ g.objects = h.objects /\ NamesAreUnique(h)
  BY HeapRecord DEF StepHolds, HeapFields
<1>2. NamesAreUnique(g)
  BY <1>1 DEF NamesAreUnique, Headers
<1> HIDE DEF g
<1>3. heap'.objects = g.objects
  BY <1>1 DEF Become, heap
<1> QED BY <1>2, <1>3 DEF NamesAreUnique, Headers

LEMMA AssignSteps ==
  ASSUME StepHolds, Assign
  PROVE  Steps
<1> SUFFICES ASSUME NEW c \in Registered \cup host.raw, NEW v \in Operands, v # cells[c],
                    c \in Registered => v \in {cells[d] : d \in Registered} \cup {Nil},
                    Become([heap EXCEPT !.cells[c] = v])
             PROVE  Steps
  BY DEF Assign
<1> DEFINE h == heap
           r == RootIn(h)
           g == GraphIn(h)
           i == InternedIn(h)
<1>1. Become([h EXCEPT !.cells[c] = v]) /\ h = heap /\ h.cells = cells
  BY HeapRecord
<1>2. LayoutInv(h) /\ ReferenceInv(h) /\ NamesAreUnique(h) /\ Leaves(r, g, i, h) /\ AllNodes(g)
      /\ SameRawCells(heap, h)
  BY HeapShowsItself
<1>3. v \in Values
  BY <1>1, <1>2, OperandsAreUsable
<1>4. CASE c \notin Registered
  <2>1. c \in RawCells /\ host.raw # {}
    BY <1>4, HostsAssumption DEF StepHolds, GcInv, GcLayoutInv, Registered
  <2>2. NamesAreUnique(heap')
    BY <1>3, <2>1, RawCellSteps
  <2> QED BY <2>1, <2>2 DEF Steps, OnlyRoots
<1>5. CASE c \in Registered
  <2> HIDE DEF h, r, g, i
  <2>1. is_object(v) => Physical(h, v)
    BY <1>1, <1>2, <1>5 DEF is_object, Registered, ReferenceInv, RootsAreCurrent
  <2> DEFINE name == NameIn(h, v)
             s == View(h)
  <2>2. /\ NamesAreUnique(heap') /\ SameRawCells(heap, heap')
        /\ Graph!Installs(View(heap'), [r EXCEPT ![c] = name], g, i) /\ View(heap').next = h.allocated
    BY <1>1, <1>2, <1>3, <1>5, <2>1, CellSteps
  <2>3. OnlyRoots => Graph!Load(s, View(heap'))
    <3> SUFFICES ASSUME OnlyRoots PROVE Graph!Load(s, View(heap'))
      OBVIOUS
    <3>1. s.root = r /\ s.graph = g /\ s.interned = i /\ s.next = h.allocated
      BY DEF View, r, g, i
    <3>2. name \in Graph!References(s)
      BY <1>1, OperandNameIs
    <3>3. PICK w \in Operands : w # Nil
      <4>1. CASE v # Nil
        BY <4>1
      <4>2. CASE v = Nil
        <5>1. cells[c] # Nil /\ c \in Cells
          BY <1>5, <4>2, RegisteredCells
        <5>2. cells[c] \in Values /\ Physical(h, cells[c])
          BY <1>1, <1>2, <1>5, <5>1 DEF is_object, Registered, ReferenceInv, RootsAreCurrent,
                                       LayoutInv, HeapIsTyped
        <5>3. Resolves(h, cells[c])
          BY <1>2, <5>1, <5>2, CurrentResolves DEF Values
        <5> QED BY <1>1, <5>1, <5>3 DEF Operands, Usable
      <4> QED BY <4>1, <4>2
    <3>4. PICK n : n \in Graph!Held(r)
      BY <1>1, <3>3, OperandNameIs DEF ObjectOperands, r
    <3> HIDE DEF s, name
    <3>5. Graph!Installs(View(heap'), [s.root EXCEPT ![c] = name], s.graph, s.interned)
          /\ View(heap').next = s.next /\ n \in Graph!Held(s.root)
      BY <2>2, <3>1, <3>4
    <3> QED BY <1>5, <3>2, <3>5 DEF Graph!Load
  <2> QED BY <1>1, <2>2, <2>3 DEF Steps, GraphStep
<1> QED BY <1>4, <1>5


(***************************************************************************)
(* New objects.                                                            *)
(***************************************************************************)
\* A method returns the object that it has made, which the mutator keeps.
MakesNew(node, c) ==
  LET r == [RootIn(heap) EXCEPT ![c] = heap.allocated]
      g == Graph!With(GraphIn(heap), heap.allocated, node)
  IN  /\ NamesAreUnique(heap') /\ SameRawCells(heap, heap')
      /\ View(heap').next = heap.allocated + 1
      /\ Graph!Installs(View(heap'), r, g, InternedIn(heap))
      /\ Leaves(r, g, InternedIn(heap), heap')

LEMMA AddedSteps ==
  ASSUME StepHolds, NEW config, NEW h, h = Stressed(config), NEW k, Returns(k),
         NEW node, IsNode(node), Adds(h, node, k), NEW c \in Registered, ReturnTo(c, k)
  PROVE  MakesNew(node, c)
<1> DEFINE f == heap
           r == RootIn(f)
           g == Graph!With(GraphIn(f), f.allocated, node)
           i == InternedIn(f)
           v == k.extra[1]
<1>1. /\ NamesAreUnique(f) /\ f = heap /\ r = RootIn(f) /\ i = InternedIn(f) /\ v = k.extra[1]
      /\ g = Graph!With(GraphIn(f), f.allocated, node)
  BY DEF StepHolds
<1>2. SameGraph(f, h) /\ h.allocated = f.allocated
  BY StressedShows
<1>3. Become([k EXCEPT !.cells[c] = v])
  BY DEF ReturnTo
<1> HIDE DEF f, v
<1>4. /\ Updates(f, f.allocated, node, k) /\ k.allocated = f.allocated + 1
      /\ NameIn(k, v) = f.allocated
  <2>1. Updates(h, h.allocated, node, k) /\ k.allocated = h.allocated + 1
        /\ NameIn(k, v) = h.allocated
    BY <1>1 DEF Adds
  <2>2. Updates(f, h.allocated, node, k)
    BY <1>1, <1>2, <2>1, UpdatesFrom
  <2> QED BY <1>2, <2>1, <2>2
<1>5. Leaves(r, g, i, k) /\ NamesAreUnique(k) /\ SameRawCells(f, k)
  BY <1>4 DEF Updates
<1>6. AllNodes(g)
  BY <1>1, NodesWith
<1>7. v \in Values /\ Physical(k, v) /\ LayoutInv(k) /\ ReferenceInv(k)
  BY <1>1, IdsAreReferences DEF Returns
<1> HIDE DEF r, g, i
<1>8. /\ NamesAreUnique(heap') /\ SameRawCells(heap, heap')
      /\ Graph!Installs(View(heap'), [r EXCEPT ![c] = NameIn(k, v)], g, i)
      /\ View(heap').next = k.allocated
      /\ Leaves([r EXCEPT ![c] = NameIn(k, v)], g, i, heap')
  BY <1>1, <1>3, <1>5, <1>6, <1>7, CellSteps
<1>9. MakesNew(node, c) <=>
        LET q == [r EXCEPT ![c] = f.allocated]
        IN  /\ NamesAreUnique(heap') /\ SameRawCells(heap, heap')
            /\ View(heap').next = f.allocated + 1
            /\ Graph!Installs(View(heap'), q, g, i)
            /\ Leaves(q, g, i, heap')
  BY ONLY <1>1, Zenon DEF MakesNew
<1> QED BY <1>4, <1>8, <1>9

\* The new object refers to what the mutator holds.
LEMMA NewSteps ==
  ASSUME StepHolds, NEW c \in Registered, NEW node, MakesNew(node, c),
         OnlyRoots => Refers(node, Graph!References(View(heap)))
  PROVE  Steps
<1> DEFINE h == heap
           s == View(heap)
           t == View(heap')
           n == s.next
           r == [s.root EXCEPT ![c] = n]
           g == Graph!With(s.graph, n, node)
<1>1. LayoutInv(h) /\ h = heap /\ s = View(h) /\ t = View(heap')
  BY DEF StepHolds, GcInv, GcLayoutInv
<1>2. s.root = RootIn(h) /\ s.graph = GraphIn(h) /\ s.interned = InternedIn(h) /\ n = h.allocated
      /\ n \in Nat
  BY DEF View, LayoutInv, HeapIsTyped, StepHolds, GcInv, GcLayoutInv
<1> HIDE DEF h, s, t, n
<1>3. /\ NamesAreUnique(heap') /\ SameRawCells(heap, heap')
      /\ t.next = n + 1 /\ Graph!Installs(t, r, g, s.interned)
      /\ Leaves(r, g, s.interned, heap')
  BY ONLY MakesNew(node, c), <1>1, <1>2 DEF MakesNew
<1>4. n \in Graph!Held(r)
  <2>1. s.root = [d \in Registered |-> NameIn(h, h.cells[d])]
    BY <1>2 DEF RootIn
  <2>2. r[c] = n
    BY <2>1
  <2> QED BY <1>2, <2>2, NamesAssumption DEF Graph!Held
<1>5. n \in DOMAIN t.graph /\ t.graph[n] = Rest(node, Gone(g, heap'))
  BY <1>1, <1>3, <1>4, StoredNode
<1>6. ASSUME OnlyRoots
      PROVE  Graph!New(s, t)
  <2> DEFINE refs == Graph!References(s)
             strong == node.strong
             soft == node.soft
             fresh == t.graph[n]
  <2>1. /\ IsNode(node) /\ strong \in [DOMAIN strong -> refs] /\ soft \in [DOMAIN soft -> refs]
        /\ node.kind = "WeakRef" => DOMAIN soft = {1}
        /\ node.kind = "Ephemeron" => DOMAIN soft = {1, 2}
    BY <1>1, <1>6 DEF Refers
  <2> DEFINE gone == Gone(g, heap')
             rest == Graph!SoftWithout(node, gone)
  <2>2. DOMAIN rest = DOMAIN soft
    BY <2>1 DEF Graph!SoftWithout
  <2>3. fresh = WithSoft(node, rest)
    BY <1>5 DEF Rest
  <2> HIDE DEF rest, gone
  <2>4. DOMAIN fresh.strong = DOMAIN strong /\ DOMAIN fresh.soft = DOMAIN soft
    BY <2>2, <2>3 DEF WithSoft
  <2>5. [fresh EXCEPT !.strong = strong, !.soft = soft] = WithSoft(node, soft)
    <3> DEFINE kind == node.kind
               text == node.text
    <3>1. /\ fresh = [kind |-> kind, strong |-> strong, soft |-> rest, text |-> text]
          /\ WithSoft(node, soft) = [kind |-> kind, strong |-> strong, soft |-> soft, text |-> text]
      BY <2>3 DEF WithSoft
    <3> HIDE DEF fresh, kind, text, strong, soft
    <3> DEFINE some == [fresh EXCEPT !.strong = strong]
    <3>2. some = [kind |-> kind, strong |-> strong, soft |-> rest, text |-> text]
      BY ONLY <3>1
    <3> HIDE DEF some
    <3>3. [some EXCEPT !.soft = soft] = [kind |-> kind, strong |-> strong, soft |-> soft, text |-> text]
      BY ONLY <3>2
    <3> QED BY <3>1, <3>3 DEF some
  <2>6. [fresh EXCEPT !.strong = strong, !.soft = soft] = node
    BY <2>1, <2>5 DEF IsNode
  <2> HIDE DEF strong, soft
  <2>7. /\ strong \in [DOMAIN fresh.strong -> refs] /\ soft \in [DOMAIN fresh.soft -> refs]
        /\ Graph!Installs(t, r, Graph!With(s.graph, n, [fresh EXCEPT !.strong = strong, !.soft = soft]),
                          s.interned)
    BY <1>3, <2>1, <2>4, <2>6
  <2> QED BY ONLY <1>3, <1>5, <2>7, c \in Registered DEF Graph!New, n
<1> QED BY <1>1, <1>3, <1>6 DEF Steps, GraphStep


LEMMA StringRefers == \A text, S : Refers(StringNode(text), S) /\ IsNode(StringNode(text))
<1> TAKE text, S
<1> DEFINE none == <<>>
<1>1. none \in [DOMAIN none -> S]
  OBVIOUS
<1> HIDE DEF none
<1>2. StringNode(text) = [kind |-> "Str", strong |-> none, soft |-> none, text |-> text]
  BY DEF StringNode, none
<1> QED BY <1>1, <1>2 DEF Refers, IsNode, WithSoft

\* A method that returns a new string.
LEMMA NewStringSteps ==
  ASSUME StepHolds, NEW config, NEW h, h = Stressed(config), NEW k, Returns(k),
         \E text : Adds(h, StringNode(text), k), NEW c \in Registered, ReturnTo(c, k)
  PROVE  Steps
<1>1. PICK text : Adds(h, StringNode(text), k)
  OBVIOUS
<1> DEFINE node == StringNode(text)
<1>2. IsNode(node) /\ Refers(node, Graph!References(View(heap))) /\ Adds(h, node, k)
  BY <1>1, StringRefers
<1> HIDE DEF node
<1>3. MakesNew(node, c)
  BY <1>2, AddedSteps
<1> QED BY <1>2, <1>3, NewSteps

LEMMA AllocateObjectSteps ==
  ASSUME StepHolds, AllocateObject
  PROVE  Steps
<1> SUFFICES ASSUME NEW config \in host.stress, NEW c \in Registered, NEW shape \in NextShapes,
                    NEW values \in [1 .. shape.refs -> Operands],
                    NEW text \in [1 .. (IF shape.kind = "Str" THEN Slots(shape.length) ELSE 0) -> Chunks],
                    Admissible(shape, values),
                    ReturnTo(c, AllocateFrom(Stressed(config), values,
                                  LAMBDA b : NewObject(b, shape, b.extra, text)))
             PROVE  Steps
  BY DEF AllocateObject
<1> DEFINE h == Stressed(config)
           b == StressBeforeAllocation(h, values)
           o == NewObject(b, shape, b.extra, text)
           g == StressAfterAllocation(allocate_object(b, o))
<1>1. ReturnTo(c, g)
  BY DEF AllocateFrom, AllocateIn
<1>2. h = Stressed(config)
  OBVIOUS
<1>3. b = StressBeforeAllocation(h, values) /\ o = NewObject(b, shape, b.extra, text)
  OBVIOUS
<1>4. g = StressAfterAllocation(allocate_object(b, o))
  OBVIOUS
<1> HIDE DEF h, b, o, g
<1>5. GcLayoutInv /\ LayoutInv(heap)
  BY DEF StepHolds, GcInv, GcLayoutInv
<1>6. /\ LayoutInv(h) /\ ReferenceInv(h) /\ NamesAreUnique(h)
      /\ \A v : Resolves(h, v) <=> Resolves(heap, v)
      /\ \A v \in Values : NameIn(h, v) = NameIn(heap, v)
  BY <1>2, StressedShows
<1>7. Constructible(shape)
  BY <1>5, NextShapeIs
<1>8. values \in [1 .. shape.refs -> Values]
  BY <1>5, OperandsAreUsable
<1>9. \A i \in 1 .. shape.refs : is_object(values[i]) => Resolves(h, values[i])
  BY <1>5, <1>6, OperandsAreUsable
<1>10. shape.kind = "Ephemeron" => is_object(values[1])
  BY DEF Admissible, is_object
<1> DEFINE n == IF shape.kind = "Str" THEN Slots(shape.length) ELSE 0
<1>11. n \in Nat
  BY <1>7, SlotsOfBytes DEF Constructible
<1>12. text \in [1 .. n -> Chunks] /\ (shape.kind = "Builder" => n = 0)
  OBVIOUS
<1> HIDE DEF n
<1>13. text \in Seq(Chunks) /\ Len(text) = n
  BY <1>11, <1>12, SeqDef, LenProperties
<1>14. shape.kind = "Builder" => text = <<>>
  BY <1>12, <1>13, EmptySeq
<1>15. Given(h, shape, values, text)
  BY <1>7, <1>8, <1>9, <1>10, <1>13, <1>14 DEF Given
<1>16. Returns(g)
  BY <1>3, <1>4, <1>6, <1>15, ConstructorKeepsReferences
<1>17. PICK node : Adds(h, node, g) /\ Refers(node, OperandNames(h, values))
  BY <1>3, <1>4, <1>6, <1>15, ConstructorAdds
<1>18. IsNode(node)
  BY <1>17 DEF Refers
<1>19. MakesNew(node, c)
  BY <1>1, <1>2, <1>16, <1>17, <1>18, AddedSteps
<1>20. OnlyRoots => OperandNames(h, values) \subseteq Graph!References(View(heap))
  <2> SUFFICES ASSUME OnlyRoots, NEW i \in DOMAIN values
               PROVE  NameIn(h, values[i]) \in Graph!References(View(heap))
    BY DEF OperandNames
  <2>1. values[i] \in Operands /\ values[i] \in Values
    BY <1>8
  <2> QED BY <1>6, <2>1, OperandNameIs
<1>21. OnlyRoots => Refers(node, Graph!References(View(heap)))
  <2> DEFINE some == OperandNames(h, values)
             refs == Graph!References(View(heap))
  <2>1. Refers(node, some) /\ (OnlyRoots => some \subseteq refs)
    BY <1>17, <1>20
  <2> HIDE DEF some, refs
  <2>2. OnlyRoots => Refers(node, refs)
    BY ONLY <2>1 DEF Refers
  <2> QED BY <2>2 DEF refs
<1> QED BY <1>19, <1>21, NewSteps

LEMMA ConcatStringsSteps ==
  ASSUME StepHolds, ConcatStrings
  PROVE  Steps
<1> SUFFICES ASSUME NEW config \in host.stress, NEW c \in Registered,
                    NEW left \in StringOperands, NEW right \in StringOperands,
                    ReturnTo(c, allocate_string_concat(Stressed(config), left, right))
             PROVE  Steps
  BY DEF ConcatStrings
<1> DEFINE h == Stressed(config)
           g == allocate_string_concat(h, left, right)
           operands == <<left, right>>
<1>1. ReturnTo(c, g) /\ h = Stressed(config) /\ g = allocate_string_concat(h, left, right)
  OBVIOUS
<1> HIDE DEF h, g
<1>2. LayoutInv(h) /\ ReferenceInv(h) /\ NamesAreUnique(h) /\ \A v : Resolves(h, v) <=> Resolves(heap, v)
  BY <1>1, StressedShows
<1>3. left \in Values /\ Resolves(h, left) /\ right \in Values /\ Resolves(h, right)
  BY <1>2, StringsAreUsable DEF StepHolds, GcInv, GcLayoutInv
<1>4. Returns(g)
  BY <1>1, <1>2, <1>3, ConcatKeepsReferences
<1>5. \E text : TextAllocated(h, text, g) /\ StringBuilt(h, operands, text, g)
  BY <1>1, <1>2, <1>3, ConcatKeeps
<1> HIDE DEF operands
<1>6. \E text : Adds(h, StringNode(text), g)
  BY <1>2, <1>5, StringAdds
<1> QED BY <1>1, <1>4, <1>6, NewStringSteps

LEMMA TakeSubstringSteps ==
  ASSUME StepHolds, TakeSubstring
  PROVE  Steps
<1> SUFFICES ASSUME NEW config \in host.stress, NEW c \in Registered, NEW source \in StringOperands,
                    NEW hi \in 0 .. Len(ObjectOf(heap, source).text), NEW lo \in 0 .. hi,
                    ReturnTo(c, allocate_string_substring(Stressed(config), source, lo, hi))
             PROVE  Steps
  BY DEF TakeSubstring
<1> DEFINE h == Stressed(config)
           g == allocate_string_substring(h, source, lo, hi)
           operands == <<source>>
<1>1. ReturnTo(c, g) /\ h = Stressed(config) /\ g = allocate_string_substring(h, source, lo, hi)
  OBVIOUS
<1> HIDE DEF h, g
<1>2. LayoutInv(h) /\ ReferenceInv(h) /\ NamesAreUnique(h) /\ (\A v : Resolves(h, v) <=> Resolves(heap, v))
      /\ \A v : ObjectOf(h, v) = ObjectOf(heap, v)
  BY <1>1, StressedShows
<1>3. source \in Values /\ Resolves(h, source) /\ hi \in 0 .. Len(ObjectOf(h, source).text)
  BY <1>2, StringsAreUsable DEF StepHolds, GcInv, GcLayoutInv
<1>4. Returns(g)
  BY <1>1, <1>2, <1>3, SubstringKeepsReferences
<1>5. \E text : TextAllocated(h, text, g) /\ StringBuilt(h, operands, text, g)
  BY <1>1, <1>2, <1>3, SubstringKeeps
<1> HIDE DEF operands
<1>6. \E text : Adds(h, StringNode(text), g)
  BY <1>2, <1>5, StringAdds
<1> QED BY <1>1, <1>4, <1>6, NewStringSteps

LEMMA BuilderToStringSteps ==
  ASSUME StepHolds, BuilderToString
  PROVE  Steps
<1> SUFFICES ASSUME NEW config \in host.stress, NEW c \in Registered,
                    NEW builder \in Receivers({"Builder"}),
                    ReturnTo(c, builder_to_string(Stressed(config), builder))
             PROVE  Steps
  BY DEF BuilderToString
<1> DEFINE h == Stressed(config)
           g == builder_to_string(h, builder)
<1>1. ReturnTo(c, g) /\ h = Stressed(config) /\ g = builder_to_string(h, builder)
  OBVIOUS
<1> HIDE DEF h, g
<1>2. LayoutInv(h) /\ ReferenceInv(h) /\ NamesAreUnique(h) /\ \A v : Resolves(h, v) <=> Resolves(heap, v)
  BY <1>1, StressedShows
<1>3. builder \in Values /\ Resolves(h, builder)
  BY <1>2, ReceiversAreUsable DEF StepHolds, GcInv, GcLayoutInv
<1>4. Returns(g)
  BY <1>1, <1>2, <1>3, BuilderToStringKeepsReferences
<1>5. \E text : Adds(h, StringNode(text), g)
  BY <1>1, <1>2, <1>3, BuilderToStringAdds
<1> QED BY <1>1, <1>4, <1>5, NewStringSteps


(***************************************************************************)
(* Interning.                                                              *)
(***************************************************************************)
LEMMA InternHitSteps ==
  ASSUME StepHolds, NEW config, NEW h, h = Stressed(config), NEW k, Returns(k),
         NEW source, InternsOld(h, source, k), NEW c \in Registered, ReturnTo(c, k)
  PROVE  /\ NamesAreUnique(heap') /\ SameRawCells(heap, heap')
         /\ source \in Graph!Held(RootIn(heap)) => Graph!InternHit(View(heap), View(heap'))
<1> DEFINE f == heap
           r == RootIn(f)
           g == GraphIn(f)
           i == InternedIn(f)
           v == k.extra[1]
<1>1. /\ NamesAreUnique(f) /\ AllNodes(g) /\ f = heap /\ v = k.extra[1]
      /\ r = RootIn(f) /\ g = GraphIn(f) /\ i = InternedIn(f)
  BY HeapShowsItself
<1>2. /\ SameGraph(f, h) /\ LayoutInv(h) /\ NamesAreUnique(h) /\ h.allocated = f.allocated
  BY StressedShows
<1>3. Become([k EXCEPT !.cells[c] = v])
  BY DEF ReturnTo
<1> HIDE DEF f, v
<1>4. GraphIn(h) = g /\ InternedIn(h) = i
  BY <1>1, <1>2, SameGraphIs
<1> HIDE DEF r, g, i
<1>5. PICK n \in i : g[n].text = g[source].text /\ SameGraph(h, k) /\ NameIn(k, v) = n
  BY <1>1, <1>4 DEF InternsOld
<1>6. SameGraph(f, k)
  BY <1>2, <1>5, SameGraphOn
<1>7. Leaves(r, g, i, k) /\ NamesAreUnique(k) /\ SameRawCells(f, k) /\ k.allocated = f.allocated
  BY <1>1, <1>6 DEF SameGraph, Thins
<1>8. v \in Values /\ Physical(k, v) /\ LayoutInv(k) /\ ReferenceInv(k)
  BY <1>1, IdsAreReferences DEF Returns
<1>9. /\ NamesAreUnique(heap') /\ SameRawCells(heap, heap')
      /\ Graph!Installs(View(heap'), [r EXCEPT ![c] = NameIn(k, v)], g, i)
      /\ View(heap').next = k.allocated
  BY <1>1, <1>3, <1>7, <1>8, CellSteps
<1> DEFINE s == View(f)
<1>10. s.root = r /\ s.graph = g /\ s.interned = i /\ s.next = f.allocated
  BY <1>1 DEF View
<1> HIDE DEF s
<1>11. ASSUME source \in Graph!Held(r)
       PROVE  Graph!InternHit(s, View(heap'))
  <2>1. /\ View(heap').next = s.next /\ source \in Graph!Held(s.root) /\ n \in s.interned
        /\ s.graph[n].text = s.graph[source].text
        /\ Graph!Installs(View(heap'), [s.root EXCEPT ![c] = n], s.graph, s.interned)
    BY <1>5, <1>7, <1>9, <1>10, <1>11
  <2> QED BY ONLY <2>1, c \in Registered DEF Graph!InternHit
<1> QED BY <1>1, <1>9, <1>11 DEF s

LEMMA InternMissSteps ==
  ASSUME StepHolds, NEW config, NEW h, h = Stressed(config), NEW k, Returns(k),
         NEW source, InternsNew(h, source, k), NEW c \in Registered, ReturnTo(c, k)
  PROVE  /\ NamesAreUnique(heap') /\ SameRawCells(heap, heap')
         /\ source \in Graph!Held(RootIn(heap)) => Graph!InternMiss(View(heap), View(heap'))
<1> DEFINE f == heap
           r == RootIn(f)
           i == InternedIn(f)
           b == GraphIn(f)
           next == f.allocated
           text == b[source].text
           node == StringNode(text)
           g == Graph!With(b, next, node)
           v == k.extra[1]
<1>1. /\ NamesAreUnique(f) /\ f = heap /\ v = k.extra[1] /\ b = GraphIn(f) /\ next = f.allocated
      /\ r = RootIn(f) /\ i = InternedIn(f) /\ node = StringNode(text) /\ text = b[source].text
      /\ g = Graph!With(b, next, node)
  BY HeapShowsItself
<1>2. /\ SameGraph(f, h) /\ h.allocated = f.allocated
  BY StressedShows
<1>3. Become([k EXCEPT !.cells[c] = v])
  BY DEF ReturnTo
<1> HIDE DEF f, v
<1>4. GraphIn(h) = b /\ InternedIn(h) = i /\ RootIn(h) = r /\ SameRawCells(f, h)
  BY <1>1, <1>2, SameGraphIs
<1> HIDE DEF r, i, b, next, text, node
<1>5. /\ \A n \in i : b[n].text # text
      /\ AddsCanonical(h, node, k)
  BY <1>1, <1>4 DEF InternsNew
<1> DEFINE canonical == i \cup {next}
<1>6. /\ Leaves(r, g, canonical, k) /\ NamesAreUnique(k) /\ SameRawCells(h, k)
      /\ k.allocated = next + 1 /\ NameIn(k, v) = next
  BY <1>1, <1>2, <1>4, <1>5 DEF AddsCanonical
<1>7. AllNodes(g)
  BY <1>1, StringRefers, NodesWith
<1>8. v \in Values /\ Physical(k, v) /\ LayoutInv(k) /\ ReferenceInv(k) /\ SameRawCells(f, k)
  BY <1>1, <1>4, <1>6, IdsAreReferences DEF Returns, SameRawCells
<1> HIDE DEF g, canonical
<1>9. /\ NamesAreUnique(heap') /\ SameRawCells(heap, heap')
      /\ Graph!Installs(View(heap'), [r EXCEPT ![c] = NameIn(k, v)], g, canonical)
      /\ View(heap').next = k.allocated
  BY <1>1, <1>3, <1>6, <1>7, <1>8, CellSteps
<1> DEFINE s == View(f)
<1>10. s.root = r /\ s.graph = b /\ s.interned = i /\ s.next = next
  BY <1>1 DEF View
<1> HIDE DEF s
<1>11. ASSUME source \in Graph!Held(r)
       PROVE  Graph!InternMiss(s, View(heap'))
  <2> DEFINE t == View(heap')
  <2>1. /\ t.next = s.next + 1 /\ source \in Graph!Held(s.root)
        /\ \A n \in s.interned : s.graph[n].text # s.graph[source].text
    BY <1>1, <1>5, <1>6, <1>9, <1>10, <1>11
  <2>2. Graph!Installs(t, [s.root EXCEPT ![c] = s.next], Graph!With(s.graph, s.next, node),
                       s.interned \cup {s.next})
    BY <1>6, <1>9, <1>10 DEF g, canonical
  <2>3. node = [kind |-> "Str", strong |-> <<>>, soft |-> <<>>, text |-> s.graph[source].text]
    BY <1>1, <1>10 DEF StringNode
  <2> HIDE DEF t
  <2>4. Graph!InternMiss(s, t)
    BY ONLY <2>1, <2>2, <2>3, c \in Registered DEF Graph!InternMiss
  <2> QED BY <2>4 DEF t
<1> QED BY <1>1, <1>9, <1>11 DEF s, r

LEMMA InternStringSteps ==
  ASSUME StepHolds, InternString
  PROVE  Steps
<1> SUFFICES ASSUME NEW config \in host.stress, NEW c \in Registered, NEW source \in StringOperands,
                    ReturnTo(c, intern_string(Stressed(config), source))
             PROVE  Steps
  BY DEF InternString
<1> DEFINE h == Stressed(config)
           g == intern_string(h, source)
<1>1. ReturnTo(c, g) /\ h = Stressed(config) /\ g = intern_string(h, source)
  OBVIOUS
<1> HIDE DEF h, g
<1>2. /\ LayoutInv(h) /\ ReferenceInv(h) /\ NamesAreUnique(h)
      /\ \A v : Resolves(h, v) <=> Resolves(heap, v)
      /\ \A v \in Values : NameIn(h, v) = NameIn(heap, v)
  BY <1>1, StressedShows
<1>3. source \in Values /\ Resolves(h, source)
  BY <1>2, StringsAreUsable DEF StepHolds, GcInv, GcLayoutInv
<1>4. Returns(g)
  BY <1>1, <1>2, <1>3, InternKeepsReferences
<1> DEFINE n == NameIn(h, source)
<1>5. InternsOld(h, n, g) \/ InternsNew(h, n, g)
  BY <1>1, <1>2, <1>3, InternInterns
<1>6. OnlyRoots => n \in Graph!Held(RootIn(heap))
  BY <1>2, <1>3, OperandNameIs DEF StringOperands
<1> HIDE DEF n
<1>7. CASE InternsOld(h, n, g)
  BY <1>1, <1>4, <1>6, <1>7, InternHitSteps DEF Steps, GraphStep
<1>8. CASE InternsNew(h, n, g)
  BY <1>1, <1>4, <1>6, <1>8, InternMissSteps DEF Steps, GraphStep
<1> QED BY <1>5, <1>7, <1>8

(***************************************************************************)
(* The collector's entry points.                                           *)
(***************************************************************************)
LEMMA CollectorStarts ==
  ASSUME StepHolds, NEW h, h = heap
  PROVE  /\ LayoutInv(h) /\ ReferenceInv(h) /\ NamesAreUnique(h)
         /\ StrongResolve(h) /\ RootsAreCurrent(h)
         /\ h.phase # "marking" => AtRest(h)
<1>1. LayoutInv(h) /\ ReferenceInv(h) /\ NamesAreUnique(h)
  BY DEF StepHolds, GcInv, GcLayoutInv, GcReferenceInv
<1>2. h.phase # "marking" => AtRest(h)
  BY <1>1, AtRestIsSound
<1> QED BY <1>1, <1>2 DEF ReferenceInv

LEMMA CollectSteps ==
  ASSUME StepHolds, collect \/ collect_minor
  PROVE  Steps
<1>1. PICK kind \in {"Major", "Minor"} : Become(collect_impl(heap, kind))
  BY DEF collect, collect_minor
<1> DEFINE h == heap
           g == collect_impl(h, kind)
<1>2. Become(g) /\ g = collect_impl(h, kind) /\ h = heap
  BY <1>1
<1> HIDE DEF g, h
<1>3. LayoutInv(h) /\ ReferenceInv(h) /\ NamesAreUnique(h)
  BY <1>2, CollectorStarts
<1>4. LayoutInv(g)
  BY <1>2, <1>3, CollectKeeps
<1>5. Thins(h, g)
  BY <1>2, <1>3, CollectThins
<1> QED BY <1>2, <1>4, <1>5, ThinsSteps

LEMMA FinishMarkingSteps ==
  ASSUME StepHolds, finish_incremental_marking
  PROVE  Steps
<1> DEFINE h == heap
           g == finish_incremental_marking_impl(h)
<1>1. /\ Become(g) /\ g = finish_incremental_marking_impl(h) /\ h = heap
      /\ h.phase = "marking"
  BY HeapRecord DEF finish_incremental_marking
<1> HIDE DEF g, h
<1>2. /\ LayoutInv(h) /\ ReferenceInv(h) /\ NamesAreUnique(h)
      /\ StrongResolve(h) /\ RootsAreCurrent(h) /\ (h.phase # "marking" => AtRest(h))
  BY <1>1, CollectorStarts
<1>3. LayoutInv(g)
  BY <1>1, <1>2, FinishMarkingKeeps
<1>4. Thins(h, g)
  BY <1>1, <1>2, FinishMarkingThins
<1> QED BY <1>1, <1>3, <1>4, ThinsSteps

LEMMA MarkedToCompactionSteps ==
  ASSUME StepHolds, finish_marking_to_compaction
  PROVE  Steps
<1> DEFINE h == heap
           g == finish_incremental_marking_to_incremental_compaction(h)
<1>1. /\ Become(g) /\ g = finish_incremental_marking_to_incremental_compaction(h) /\ h = heap
      /\ h.phase = "marking"
  BY HeapRecord DEF finish_marking_to_compaction
<1> HIDE DEF g, h
<1>2. /\ LayoutInv(h) /\ ReferenceInv(h) /\ NamesAreUnique(h)
      /\ StrongResolve(h) /\ RootsAreCurrent(h) /\ (h.phase # "marking" => AtRest(h))
  BY <1>1, CollectorStarts
<1>3. LayoutInv(g)
  BY <1>1, <1>2, MarkedToCompactionKeeps
<1>4. Thins(h, g)
  BY <1>1, <1>2, MarkedToCompactionThins
<1> QED BY <1>1, <1>3, <1>4, ThinsSteps

LEMMA StartCompactionSteps ==
  ASSUME StepHolds, start_incremental_compaction
  PROVE  Steps
<1> DEFINE h == heap
           g == prepare_incremental_compaction(h)
<1>1. /\ Become(g) /\ g = prepare_incremental_compaction(h) /\ h = heap
      /\ h.phase = "idle"
  BY HeapRecord DEF start_incremental_compaction
<1> HIDE DEF g, h
<1>2. /\ LayoutInv(h) /\ ReferenceInv(h) /\ NamesAreUnique(h)
      /\ StrongResolve(h) /\ RootsAreCurrent(h) /\ (h.phase # "marking" => AtRest(h))
  BY <1>1, CollectorStarts
<1>3. LayoutInv(g)
  BY <1>1, <1>2, StartCompactionKeeps
<1>4. Thins(h, g)
  BY <1>1, <1>2, StartCompactionThins
<1> QED BY <1>1, <1>3, <1>4, ThinsSteps

LEMMA CompactStepSteps ==
  ASSUME StepHolds, incremental_compact_step
  PROVE  Steps
<1> DEFINE h == heap
           g == RelocateNext(h)
<1>1. /\ Become(g) /\ g = RelocateNext(h) /\ h = heap
      /\ h.phase = "compacting" /\ h.cursor < Len(h.plan)
  BY HeapRecord DEF incremental_compact_step
<1> HIDE DEF g, h
<1>2. /\ LayoutInv(h) /\ ReferenceInv(h) /\ NamesAreUnique(h)
      /\ StrongResolve(h) /\ RootsAreCurrent(h) /\ (h.phase # "marking" => AtRest(h))
  BY <1>1, CollectorStarts
<1>3. LayoutInv(g)
  BY <1>1, <1>2, RelocateKeeps
<1>4. SameGraph(h, g)
  BY <1>1, <1>2, RelocateKeepsGraph
<1>5. Thins(h, g)
  BY <1>4 DEF SameGraph
<1> QED BY <1>1, <1>3, <1>5, ThinsSteps

LEMMA FinishCompactionSteps ==
  ASSUME StepHolds, finish_incremental_compaction
  PROVE  Steps
<1> DEFINE h == heap
           g == finish_incremental_compaction_impl(h)
<1>1. /\ Become(g) /\ g = finish_incremental_compaction_impl(h) /\ h = heap
      /\ h.phase = "compacting"
  BY HeapRecord DEF finish_incremental_compaction
<1> HIDE DEF g, h
<1>2. /\ LayoutInv(h) /\ ReferenceInv(h) /\ NamesAreUnique(h)
      /\ StrongResolve(h) /\ RootsAreCurrent(h) /\ (h.phase # "marking" => AtRest(h))
  BY <1>1, CollectorStarts
<1>3. LayoutInv(g)
  BY <1>1, <1>2, FinishCompactionKeeps
<1>4. SameGraph(h, g)
  BY <1>1, <1>2, FinishCompactionKeepsGraph
<1>5. Thins(h, g)
  BY <1>4 DEF SameGraph
<1> QED BY <1>1, <1>3, <1>5, ThinsSteps

LEMMA StartMarkingSteps ==
  ASSUME StepHolds, start_incremental_marking
  PROVE  Steps
<1> DEFINE h == heap
           roots == RootValues(h)
           major == "Major"
           grey == {IdAt(h, s) : s \in Enqueued(h, roots, major)}
           g == [h EXCEPT !.phase = "marking", !.worklist = grey]
<1>1. Become(g) /\ g = [h EXCEPT !.phase = "marking", !.worklist = grey] /\ h.phase = "idle" /\ h = heap
  BY HeapRecord DEF start_incremental_marking
<1>2. grey = {IdAt(h, s) : s \in Enqueued(h, roots, major)}
  OBVIOUS
<1> HIDE DEF grey, g, h, roots, major
<1>3. LayoutInv(h) /\ NamesAreUnique(h) /\ h.phase # "compacting"
  BY <1>1, CollectorStarts
<1>4. \A id \in grey : id \in Ids
  BY <1>2, <1>3, GreyIdsAreCurrent
<1>5. SameButPhase(h, g) /\ g.phase = "marking" /\ g.worklist = grey
  BY <1>1, <1>3 DEF SameButPhase, HeapFields, LayoutInv, HeapIsTyped
<1>6. g.worklist \subseteq Ids /\ g.phase # "idle"
  BY <1>4, <1>5
<1>7. LayoutInv(g) /\ SamePlaces(h, g)
  BY <1>3, <1>5, <1>6, PhaseKeeps
<1>8. Thins(h, g)
  BY <1>3, <1>5, <1>7, PhaseKeepsGraph DEF SameGraph
<1> QED BY <1>1, <1>7, <1>8, ThinsSteps

LEMMA MarkStepSteps ==
  ASSUME StepHolds, incremental_mark_step
  PROVE  Steps
<1>1. PICK id \in worklist :
        LET slot == checked_slot(heap, id)
            next == ScanObject(heap, slot)
            grey == worklist \cup {IdAt(next, s) :
                      s \in Enqueued(next, visit_reference_fields(next.objects[slot]), "Major")}
        IN  Become([next EXCEPT !.worklist = {x \in grey : ~ObjectOf(next, x).marked}])
  BY DEF incremental_mark_step
<1> DEFINE h == heap
           slot == checked_slot(h, id)
           next == ScanObject(h, slot)
           fresh == {IdAt(next, s) : s \in Enqueued(next, visit_reference_fields(next.objects[slot]), "Major")}
           ids == {x \in worklist \cup fresh : ~ObjectOf(next, x).marked}
           g == [next EXCEPT !.worklist = ids]
<1>2. Become(g) /\ g = [next EXCEPT !.worklist = ids] /\ h = heap
  BY <1>1
<1>3. slot = checked_slot(h, id) /\ next = ScanObject(h, slot)
  OBVIOUS
<1>4. fresh = FreshIds(next, slot)
  BY DEF FreshIds
<1>5. ids = GreyAfter(h, next, fresh)
  BY HeapRecord DEF GreyAfter
<1>6. h.phase = "marking" /\ h.worklist = worklist /\ DOMAIN h = HeapFields
  BY HeapRecord DEF incremental_mark_step
<1> HIDE DEF h, slot, next, fresh, ids, g
<1>7. LayoutInv(h) /\ ReferenceInv(h) /\ NamesAreUnique(h)
  BY <1>2, CollectorStarts
<1>8. BlackAt(h, slot, next) /\ next.worklist = h.worklist
  BY <1>3, <1>6, ScannedIs
<1>9. BlackAt(h, slot, g) /\ g.worklist = ids
  BY <1>2, <1>8 DEF BlackAt, HeapFields
<1>10. LayoutInv(g)
  BY <1>3, <1>4, <1>5, <1>6, <1>7, <1>8, <1>9, MarkStepKeepsReferences
<1>11. HeapIsTyped(h) /\ HeapIsTyped(g) /\ Headers(g) = Headers(h)
  BY <1>3, <1>6, <1>7, <1>9, <1>10, BlackObjects DEF LayoutInv
<1>12. slot \in Headers(h)
  <2>1. id \in Ids /\ Physical(h, id)
    BY <1>6, <1>7, <1>11 DEF ReferenceInv, MarksAreSafe, HeapIsTyped
  <2> QED BY <1>3, <1>7, <2>1, CurrentResolves
<1>13. SamePlaces(h, g)
  BY <1>9, <1>11 DEF SamePlaces, BlackAt
<1>14. \A s \in Headers(h) :
         /\ g.objects[s].kind = h.objects[s].kind /\ g.objects[s].data = h.objects[s].data
         /\ g.objects[s].strong = h.objects[s].strong /\ g.objects[s].soft = h.objects[s].soft
         /\ g.objects[s].text = h.objects[s].text
  <2> SUFFICES ASSUME NEW s \in Headers(h)
               PROVE  /\ g.objects[s].kind = h.objects[s].kind /\ g.objects[s].data = h.objects[s].data
                      /\ g.objects[s].strong = h.objects[s].strong /\ g.objects[s].soft = h.objects[s].soft
                      /\ g.objects[s].text = h.objects[s].text
    OBVIOUS
  <2>1. g.objects = [h.objects EXCEPT ![slot] = [h.objects[slot] EXCEPT !.marked = TRUE]]
    BY <1>9 DEF BlackAt
  <2>2. h.objects[s] \in Objects /\ s \in DOMAIN h.objects
    BY <1>11, HeaderIsObject DEF Headers
  <2>3. CASE s = slot
    <3>1. g.objects[s] = [h.objects[s] EXCEPT !.marked = TRUE]
      BY <2>1, <2>2, <2>3
    <3> QED BY <2>2, <2>3, <3>1 DEF Objects
  <2>4. CASE s # slot
    BY <2>1, <2>2, <2>4
  <2> QED BY <2>3, <2>4
<1>15. Alike(h, g)
  BY <1>9, <1>13, <1>14 DEF Alike, BlackAt
<1>16. Thins(h, g)
  BY <1>7, <1>15, AlikeKeepsGraph DEF SameGraph
<1> QED BY <1>2, <1>10, <1>16, ThinsSteps

(***************************************************************************)
(* The refinement.                                                         *)
(***************************************************************************)
LEMMA NextSteps ==
  ASSUME GcInv, OwnersAreCurrent, NamesAreUnique(heap), Next
  PROVE  Steps
<1>1. GcLayoutInv' /\ GcReferenceInv'
  BY NextKeepsLayout, NextKeepsReferences DEF GcInv
<1>2. StepHolds
  BY <1>1 DEF StepHolds, GcLayoutInv, GcReferenceInv
<1>3. CASE Mutator
  BY <1>2, <1>3, AllocateObjectSteps, ConcatStringsSteps, TakeSubstringSteps, BuilderToStringSteps,
     InternStringSteps, StoreFieldSteps, StoreEphemeronValueSteps, MapInsertSteps, MapUpdateSteps,
     BuilderAppendSteps, StoreScalarsSteps, LoadReferenceSteps, AssignSteps
  DEF Mutator
<1>4. CASE CollectorCalls
  BY <1>2, <1>4, CollectSteps, StartMarkingSteps, MarkStepSteps, FinishMarkingSteps,
     MarkedToCompactionSteps, StartCompactionSteps, CompactStepSteps, FinishCompactionSteps
  DEF CollectorCalls
<1> QED BY <1>3, <1>4 DEF Next

LEMMA InitialNames == Init => GcNameInv
<1> SUFFICES ASSUME Init PROVE GcNameInv
  OBVIOUS
<1>1. heap.objects = <<>> /\ cells = [c \in Cells |-> Nil]
  BY HeapRecord DEF Init
<1>2. Headers(heap) = {}
  BY <1>1 DEF Headers
<1>3. \A c \in RawCells : cells[c] = Nil
  BY <1>1, CellsAssumption
<1> QED BY <1>2, <1>3 DEF GcNameInv, NamesAreUnique

LEMMA NextKeepsNames ==
  GcInv /\ OwnersAreCurrent /\ GcNameInv /\ [Next]_<<vars, host>> => GcNameInv'
<1> SUFFICES ASSUME GcInv, OwnersAreCurrent, GcNameInv, [Next]_<<vars, host>>
             PROVE  GcNameInv'
  OBVIOUS
<1>1. CASE UNCHANGED <<vars, host>>
  <2>1. heap' = heap /\ cells' = cells /\ host' = host
    BY <1>1 DEF vars, heap
  <2> QED BY <2>1 DEF GcNameInv
<1>2. CASE Next
  <2>1. Steps /\ host' = host
    BY <1>2, NextSteps DEF GcNameInv, Next
  <2>2. heap.cells = cells /\ heap'.cells = cells'
    BY DEF heap
  <2>3. NamesAreUnique(heap') /\ (host.raw = {} => \A c \in RawCells : cells'[c] = cells[c])
    BY <2>1, <2>2 DEF Steps, SameRawCells
  <2>4. (host.raw = {} => \A c \in RawCells : cells[c] = Nil)
    BY DEF GcNameInv
  <2> QED BY <2>1, <2>3, <2>4 DEF GcNameInv
<1> QED BY <1>1, <1>2

LEMMA InitialGraph == Init => Graph!Init
<1> SUFFICES ASSUME Init PROVE Graph!Init
  OBVIOUS
<1>1. /\ heap.objects = <<>> /\ heap.cells = [c \in Cells |-> Nil] /\ heap.intern_table = {}
      /\ allocated = 0
  BY HeapRecord DEF Init
<1>2. Headers(heap) = {}
  BY <1>1 DEF Headers
<1>3. GraphIn(heap) = <<>>
  <2>1. NamesIn(heap) = {}
    BY <1>2 DEF NamesIn
  <2>2. GraphIn(heap) = [n \in {} |-> NodeIn(heap, heap.objects[SlotNamed(heap, n)])]
    BY <2>1 DEF GraphIn
  <2> QED BY <2>2
<1>4. RootIn(heap) = [c \in Registered |-> Nil]
  <2>1. \A c \in Registered : heap.cells[c] = Nil
    BY <1>1 DEF Registered
  <2> QED BY <2>1, NameOfNil DEF RootIn
<1>5. InternedIn(heap) = {}
  BY <1>1 DEF InternedIn
<1> QED BY <1>1, <1>3, <1>4, <1>5 DEF Graph!Init

LEMMA NextShowsGraph ==
  GcInv /\ NothingIsRaw /\ GcNameInv /\ [Next]_<<vars, host>> => [Graph!Next]_Graph!gvars
<1> SUFFICES ASSUME GcInv, NothingIsRaw, GcNameInv, [Next]_<<vars, host>>
             PROVE  [Graph!Next]_Graph!gvars
  OBVIOUS
<1>1. CASE UNCHANGED <<vars, host>>
  <2>1. heap' = heap /\ allocated' = allocated
    BY <1>1 DEF vars, heap
  <2> QED BY <2>1 DEF Graph!gvars
<1>2. CASE Next
  <2>1. OwnersAreCurrent /\ OnlyRoots /\ NamesAreUnique(heap)
    BY HeapRecord DEF NothingIsRaw, OnlyRoots, GcNameInv
  <2>2. GraphStep(View(heap), View(heap'))
    BY <1>2, <2>1, NextSteps DEF Steps
  <2>3. heap.allocated = allocated /\ heap'.allocated = allocated'
    BY DEF heap
  <2>4. View(heap) = Graph!State /\ View(heap') = Graph!State'
    BY <2>3 DEF View, Graph!State
  <2> HIDE DEF heap
  <2>5. Graph!Next
    BY <2>2, <2>4 DEF Graph!Next, GraphStep
  <2> QED BY <2>5
<1> QED BY <1>1, <1>2

\* No two objects are ever confused: a copy during a collection, a relocation
\* or a growth leaves one object of each identity, and the ids that a host
\* keeps outside the registered cells are its own business.
THEOREM NamesStayUnique == Spec /\ OwnersAreCurrent => []GcNameInv
<1>1. Init => GcNameInv
  BY InitialNames
<1>2. GcInv /\ OwnersAreCurrent /\ [Next]_<<vars, host>> => OwnersAreCurrent'
  BY NextKeepsReferences
<1>3. GcInv /\ OwnersAreCurrent /\ GcNameInv /\ [Next]_<<vars, host>> => GcNameInv'
  BY NextKeepsNames
<1>4. GcLayoutInv /\ GcReferenceInv <=> GcInv
  BY DEF GcInv
<1> QED BY <1>1, <1>2, <1>3, <1>4, ReferencesAreKept, PTL DEF Spec

\* A mutator that keeps its references in registered cells sees a graph of
\* objects from which collections, in any phase and during any method, take
\* away unreachable objects and nothing else.
THEOREM HeapImplementsObjectGraph == Spec /\ NothingIsRaw => ImplementsObjectGraph
<1>1. NothingIsRaw => OwnersAreCurrent
  BY DEF NothingIsRaw
<1>2. GcInv /\ OwnersAreCurrent /\ NothingIsRaw /\ [Next]_<<vars, host>> => NothingIsRaw'
  <2>1. [Next]_<<vars, host>> => host' = host
    BY DEF Next
  <2> QED BY <2>1 DEF NothingIsRaw, OwnersAreCurrent
<1>3. Init => Graph!Init
  BY InitialGraph
<1>4. GcInv /\ NothingIsRaw /\ GcNameInv /\ [Next]_<<vars, host>> => [Graph!Next]_Graph!gvars
  BY NextShowsGraph
<1>5. GcLayoutInv /\ GcReferenceInv <=> GcInv
  BY DEF GcInv
<1> QED BY <1>1, <1>2, <1>3, <1>4, <1>5, ReferencesAreKept, NamesStayUnique, PTL
    DEF Spec, ImplementsObjectGraph, Graph!Spec

(***************************************************************************)
(* A major collection takes away all the garbage.                          *)
(***************************************************************************)
\* The slots of the objects named S.
SlotsOf(h, S) == {s \in Headers(h) : h.objects[s].data \in S}

\* What the roots and the objects of a closed set of names refer to.
LEMMA ClosedNames ==
  ASSUME NEW h, LayoutInv(h), NamesAreUnique(h), StrongResolve(h), RootsAreCurrent(h),
         NEW S, S \subseteq NamesIn(h), Graph!KeepsReachable(RootIn(h), GraphIn(h), S)
  PROVE  /\ \A v \in Values : is_object(v) /\ Resolves(h, v) =>
              /\ checked_slot(h, v) \in Headers(h) /\ NameIn(h, v) # Nil
              /\ checked_slot(h, v) \in SlotsOf(h, S) <=> NameIn(h, v) \in S
         /\ \A c \in Registered : is_object(h.cells[c]) => NameIn(h, h.cells[c]) \in S
         /\ \A s \in SlotsOf(h, S) : \A v \in visit_reference_fields(h.objects[s]) : NameIn(h, v) \in S
         /\ \A s \in SlotsOf(h, S) :
              /\ h.objects[s].kind = "Ephemeron"
              /\ is_object(h.objects[s].soft[1]) /\ NameIn(h, h.objects[s].soft[1]) \in S
              /\ is_object(h.objects[s].soft[2])
              => NameIn(h, h.objects[s].soft[2]) \in S
<1>1. ASSUME NEW v \in Values, is_object(v), Resolves(h, v)
      PROVE  /\ checked_slot(h, v) \in Headers(h) /\ NameIn(h, v) # Nil
             /\ checked_slot(h, v) \in SlotsOf(h, S) <=> NameIn(h, v) \in S
  <2>1. v \in Ids
    BY <1>1, ValueIsId
  <2> QED BY <1>1, <2>1, NameOfReference DEF SlotsOf
<1>2. ASSUME NEW c \in Registered, is_object(h.cells[c])
      PROVE  NameIn(h, h.cells[c]) \in S
  <2>1. h.cells[c] \in Values /\ Resolves(h, h.cells[c])
    BY <1>2, RootNames DEF Closed
  <2>2. RootIn(h)[c] = NameIn(h, h.cells[c]) /\ RootIn(h)[c] # Nil
    BY <1>1, <1>2, <2>1 DEF RootIn
  <2>3. RootIn(h)[c] \in Graph!Held(RootIn(h))
    BY <2>2 DEF Graph!Held
  <2> QED BY <2>2, <2>3 DEF Graph!KeepsReachable
<1>3. ASSUME NEW s \in SlotsOf(h, S)
      PROVE  /\ GraphIn(h)[h.objects[s].data] = NodeIn(h, h.objects[s])
             /\ h.objects[s].data \in S /\ s \in Headers(h)
  BY GraphAt DEF SlotsOf
<1>4. ASSUME NEW s \in SlotsOf(h, S), NEW v \in visit_reference_fields(h.objects[s])
      PROVE  NameIn(h, v) \in S
  <2> DEFINE o == h.objects[s]
             node == NodeIn(h, o)
  <2>1. Graph!Edges(node) \subseteq S
    BY <1>3 DEF Graph!KeepsReachable
  <2>2. Resolves(h, v) /\ v \in Values /\ is_object(v)
    BY <1>3, StrongFieldsAreIds DEF StrongResolve, Values, Resolves
  <2>3. PICK i \in DOMAIN o.strong : v = o.strong[i]
    BY DEF visit_reference_fields
  <2>4. node.strong[i] = NameIn(h, v) /\ i \in DOMAIN node.strong
    BY <2>3 DEF NodeIn
  <2>5. NameIn(h, v) # Nil
    BY <1>1, <2>2
  <2> HIDE DEF node
  <2>6. NameIn(h, v) \in Graph!Edges(node)
    BY <2>4, <2>5 DEF Graph!Edges
  <2> QED BY <2>1, <2>6
<1>5. ASSUME NEW s \in SlotsOf(h, S), h.objects[s].kind = "Ephemeron",
             is_object(h.objects[s].soft[1]), NameIn(h, h.objects[s].soft[1]) \in S,
             is_object(h.objects[s].soft[2])
      PROVE  NameIn(h, h.objects[s].soft[2]) \in S
  <2> DEFINE o == h.objects[s]
             node == NodeIn(h, o)
             n == o.data
  <2>1. o \in Objects /\ validate_descriptor_shape(o) /\ \A i \in DOMAIN o.soft : o.soft[i] \in Values
    BY <1>3, ObjectValues
  <2>2. DOMAIN o.soft = {1, 2}
    <3>1. Len(o.soft) = 2 /\ o.soft \in Seq(Values)
      BY <1>5, <2>1, ObjectFields DEF validate_descriptor_shape, EphemeronAndBuilderShape
    <3> QED BY <3>1
  <2>3. Resolves(h, o.soft[2]) /\ o.soft[2] \in Values
    BY <1>3, <1>5, <2>1, <2>2, RegisteredEphemerons
  <2>4. NameIn(h, o.soft[2]) # Nil
    BY <1>1, <1>5, <2>3
  <2>5. node.kind = "Ephemeron" /\ node.soft[1] = NameIn(h, o.soft[1]) /\ node.soft[2] = NameIn(h, o.soft[2])
    BY <1>5, <2>2 DEF NodeIn
  <2>6. GraphIn(h)[n] = node /\ n \in S
    BY <1>3
  <2> HIDE DEF node, o, n
  <2>7. node.soft[2] \in S
    BY <1>5, <2>4, <2>5, <2>6 DEF Graph!KeepsReachable, o
  <2> QED BY <2>5, <2>7 DEF o
<1> QED BY <1>1, <1>2, <1>4, <1>5

LEMMA ReachedStaysIn ==
  ASSUME NEW h, LayoutInv(h), NamesAreUnique(h), StrongResolve(h), RootsAreCurrent(h),
         MarksAreClear(h), h.extra = <<>>,
         NEW S, S \subseteq NamesIn(h), Graph!KeepsReachable(RootIn(h), GraphIn(h), S),
         NEW C, C = SlotsOf(h, S), NEW kind, kind = "Major"
  PROVE  MarkingStaysIn(h, kind, C) /\ Enqueued(h, MarkRoots(h, kind), kind) \subseteq C
<1>1. /\ \A v \in Values : is_object(v) /\ Resolves(h, v) =>
           /\ checked_slot(h, v) \in Headers(h) /\ NameIn(h, v) # Nil
           /\ checked_slot(h, v) \in C <=> NameIn(h, v) \in S
      /\ \A c \in Registered : is_object(h.cells[c]) => NameIn(h, h.cells[c]) \in S
      /\ \A s \in C : \A v \in visit_reference_fields(h.objects[s]) : NameIn(h, v) \in S
      /\ \A s \in C :
           /\ h.objects[s].kind = "Ephemeron"
           /\ is_object(h.objects[s].soft[1]) /\ NameIn(h, h.objects[s].soft[1]) \in S
           /\ is_object(h.objects[s].soft[2])
           => NameIn(h, h.objects[s].soft[2]) \in S
  BY ClosedNames
<1>2. Sound(h) /\ C \in SUBSET Headers(h)
  BY DEF LayoutInv, Sound, SlotsOf
<1>3. ASSUME NEW values, values \subseteq Values, \A v \in values : is_object(v) => NameIn(h, v) \in S
      PROVE  Enqueued(h, values, kind) \subseteq C
  <2> SUFFICES ASSUME NEW s \in Enqueued(h, values, kind) PROVE s \in C
    OBVIOUS
  <2>1. PICK v \in values : is_object(v) /\ Resolves(h, v) /\ s = checked_slot(h, v)
    BY <1>2, <1>3, EnqueuedSlots
  <2>2. v \in Values /\ NameIn(h, v) \in S
    BY <1>3, <2>1
  <2> QED BY <1>1, <2>1, <2>2
<1>4. ASSUME NEW B \in SUBSET C
      PROVE  Scanned(h, B, kind) \subseteq C
  <2>1. ASSUME NEW s \in B PROVE Enqueued(h, visit_reference_fields(h.objects[s]), kind) \subseteq C
    <3> DEFINE values == visit_reference_fields(h.objects[s])
    <3>1. values \subseteq Values
      BY <1>2, HeaderIsObject, FieldsAreValues DEF Sound
    <3>2. \A v \in values : NameIn(h, v) \in S
      BY <1>1
    <3> HIDE DEF values
    <3>3. Enqueued(h, values, kind) \subseteq C
      BY <1>3, <3>1, <3>2
    <3> QED BY <3>3 DEF values
  <2> QED BY <2>1 DEF Scanned
<1>5. ASSUME NEW B \in SUBSET C
      PROVE  Enqueued(h, ActivatedValues(h, B, kind), kind) \subseteq C
  <2> DEFINE values == ActivatedValues(h, B, kind)
             E == {s \in Headers(h) : h.objects[s].kind = "Ephemeron"}
  <2>1. values \subseteq Values
    <3> DEFINE active == values
    <3>1. active = ActivatedValues(h, B, kind)
      OBVIOUS
    <3> HIDE DEF active
    <3>2. active \subseteq Values
      BY <3>1, ActivatedNotLive
    <3> QED BY <3>2 DEF active
  <2>2. \A s \in Headers(h) : IsLive(h, B, s, kind) => s \in B
    BY DEF IsLive, MarksAreClear
  <2>3. \A s \in E : /\ h.objects[s].soft[1] \in Values /\ h.objects[s].soft[2] \in Values
                     /\ \A i \in {1, 2} : is_object(h.objects[s].soft[i]) => Resolves(h, h.objects[s].soft[i])
    BY RegisteredEphemerons
  <2>4. ASSUME NEW v \in values PROVE NameIn(h, v) \in S
    <3>1. PICK s \in E : /\ v = h.objects[s].soft[2]
                         /\ IsLive(h, B, s, kind)
                         /\ is_object(h.objects[s].soft[1])
                         /\ IsLive(h, B, checked_slot(h, h.objects[s].soft[1]), kind)
                         /\ is_object(v)
      <4>1. {checked_slot(h, id) : id \in h.ephemerons} = E
        BY RegisteredEphemerons
      <4> HIDE DEF E
      <4> QED BY <2>4, <4>1 DEF ActivatedValues
    <3>2. s \in Headers(h) /\ h.objects[s].kind = "Ephemeron" /\ s \in B
      BY <2>2, <3>1
    <3> DEFINE key == h.objects[s].soft[1]
    <3>3. key \in Values /\ is_object(key) /\ Resolves(h, key)
      BY <2>3, <3>1
    <3>4. checked_slot(h, key) \in Headers(h)
      BY <1>1, <3>3
    <3>5. checked_slot(h, key) \in C
      BY <2>2, <3>1, <3>4
    <3>6. NameIn(h, key) \in S
      BY <1>1, <3>3, <3>5
    <3> QED BY <1>1, <3>1, <3>2, <3>6
  <2> HIDE DEF values
  <2>5. Enqueued(h, values, kind) \subseteq C
    BY <1>3, <2>1, <2>4
  <2> QED BY <2>5 DEF values
<1>6. Enqueued(h, MarkRoots(h, kind), kind) \subseteq C
  <2> DEFINE values == MarkRoots(h, kind)
  <2>1. values \subseteq Values
    BY RootsAreValues
  <2>2. \A v \in values : \E c \in Registered : v = h.cells[c]
    <3>1. values = {h.cells[c] : c \in Registered} \cup {h.extra[i] : i \in DOMAIN h.extra}
      BY DEF MarkRoots, RootValues, Registered
    <3>2. DOMAIN h.extra = {}
      OBVIOUS
    <3> QED BY <3>1, <3>2
  <2> HIDE DEF values
  <2>3. Enqueued(h, values, kind) \subseteq C
    BY <1>1, <1>3, <2>1, <2>2
  <2> QED BY <2>3 DEF values
<1> QED BY <1>2, <1>4, <1>5, <1>6 DEF MarkingStaysIn

\* What is marked is in every set of names that keeps the reachable objects.
LEMMA MarkedIsReachable ==
  ASSUME NEW h, LayoutInv(h), NamesAreUnique(h), StrongResolve(h), RootsAreCurrent(h),
         MarksAreClear(h), h.extra = <<>>, NEW kind, kind = "Major", NEW m, m = Mark(h, kind)
  PROVE  \A s \in Headers(m) : /\ s \in Headers(h) /\ m.objects[s].data = h.objects[s].data
                               /\ IsLive(m, {}, s, kind) =>
                                    m.objects[s].data \in Graph!Reachable(RootIn(h), GraphIn(h))
<1> DEFINE r == RootIn(h)
           g == GraphIn(h)
<1>1. PICK black \in SUBSET Headers(h) : MarkedAs(h, black, m)
  BY MarkEnds
<1>2. /\ Headers(m) = Headers(h)
      /\ \A s \in Headers(h) : m.objects[s].data = h.objects[s].data
  BY <1>1 DEF MarkedAs, SamePlaces, SameContents
<1>3. DOMAIN g = NamesIn(h) /\ r = RootIn(h) /\ g = GraphIn(h)
  BY DEF GraphIn
<1> HIDE DEF r, g
<1>4. ASSUME NEW s \in Headers(h), IsLive(m, {}, s, kind), NEW S \in SUBSET NamesIn(h),
             Graph!KeepsReachable(r, g, S)
      PROVE  h.objects[s].data \in S
  <2> DEFINE C == SlotsOf(h, S)
  <2>1. C = SlotsOf(h, S)
    OBVIOUS
  <2> HIDE DEF C
  <2>2. MarkingStaysIn(h, kind, C) /\ Enqueued(h, MarkRoots(h, kind), kind) \subseteq C
    BY <1>3, <1>4, <2>1, ReachedStaysIn
  <2>3. PICK found \in SUBSET C : MarkedAs(h, found, m)
    BY <2>2, MarkStaysIn
  <2>4. m.objects[s].marked
    BY <1>4 DEF IsLive
  <2>5. s \in found
    BY <2>3, <2>4 DEF MarkedAs, MarksAreClear
  <2> QED BY <2>1, <2>5 DEF SlotsOf
<1>5. ASSUME NEW s \in Headers(h), IsLive(m, {}, s, kind)
      PROVE  h.objects[s].data \in Graph!Reachable(r, g)
  <2>1. h.objects[s].data \in DOMAIN g
    BY <1>3 DEF NamesIn
  <2> QED BY <1>3, <1>4, <1>5, <2>1 DEF Graph!Reachable
<1> QED BY <1>2, <1>3, <1>5

\* The heap g is what the roots of h reach, promoted and unmarked.
Precise(h, g) ==
  /\ NamesIn(g) = Graph!Reachable(RootIn(h), GraphIn(h))
  /\ \A s \in Headers(g) : g.objects[s].age = "Old" /\ ~g.objects[s].marked

LEMMA PreciseFrom ==
  ASSUME NEW f, NamesAreUnique(f), NEW h, SameGraph(f, h), NEW g, Precise(h, g)
  PROVE  Precise(f, g)
BY SameGraphIs DEF Precise

\* The objects of m that are live are those that the roots of h reach.
OnlyReachable(h, m, live) ==
  \A s \in live : m.objects[s].data \in Graph!Reachable(RootIn(h), GraphIn(h))

LEMMA SweptIsPrecise ==
  ASSUME NEW h, NEW m, SameGraph(h, m), LayoutInv(m), NEW live, OnlyReachable(h, m, live),
         NEW g, Evacuated(m, live, g), LayoutInv(g), AtRest(g)
  PROVE  Precise(h, g)
<1>1. Thins(h, g)
  BY ThinsOn DEF SameGraph, Evacuated
<1>2. NamesIn(g) \subseteq Graph!Reachable(RootIn(h), GraphIn(h))
  BY DEF Evacuated, OnlyReachable
<1>3. Graph!Reachable(RootIn(h), GraphIn(h)) \subseteq NamesIn(g)
  <2> DEFINE r == RootIn(h)
             b == GraphIn(h)
             i == InternedIn(h)
  <2>1. Closed(g) /\ NamesAreUnique(g) /\ Leaves(r, b, i, g)
    BY <1>1 DEF Closed, AtRest, Thins
  <2> HIDE DEF r, b, i
  <2>2. \A n \in Gone(b, g) : n \notin Graph!Reachable(r, b)
    BY <2>1, NothingReachableIsGone
  <2>3. Graph!Reachable(r, b) \subseteq DOMAIN b
    BY DEF Graph!Reachable
  <2>4. Graph!Reachable(r, b) \subseteq NamesIn(g)
    BY <2>2, <2>3 DEF Gone
  <2> QED BY <2>4 DEF r, b
<1>4. \A s \in Headers(g) : g.objects[s].age = "Old" /\ ~g.objects[s].marked
  BY DEF Evacuated
<1> QED BY <1>2, <1>3, <1>4 DEF Precise

LEMMA CollectedIsPrecise ==
  ASSUME NEW h, LayoutInv(h), NamesAreUnique(h), h.phase # "compacting", AtRest(h), h.extra = <<>>,
         NEW kind, kind = "Major", NEW g, g = Evacuate(Mark(h, kind), kind)
  PROVE  Precise(h, g)
<1> DEFINE m == Mark(h, kind)
           live == {s \in Headers(m) : IsLive(m, {}, s, kind)}
<1>1. m = Mark(h, kind) /\ g = Evacuate(m, kind) /\ live = {s \in Headers(m) : IsLive(m, {}, s, kind)}
  OBVIOUS
<1> HIDE DEF m, live
<1>2. /\ LayoutInv(m) /\ m.phase = h.phase
      /\ EphemeronsKept(m, live) /\ OperandsMove(m, live)
  BY <1>1, MarkReady
<1>3. StrongResolve(m) /\ StrongKept(m, live) /\ RootsKept(m, live)
  BY <1>1, MarkKeepsReferences DEF AtRest
<1>4. SameGraph(h, m) /\ NamesAreUnique(m)
  BY <1>1, MarkKeepsGraph DEF SameGraph, Thins
<1>5. Evacuated(m, live, g)
  BY <1>1, <1>2, <1>3, <1>4, EvacuateThins
<1>6. LayoutInv(g)
  BY <1>1, <1>2, EvacuateKeeps
<1>7. AtRest(g)
  BY <1>1, <1>2, <1>3, EvacuateKeepsReferences
<1>8. OnlyReachable(h, m, live)
  BY <1>1, MarkedIsReachable DEF OnlyReachable, AtRest
<1> QED BY <1>2, <1>4, <1>5, <1>6, <1>7, <1>8, SweptIsPrecise

\* The final pause of a marking cycle forgets what the cycle had shaded.
LEMMA FinishMarkingIsPrecise ==
  ASSUME NEW h, LayoutInv(h), NamesAreUnique(h), h.phase = "marking", StrongResolve(h),
         RootsAreCurrent(h), h.extra = <<>>, NEW g, g = finish_incremental_marking_impl(h)
  PROVE  Precise(h, g)
<1> DEFINE major == "Major"
           u == Unmarked(h)
           m == Mark(u, major)
           k == FinalMarks(h)
           e == Evacuate(k, major)
           live == {s \in Headers(k) : IsLive(k, {}, s, major)}
<1>1. /\ major = "Major" /\ u = Unmarked(h) /\ m = Mark(u, major) /\ k = FinalMarks(h)
      /\ k = [m EXCEPT !.worklist = {}] /\ e = Evacuate(k, major) /\ g = [e EXCEPT !.phase = "idle"]
      /\ live = {s \in Headers(k) : IsLive(k, {}, s, major)}
      /\ live = {s \in Headers(k) : IsLive(k, {}, s, "Major")}
  BY DEF FinalMarks, finish_incremental_marking_liveness, finish_incremental_marking_impl
<1> HIDE DEF major, u, m, k, e, live
<1>2. /\ LayoutInv(u) /\ SamePlaces(h, u) /\ u.phase = "marking" /\ u.extra = <<>> /\ u.cells = h.cells
      /\ \A s \in Headers(h) : SameContents(h.objects[s], u.objects[s]) /\ u.objects[s].marked = FALSE
  <2>1. u = Unmarked(h)
    BY <1>1
  <2>2. /\ LayoutInv(u) /\ Carries(h, u) /\ SamePlaces(h, u)
        /\ u.phase = h.phase /\ u.extra = h.extra /\ u.cells = h.cells
        /\ \A s \in Headers(h) : /\ SameContents(h.objects[s], u.objects[s])
                                 /\ u.objects[s].age = h.objects[s].age
                                 /\ u.objects[s].marked = FALSE
    BY ONLY LayoutInv(h), <2>1, UnmarkedKeeps
  <2> QED BY <2>2
<1>3. SameGraph(h, u) /\ NamesAreUnique(u)
  BY <1>1, UnmarkedKeepsGraph DEF SameGraph, Thins
<1>4. StrongResolve(u) /\ RootsAreCurrent(u) /\ MarksAreClear(u)
  <2>1. MarksAreClear(u)
    BY <1>2 DEF SamePlaces, MarksAreClear
  <2>2. \A s \in Headers(h) : u.objects[s].strong = h.objects[s].strong
    BY <1>2 DEF SameContents
  <2> QED BY <1>2, <2>1, <2>2, SameReferences
<1>5. \A s \in Headers(m) : /\ IsLive(m, {}, s, major) =>
                                 m.objects[s].data \in Graph!Reachable(RootIn(u), GraphIn(u))
  BY <1>1, <1>2, <1>3, <1>4, MarkedIsReachable
<1>6. k.objects = m.objects /\ Headers(k) = Headers(m)
  <2>1. k.objects = m.objects
    BY <1>1
  <2> QED BY <2>1 DEF Headers
<1>7. OnlyReachable(u, k, live)
  <2>1. \A s \in Headers(k) : IsLive(k, {}, s, major) => IsLive(m, {}, s, major)
    BY <1>6 DEF IsLive, is_old_slot
  <2> QED BY <1>1, <1>5, <1>6, <2>1 DEF OnlyReachable
<1>8. OnlyReachable(h, k, live)
  BY <1>3, <1>7, SameGraphIs DEF OnlyReachable
<1>9. /\ LayoutInv(k) /\ k.phase = "marking" /\ k.worklist = {}
      /\ EphemeronsKept(k, live) /\ OperandsMove(k, live)
  BY <1>1, FinalMarksReady
<1>10. StrongResolve(k) /\ StrongKept(k, live) /\ RootsKept(k, live)
  BY <1>1, FinalMarksKeepReferences
<1>11. SameGraph(h, k) /\ NamesAreUnique(k)
  BY <1>1, FinalMarksKeepGraph DEF SameGraph, Thins
<1>12. Evacuated(k, live, e)
  BY <1>1, <1>9, <1>10, <1>11, EvacuateThins
<1>13. LayoutInv(e)
  BY <1>1, <1>9, EvacuateKeeps
<1>14. AtRest(e)
  BY <1>1, <1>9, <1>10, EvacuateKeepsReferences
<1>15. Precise(h, e)
  BY <1>8, <1>9, <1>11, <1>12, <1>13, <1>14, SweptIsPrecise
<1>16. g.objects = e.objects
  BY <1>1
<1> QED BY <1>15, <1>16 DEF Precise, NamesIn, Headers

\* A major collection at any point of a cycle keeps what the roots reach, and
\* nothing else: no object survives because an interrupted cycle had shaded or
\* moved it, and none keeps a mark or stays young.
THEOREM MajorCollectionsArePrecise == Spec /\ OwnersAreCurrent => []MajorCollectionIsPrecise
<1>1. GcLayoutInv /\ GcReferenceInv /\ GcNameInv => MajorCollectionIsPrecise
  <2> SUFFICES ASSUME GcLayoutInv, GcReferenceInv, GcNameInv PROVE MajorCollectionIsPrecise
    OBVIOUS
  <2> DEFINE h == heap
             major == "Major"
             g == MajorCollectionNow
  <2>1. LayoutInv(h) /\ ReferenceInv(h) /\ NamesAreUnique(h) /\ h.extra = <<>> /\ h.phase = phase
        /\ StrongResolve(h) /\ RootsAreCurrent(h) /\ (h.phase # "marking" => AtRest(h))
    BY HeapRecord, AtRestIsSound DEF GcLayoutInv, GcReferenceInv, GcNameInv, ReferenceInv
  <2>2. g = IF h.phase = "marking" THEN finish_incremental_marking_impl(h) ELSE collect_impl(h, major)
    BY <2>1 DEF MajorCollectionNow
  <2>3. h = heap /\ major = "Major"
    OBVIOUS
  <2> HIDE DEF h, g, major
  <2>4. CASE h.phase = "marking"
    <3>1. Precise(h, g)
      BY <2>1, <2>2, <2>4, FinishMarkingIsPrecise
    <3> QED BY <3>1 DEF Precise, MajorCollectionIsPrecise, ReachableNames, h, g
  <2>5. CASE h.phase # "marking"
    <3> DEFINE f == FinishActiveCycle(h)
    <3>1. f = FinishActiveCycle(h) /\ g = Evacuate(Mark(f, major), major)
      BY <2>2, <2>5 DEF collect_impl
    <3>2. f = CompactionFinished(h)
      <4> DEFINE k == CompactionFinished(h)
      <4>1. f = IF k.phase = "marking" THEN finish_incremental_marking_impl(k) ELSE k
        BY DEF FinishActiveCycle, CompactionFinished
      <4>2. k.phase # "marking"
        <5>1. k = CompactionFinished(h)
          OBVIOUS
        <5>2. CASE h.phase = "compacting"
          <6>1. k = finish_incremental_compaction_impl(h)
            BY <5>2 DEF CompactionFinished
          <6> HIDE DEF k
          <6> QED BY <2>1, <5>2, <6>1, FinishCompactionKeeps
        <5>3. CASE h.phase # "compacting"
          BY <2>5, <5>3 DEF CompactionFinished
        <5> QED BY <5>2, <5>3
      <4> HIDE DEF k, f
      <4>3. f = k
        BY <4>1, <4>2
      <4> QED BY <4>3 DEF k
    <3> HIDE DEF f
    <3>3. LayoutInv(f) /\ Carries(h, f) /\ f.phase = "idle"
      BY <2>1, <3>1, FinishActiveCycleKeeps
    <3>4. SameGraph(h, f)
      BY <2>1, <3>2, CompactionFinishedKeepsGraph
    <3>5. ReferenceInv(f)
      BY <2>1, <3>2, CompactionFinishedKeepsReferences
    <3>6. AtRest(f) /\ NamesAreUnique(f)
      BY <3>3, <3>4, <3>5, AtRestIsSound DEF SameGraph, Thins
    <3>7. f.extra = <<>>
      <4>1. Len(f.extra) = 0 /\ f.extra \in Seq(Values)
        BY <2>1, <3>3 DEF Carries, LayoutInv, HeapIsTyped
      <4> QED BY <4>1, EmptySeq
    <3>8. Precise(f, g)
      BY <2>3, <3>1, <3>3, <3>6, <3>7, CollectedIsPrecise
    <3>9. Precise(h, g)
      BY <2>1, <3>4, <3>8, PreciseFrom
    <3> QED BY <3>9 DEF Precise, MajorCollectionIsPrecise, ReachableNames, h, g
  <2> QED BY <2>4, <2>5
<1> QED BY <1>1, ReferencesAreKept, NamesStayUnique, PTL

=============================================================================
