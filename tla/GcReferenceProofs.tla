-------------------------- MODULE GcReferenceProofs --------------------------
(***************************************************************************)
(* References between objects: nothing that is reachable in one step from  *)
(* an object or a root is ever lost, no marked object refers to a white    *)
(* one, and the remembered set has every old object with a young child.    *)
(***************************************************************************)
EXTENDS GcHeapProofs

(***************************************************************************)
(* What a collection keeps.                                                *)
(***************************************************************************)
\* What is live refers to what is live, and so do the roots.
StrongKept(h, live) ==
  \A s \in live : \A v \in visit_reference_fields(h.objects[s]) : checked_slot(h, v) \in live

RootsKept(h, live) ==
  \A c \in Registered : is_object(h.cells[c]) => checked_slot(h, h.cells[c]) \in live

LEMMA StrongFieldsAreIds ==
  ASSUME NEW h, LayoutInv(h), NEW s \in Headers(h)
  PROVE  /\ h.objects[s] \in Objects
         /\ \A v \in visit_reference_fields(h.objects[s]) :
              v \in Ids /\ v \in Values /\ is_object(v) /\ v # Nil
<1>1. h.objects[s] \in Objects
  BY HeaderIsObject DEF LayoutInv
<1>2. visit_reference_fields(h.objects[s]) \subseteq Values \ {Nil}
  BY <1>1, FieldsAreValues
<1> QED BY <1>1, <1>2 DEF Values, is_object

\* Outside a compaction an object's id is what is current at its slot.
LEMMA StillResolves ==
  ASSUME NEW h, LayoutInv(h), h.phase # "compacting", NEW v \in Ids
  PROVE  Resolves(h, v) => /\ Physical(h, v) /\ checked_slot(h, v) \in Headers(h)
                           /\ v = IdAt(h, checked_slot(h, v))
<1>1. HeapIsTyped(h) /\ RunsFollow(h) /\ h.cursor = 0
  BY DEF LayoutInv, PhaseIsClean
<1>2. Resolves(h, v) => checked_slot(h, v) \in Headers(h) /\ v = IdAt(h, checked_slot(h, v))
  BY <1>1, StillReference
<1> QED BY <1>1, <1>2, IdOfBase

\* A current id resolves to the object it is current for.
LEMMA CurrentResolves ==
  ASSUME NEW h, LayoutInv(h), NEW v \in Ids, Physical(h, v)
  PROVE  /\ Resolves(h, v) /\ checked_slot(h, v) = slot_from(v) /\ checked_slot(h, v) \in Headers(h)
         /\ v = IdAt(h, checked_slot(h, v))
<1>1. slot_from(v) \in Headers(h) /\ v = IdAt(h, slot_from(v)) /\ checked_slot(h, v) = slot_from(v)
  BY PhysicalIsId
<1>2. HeapIsTyped(h) /\ NoSlot \notin Headers(h) /\ is_object(v)
  BY HeaderIsObject, IdsAreReferences DEF LayoutInv
<1> QED BY <1>1, <1>2 DEF Resolves

LEMMA ResolvedSlot ==
  ASSUME NEW h, LayoutInv(h), NEW v \in Ids, Resolves(h, v)
  PROVE  checked_slot(h, v) \in Headers(h) /\ ObjectOf(h, v) = h.objects[checked_slot(h, v)]
BY ResolvedIsHeader DEF LayoutInv, ObjectOf

LEMMA RootCells ==
  ASSUME NEW h, LayoutInv(h), NEW c \in Registered
  PROVE  c \in Cells /\ h.cells[c] \in Values /\ (is_object(h.cells[c]) => h.cells[c] \in Ids)
<1>1. h.cells \in [Cells -> Values]
  BY DEF LayoutInv, HeapIsTyped
<1> QED BY <1>1 DEF Registered, Values, is_object

\* A movement that takes along what its survivors refer to.
LEMMA MovementKeepsReferences ==
  ASSUME NEW h, LayoutInv(h), h.phase # "compacting",
         NEW to, NEW n, NEW mo, NEW mg, Moves(h, to, n, mo, mg), EphemeronsKept(h, DOMAIN to),
         StrongResolve(h), StrongKept(h, DOMAIN to), RootsKept(h, DOMAIN to),
         NEW g, g = InstallMovement(h, mo, mg, ForwardingOf(to, mg))
  PROVE  StrongResolve(g) /\ RootsAreCurrent(g)
<1> DEFINE f == ForwardingOf(to, mg)
<1>1. HeapIsTyped(h) /\ RunsFollow(h) /\ DOMAIN h = HeapFields /\ DOMAIN to \subseteq Headers(h)
  BY DEF LayoutInv, HeapIsTyped, Moves
<1>2. /\ Headers(g) = {to[s] : s \in DOMAIN to} /\ HeapIsTyped(g)
      /\ \A s \in DOMAIN to : g.objects[to[s]] = RewrittenObject(h, ForwardingOf(to, mg), mo[to[s]])
  BY MovedHeap
<1>3. g.cells = [c \in Cells |-> IF c \in RawCells THEN h.cells[c] ELSE rewrite_value(h, f, h.cells[c])]
  <2>1. g = InstallMovement(h, mo, mg, f)
    OBVIOUS
  <2> HIDE DEF f
  <2>2. InstalledAs(h, mo, mg, f, g)
    BY <1>1, <2>1, Installed
  <2> QED BY <2>2 DEF InstalledAs
<1>4. ASSUME NEW v \in Ids, checked_slot(h, v) \in DOMAIN to, NEW w, w = rewrite_value(h, ForwardingOf(to, mg), v)
      PROVE  Physical(g, w) /\ Resolves(g, w)
  <2>1. Physical(g, w) /\ Becomes(h, v, g, w)
    BY <1>4, MovedReference
  <2>2. checked_slot(h, v) # NoSlot /\ is_object(v)
    BY <1>1, <1>4, HeaderIsObject, IdsAreReferences
  <2> QED BY <2>1, <2>2 DEF Becomes, Resolves
<1>5. StrongResolve(g)
  <2> SUFFICES ASSUME NEW t \in Headers(g), NEW w \in visit_reference_fields(g.objects[t])
               PROVE  Resolves(g, w)
    BY DEF StrongResolve
  <2>1. PICK s \in DOMAIN to : t = to[s]
    BY <1>2
  <2> DEFINE q == g.objects[to[s]]
  <2>2. validate_descriptor_shape(h.objects[s]) /\ h.objects[s] \in Objects
    BY <1>1, HeaderIsObject DEF RunsFollow
  <2>3. q = RewrittenObject(h, ForwardingOf(to, mg), mo[to[s]])
    BY <1>2
  <2> HIDE DEF q
  <2>4. StrongFollows(h, to, mg, h.objects[s], q)
    BY <1>1, <2>2, <2>3, RewrittenContents
  <2>5. PICK i \in DOMAIN h.objects[s].strong :
          w = rewrite_value(h, ForwardingOf(to, mg), h.objects[s].strong[i]) /\ is_object(w)
    BY <2>1, <2>4 DEF q, StrongFollows, visit_reference_fields
  <2> DEFINE v == h.objects[s].strong[i]
  <2>6. v \in Values
    BY <2>2, <2>5, ObjectFields, ElementOfSeq
  <2>7. w = rewrite_value(h, ForwardingOf(to, mg), v)
    BY <2>5
  <2>8. is_object(v) => v \in visit_reference_fields(h.objects[s])
    BY <2>5 DEF visit_reference_fields
  <2> HIDE DEF v
  <2>9. is_object(v)
    BY <2>5, <2>6, <2>7, RewrittenValue
  <2>10. v \in Ids /\ checked_slot(h, v) \in DOMAIN to
    BY <2>6, <2>8, <2>9 DEF StrongKept, Values, is_object
  <2> QED BY <1>4, <2>7, <2>10
<1>6. RootsAreCurrent(g)
  <2> SUFFICES ASSUME NEW c \in Registered, is_object(g.cells[c])
               PROVE  Physical(g, g.cells[c])
    BY DEF RootsAreCurrent, Registered
  <2> DEFINE v == h.cells[c]
             w == g.cells[c]
  <2>1. v \in Values /\ c \in Cells /\ (is_object(v) => v \in Ids)
    BY RootCells
  <2>2. w = rewrite_value(h, ForwardingOf(to, mg), v)
    BY <1>3, <2>1 DEF Registered
  <2>3. is_object(v) => checked_slot(h, v) \in DOMAIN to
    BY DEF RootsKept
  <2>4. is_object(w)
    OBVIOUS
  <2> HIDE DEF v, w
  <2>5. is_object(v)
    BY <2>1, <2>2, <2>4, RewrittenValue
  <2>6. Physical(g, w)
    BY <1>4, <2>1, <2>2, <2>3, <2>5
  <2> QED BY <2>6 DEF w
<1> QED BY <1>5, <1>6

\* References and marks depend on objects, their places and the cells.
LEMMA SameReferences ==
  ASSUME NEW h, LayoutInv(h), NEW g, SamePlaces(h, g), 
         \A s \in Headers(h) : g.objects[s].strong = h.objects[s].strong
  PROVE  /\ StrongResolve(h) => StrongResolve(g)
         /\ \A v \in Ids : Physical(h, v) => Physical(g, v)
         /\ RootsAreCurrent(h) /\ g.cells = h.cells => RootsAreCurrent(g)
<1>1. HeapIsTyped(h) /\ HeapIsTyped(g) /\ Headers(g) = Headers(h)
      /\ \A s \in Headers(h) : g.generations[s] = h.generations[s]
  BY DEF SamePlaces, LayoutInv
<1>2. \A v : Resolves(g, v) <=> Resolves(h, v)
  BY <1>1, SamePlacesResolve
<1>3. \A s \in Headers(h) : visit_reference_fields(g.objects[s]) = visit_reference_fields(h.objects[s])
  BY DEF visit_reference_fields
<1>4. StrongResolve(h) => StrongResolve(g)
  BY <1>1, <1>2, <1>3 DEF StrongResolve
<1>5. \A v \in Ids : Physical(h, v) => Physical(g, v)
  BY <1>1 DEF Physical, Headers
<1>6. RootsAreCurrent(h) /\ g.cells = h.cells => RootsAreCurrent(g)
  <2> SUFFICES ASSUME RootsAreCurrent(h), g.cells = h.cells, NEW c \in Registered, is_object(h.cells[c])
               PROVE  Physical(g, h.cells[c])
    BY DEF RootsAreCurrent, Registered
  <2>1. h.cells[c] \in Ids /\ Physical(h, h.cells[c])
    BY RootCells DEF RootsAreCurrent, Registered
  <2> QED BY <1>5, <2>1
<1> QED BY <1>4, <1>5, <1>6

(***************************************************************************)
(* Marking.                                                                *)
(***************************************************************************)
\* The survivors of a collection may be moved: they refer to survivors.  A
\* minor collection knows of the young children of old objects from the
\* remembered set alone.
LEMMA MarkKeepsReferences ==
  ASSUME NEW h, LayoutInv(h), StrongResolve(h), RootsAreCurrent(h), MarksAreClear(h),
         NEW kind, kind = "Minor" => validate_remembered_set(h), NEW g, g = Mark(h, kind),
         NEW live, live = {s \in Headers(g) : IsLive(g, {}, s, kind)}
  PROVE  StrongResolve(g) /\ RootsAreCurrent(g) /\ StrongKept(g, live) /\ RootsKept(g, live)
<1>1. PICK black \in SUBSET Headers(h) :
           /\ MarkedAs(h, black, g)
           /\ Scanned(h, black, kind) = black
           /\ \A v \in MarkRoots(h, kind) : is_object(v) /\ Resolves(h, v)
                => IsLive(h, black, checked_slot(h, v), kind)
  BY MarkEnds
<1>2. /\ LayoutInv(g) /\ SamePlaces(h, g) /\ g.cells = h.cells
      /\ \A s \in Headers(h) : SameContents(h.objects[s], g.objects[s])
  BY <1>1 DEF MarkedAs
<1>3. live = {s \in Headers(h) : IsLive(h, black, s, kind)}
  BY <1>1, <1>2, LiveAsMarked DEF SamePlaces
<1>4. \A v : checked_slot(g, v) = checked_slot(h, v)
  BY <1>2, SamePlacesResolve DEF LayoutInv
<1>5. \A s \in Headers(h) : /\ g.objects[s].strong = h.objects[s].strong
                            /\ visit_reference_fields(g.objects[s]) = visit_reference_fields(h.objects[s])
  BY <1>2 DEF SameContents, visit_reference_fields
<1>6. StrongResolve(g) /\ RootsAreCurrent(g)
  BY <1>2, <1>5, SameReferences
<1>7. ASSUME NEW s \in live, NEW v \in visit_reference_fields(h.objects[s])
      PROVE  checked_slot(h, v) \in live
  <2>1. s \in Headers(h) /\ IsLive(h, black, s, kind) /\ ~h.objects[s].marked
    BY <1>3 DEF MarksAreClear
  <2>2. v \in Ids /\ v \in Values /\ is_object(v) /\ Resolves(h, v) /\ h.objects[s] \in Objects
    BY <2>1, StrongFieldsAreIds DEF StrongResolve
  <2>3. checked_slot(h, v) \in Headers(h)
    BY <2>2, ResolvedSlot
  <2>4. CASE s \in black
    <3> DEFINE values == visit_reference_fields(h.objects[s])
    <3>1. Enqueued(h, values, kind) \subseteq black
      BY <1>1, <2>4 DEF Scanned
    <3>2. values \subseteq Values /\ v \in values
      BY <2>2, FieldsAreValues
    <3>3. Sound(h)
      BY DEF LayoutInv, Sound
    <3> HIDE DEF values
    <3>4. checked_slot(h, v) \in Enqueued(h, values, kind) \/ IsLive(h, black, checked_slot(h, v), kind)
      BY <2>2, <3>2, <3>3, EnqueuedSlots
    <3>5. IsLive(h, black, checked_slot(h, v), kind)
      BY <3>1, <3>4 DEF IsLive
    <3> QED BY <1>3, <2>3, <3>5
  <2>5. CASE s \notin black
    <3>1. kind = "Minor" /\ is_old_slot(h, s)
      BY <2>1, <2>5 DEF IsLive
    <3>2. CASE is_young_slot(h, checked_slot(h, v))
      <4>1. HasYoungReference(h, s)
        BY <2>2, <3>2 DEF HasYoungReference
      <4>2. IdAt(h, s) \in h.remembered_set
        BY <2>1, <3>1, <4>1 DEF validate_remembered_set
      <4>3. ObjectOf(h, IdAt(h, s)) = h.objects[s]
        BY <2>1, IdOfBase DEF LayoutInv, ObjectOf
      <4>4. v \in MarkRoots(h, kind)
        BY <3>1, <4>2, <4>3 DEF MarkRoots, RememberedReferences
      <4> QED BY <1>1, <1>3, <2>2, <2>3, <4>4
    <3>3. CASE ~is_young_slot(h, checked_slot(h, v))
      <4>1. h.objects[checked_slot(h, v)] \in Objects
        BY <2>3, StrongFieldsAreIds
      <4>2. is_old_slot(h, checked_slot(h, v))
        BY <3>3, <4>1, ObjectFields DEF is_old_slot, is_young_slot
      <4> QED BY <1>3, <2>3, <3>1, <4>2 DEF IsLive
    <3> QED BY <3>2, <3>3
  <2> QED BY <2>4, <2>5
<1>8. StrongKept(g, live)
  <2>1. live \subseteq Headers(h)
    BY <1>3
  <2> QED BY <1>4, <1>5, <1>7, <2>1 DEF StrongKept
<1>9. RootsKept(g, live)
  <2> SUFFICES ASSUME NEW c \in Registered, is_object(h.cells[c])
               PROVE  checked_slot(h, h.cells[c]) \in live
    BY <1>2, <1>4 DEF RootsKept
  <2> DEFINE v == h.cells[c]
  <2>1. v \in Ids /\ Physical(h, v) /\ v \in MarkRoots(h, kind)
    BY RootCells DEF RootsAreCurrent, Registered, MarkRoots, RootValues
  <2> HIDE DEF v
  <2>2. Resolves(h, v) /\ checked_slot(h, v) \in Headers(h) /\ is_object(v)
    BY <2>1, CurrentResolves, IdsAreReferences
  <2>3. checked_slot(h, v) \in live
    BY <1>1, <1>3, <2>1, <2>2
  <2> QED BY <2>3 DEF v
<1> QED BY <1>6, <1>8, <1>9

(***************************************************************************)
(* The atomic collections and the final pause of incremental marking.      *)
(***************************************************************************)
\* What a heap is like between two cycles.
AtRest(h) ==
  StrongResolve(h) /\ RootsAreCurrent(h) /\ MarksAreClear(h) /\ validate_remembered_set(h)

LEMMA AtRestIsSound ==
  ASSUME NEW h, h.phase # "marking"
  PROVE  AtRest(h) <=> ReferenceInv(h)
BY DEF AtRest, ReferenceInv, MarksAreSafe

\* A pruned remembered set is complete.
LEMMA PruneIsComplete ==
  ASSUME NEW h, LayoutInv(h), NEW g, g = prune_remembered_set(h)
  PROVE  validate_remembered_set(g)
<1>1. /\ LayoutInv(g) /\ SamePlaces(h, g) /\ g.objects = h.objects /\ Headers(g) = Headers(h)
  BY PruneKeeps DEF SamePlaces
<1>2. HeapIsTyped(g) /\ RunsFollow(g) /\ HeapIsTyped(h)
  BY <1>1 DEF LayoutInv
<1>3. g.remembered_set =
        {IdAt(h, s) : s \in {t \in Headers(h) : is_old_slot(h, t) /\ HasYoungReference(h, t)}}
  <2>1. DOMAIN h = HeapFields
    BY DEF LayoutInv, HeapIsTyped
  <2> QED BY <2>1 DEF prune_remembered_set, HeapFields
<1>4. /\ \A s \in Headers(h) : IdAt(g, s) = IdAt(h, s)
      /\ \A v : Resolves(g, v) <=> Resolves(h, v)
      /\ \A v : checked_slot(g, v) = checked_slot(h, v)
  BY <1>1, <1>2, SamePlacesResolve
<1>5. \A s \in Headers(h) : /\ is_old_slot(g, s) <=> is_old_slot(h, s)
                            /\ HasYoungReference(g, s) <=> HasYoungReference(h, s)
  BY <1>1, <1>4 DEF is_old_slot, is_young_slot, HasYoungReference
<1>6. \A s \in Headers(g) : Resolves(g, IdAt(g, s)) /\ checked_slot(g, IdAt(g, s)) = s
  BY <1>2, IdOfBase
<1> QED BY <1>1, <1>3, <1>4, <1>5, <1>6 DEF validate_remembered_set

LEMMA EvacuateKeepsReferences ==
  ASSUME NEW h, LayoutInv(h), h.phase # "compacting", NEW kind,
         NEW live, live = {s \in Headers(h) : IsLive(h, {}, s, kind)},
         EphemeronsKept(h, live), OperandsMove(h, live),
         StrongResolve(h), StrongKept(h, live), RootsKept(h, live),
         NEW g, g = Evacuate(h, kind)
  PROVE  AtRest(g)
<1> DEFINE to == Destinations(h.objects, live)
           c == compact_live_objects(h, live)
           mo == c.objects
           mg == c.generations
           k == InstallMovement(h, mo, mg, ForwardingOf(to, mg))
<1>1. HeapIsTyped(h) /\ RunsFollow(h) /\ live \subseteq Headers(h)
  BY DEF LayoutInv
<1>2. /\ Moves(h, to, Size(h), mo, mg) /\ c.forwarding = ForwardingOf(to, mg) /\ DOMAIN to = live
  <2> DEFINE t == to
             d == c
  <2>1. t = Destinations(h.objects, live) /\ d = compact_live_objects(h, live)
    OBVIOUS
  <2> HIDE DEF t, d
  <2>2. /\ Moves(h, t, Size(h), d.objects, d.generations) /\ d.forwarding = ForwardingOf(t, d.generations)
        /\ Slides(h, live, t)
    BY <1>1, <2>1, SlideMoves
  <2> QED BY <2>2 DEF t, d, Slides
<1>3. g = prune_remembered_set(k)
  BY <1>2 DEF Evacuate
<1>4. \A t \in DOMAIN mo : mo[t] # None => mo[t].marked = FALSE
  <2>1. mo = [t \in DOMAIN h.objects |-> IF \E s \in live : to[s] = t
                 THEN Survivor(h.objects[CHOOSE s \in live : to[s] = t]) ELSE None]
    BY DEF compact_live_objects
  <2>2. \A s \in live : h.objects[s] \in Objects
    BY <1>1, HeaderIsObject
  <2>3. ASSUME NEW t \in DOMAIN mo, mo[t] # None PROVE mo[t].marked = FALSE
    <3> HIDE DEF mo
    <3>1. \E s \in live : to[s] = t
      BY <2>1, <2>3
    <3> DEFINE s1 == CHOOSE s \in live : to[s] = t
    <3>2. s1 \in live /\ mo[t] = Survivor(h.objects[s1])
      BY <2>1, <2>3, <3>1
    <3> HIDE DEF s1
    <3> QED BY <2>2, <3>2, SurvivorKeeps
  <2> QED BY <2>3
<1>5. k = InstallMovement(h, mo, mg, ForwardingOf(to, mg))
  OBVIOUS
<1> HIDE DEF k, mo, mg, c, to
<1>6. StrongResolve(k) /\ RootsAreCurrent(k)
  BY <1>2, <1>5, MovementKeepsReferences
<1>7. LayoutInv(k)
  BY <1>2, <1>5, MovementKeeps
<1>8. MarksAreClear(k)
  <2>1. /\ Headers(k) = {to[s] : s \in DOMAIN to}
        /\ \A s \in DOMAIN to : k.objects[to[s]] = RewrittenObject(h, ForwardingOf(to, mg), mo[to[s]])
    BY <1>2, <1>5, MovedHeap
  <2> SUFFICES ASSUME NEW s \in live PROVE ~k.objects[to[s]].marked
    BY <1>2, <2>1 DEF MarksAreClear
  <2>2. validate_descriptor_shape(h.objects[s])
    BY <1>1 DEF RunsFollow
  <2> DEFINE q == k.objects[to[s]]
  <2>3. q = RewrittenObject(h, ForwardingOf(to, mg), mo[to[s]])
    BY <1>2, <2>1
  <2> HIDE DEF q
  <2>4. q.marked = mo[to[s]].marked
    BY <1>1, <1>2, <2>2, <2>3, RewrittenContents
  <2>5. mo[to[s]] # None /\ to[s] \in DOMAIN mo
    BY <1>2, NoneAssumption DEF Moves, SameContents
  <2> QED BY <1>4, <2>4, <2>5 DEF q
<1>9. LayoutInv(g) /\ SamePlaces(k, g) /\ g.objects = k.objects
  BY <1>3, <1>7, PruneKeeps
<1>10. g.cells = k.cells
  <2>1. DOMAIN k = HeapFields
    BY <1>7 DEF LayoutInv, HeapIsTyped
  <2> QED BY <1>3, <2>1 DEF prune_remembered_set, HeapFields
<1>11. StrongResolve(g) /\ RootsAreCurrent(g)
  BY <1>6, <1>7, <1>9, <1>10, SameReferences
<1>12. MarksAreClear(g)
  BY <1>8, <1>9 DEF MarksAreClear, SamePlaces
<1>13. validate_remembered_set(g)
  BY <1>3, <1>7, PruneIsComplete
<1> QED BY <1>11, <1>12, <1>13 DEF AtRest

LEMMA CollectedKeepsReferences ==
  ASSUME NEW h, LayoutInv(h), h.phase # "compacting", AtRest(h), NEW kind,
         NEW g, g = Evacuate(Mark(h, kind), kind)
  PROVE  AtRest(g)
<1> DEFINE m == Mark(h, kind)
           live == {s \in Headers(m) : IsLive(m, {}, s, kind)}
<1>1. m = Mark(h, kind) /\ g = Evacuate(m, kind)
  OBVIOUS
<1> HIDE DEF m
<1>2. /\ LayoutInv(m) /\ m.phase = h.phase
      /\ EphemeronsKept(m, live) /\ OperandsMove(m, live)
  BY <1>1, MarkReady
<1>3. StrongResolve(m) /\ RootsAreCurrent(m) /\ StrongKept(m, live) /\ RootsKept(m, live)
  BY <1>1, MarkKeepsReferences DEF AtRest
<1> QED BY <1>1, <1>2, <1>3, EvacuateKeepsReferences

\* The final pause forgets the marks of the cycle; the references of the
\* heap are all it needs.
LEMMA FinalMarksKeepReferences ==
  ASSUME NEW h, LayoutInv(h), h.phase = "marking", StrongResolve(h), RootsAreCurrent(h),
         NEW g, g = FinalMarks(h),
         NEW live, live = {s \in Headers(g) : IsLive(g, {}, s, "Major")}
  PROVE  StrongResolve(g) /\ RootsAreCurrent(g) /\ StrongKept(g, live) /\ RootsKept(g, live)
<1> DEFINE u == Unmarked(h)
           m == Mark(u, "Major")
           held == {s \in Headers(m) : IsLive(m, {}, s, "Major")}
<1>1. u = Unmarked(h) /\ m = Mark(u, "Major") /\ g = [m EXCEPT !.worklist = {}]
  BY DEF FinalMarks, finish_incremental_marking_liveness
<1> HIDE DEF u, m
<1>2. /\ LayoutInv(u) /\ SamePlaces(h, u) /\ u.phase = "marking" /\ u.cells = h.cells
      /\ \A s \in Headers(h) : SameContents(h.objects[s], u.objects[s]) /\ u.objects[s].marked = FALSE
  BY <1>1, UnmarkedKeeps
<1>3. StrongResolve(u) /\ RootsAreCurrent(u) /\ MarksAreClear(u)
  <2>1. \A s \in Headers(h) : u.objects[s].strong = h.objects[s].strong
    BY <1>2 DEF SameContents
  <2>2. StrongResolve(u) /\ RootsAreCurrent(u)
    BY <1>2, <2>1, SameReferences
  <2> QED BY <1>2, <2>2 DEF MarksAreClear, SamePlaces
<1>4. /\ LayoutInv(m) /\ m.phase = "marking"
      /\ StrongResolve(m) /\ RootsAreCurrent(m) /\ StrongKept(m, held) /\ RootsKept(m, held)
  <2> DEFINE major == "Major"
  <2>1. m = Mark(u, major) /\ held = {s \in Headers(m) : IsLive(m, {}, s, major)} /\ major # "Minor"
    BY <1>1
  <2> HIDE DEF major, held
  <2>2. LayoutInv(m) /\ m.phase = u.phase
    BY <1>2, <2>1, MarkReady
  <2> QED BY <1>2, <1>3, <2>1, <2>2, MarkKeepsReferences
<1>5. SameButPhase(m, g) /\ g.phase = "marking" /\ g.worklist = {}
  <2>1. DOMAIN m = HeapFields
    BY <1>4 DEF LayoutInv, HeapIsTyped
  <2> QED BY <1>1, <1>4, <2>1 DEF HeapFields, SameButPhase
<1>6. LayoutInv(g) /\ SamePlaces(m, g) /\ g.objects = m.objects /\ g.cells = m.cells
  BY <1>4, <1>5, PhaseKeeps DEF SameButPhase
<1>7. (\A v : checked_slot(g, v) = checked_slot(m, v)) /\ Headers(g) = Headers(m)
  BY <1>4, <1>6, SamePlacesResolve DEF LayoutInv, SamePlaces
<1>8. live = held
  BY <1>6, <1>7 DEF IsLive, is_old_slot
<1>9. StrongResolve(g) /\ RootsAreCurrent(g)
  BY <1>4, <1>6, SameReferences
<1> QED BY <1>4, <1>6, <1>7, <1>8, <1>9 DEF StrongKept, RootsKept

\* Nothing but the phase and the worklist changes.
LEMMA PhaseKeepsReferences ==
  ASSUME NEW h, LayoutInv(h), NEW g, LayoutInv(g), SamePlaces(h, g), SameButPhase(h, g)
  PROVE  AtRest(h) => AtRest(g)
<1>1. /\ Headers(g) = Headers(h) /\ g.objects = h.objects /\ g.remembered_set = h.remembered_set
      /\ \A v : checked_slot(g, v) = checked_slot(h, v) /\ (Resolves(g, v) <=> Resolves(h, v))
      /\ \A s \in Headers(h) : IdAt(g, s) = IdAt(h, s)
  BY SamePlacesResolve DEF LayoutInv, SamePlaces, SameButPhase
<1>2. StrongResolve(h) /\ RootsAreCurrent(h) => StrongResolve(g) /\ RootsAreCurrent(g)
  BY <1>1, SameReferences DEF SameButPhase
<1>3. MarksAreClear(h) => MarksAreClear(g)
  BY <1>1 DEF MarksAreClear
<1>4. \A s \in Headers(h) : HasYoungReference(g, s) <=> HasYoungReference(h, s)
  BY <1>1 DEF HasYoungReference, is_young_slot
<1>5. validate_remembered_set(h) => validate_remembered_set(g)
  BY <1>1, <1>4 DEF validate_remembered_set, is_old_slot
<1> QED BY <1>2, <1>3, <1>5 DEF AtRest

LEMMA FinishMarkingKeepsReferences ==
  ASSUME NEW h, LayoutInv(h), h.phase = "marking", StrongResolve(h), RootsAreCurrent(h),
         NEW g, g = finish_incremental_marking_impl(h)
  PROVE  AtRest(g)
<1> DEFINE m == FinalMarks(h)
           e == Evacuate(m, "Major")
           live == {s \in Headers(m) : IsLive(m, {}, s, "Major")}
<1>1. m = FinalMarks(h) /\ e = Evacuate(m, "Major") /\ g = [e EXCEPT !.phase = "idle"]
  BY DEF FinalMarks, finish_incremental_marking_impl
<1> HIDE DEF m, e
<1>2. /\ LayoutInv(m) /\ m.phase = "marking" /\ m.worklist = {}
      /\ EphemeronsKept(m, live) /\ OperandsMove(m, live)
  BY <1>1, FinalMarksReady
<1>3. StrongResolve(m) /\ StrongKept(m, live) /\ RootsKept(m, live)
  BY <1>1, FinalMarksKeepReferences
<1>4. LayoutInv(e) /\ e.phase = "marking" /\ e.worklist = {} /\ AtRest(e)
  <2> DEFINE major == "Major"
  <2>1. e = Evacuate(m, major) /\ live = {s \in Headers(m) : IsLive(m, {}, s, major)}
    BY <1>1
  <2> HIDE DEF major, live
  <2>2. LayoutInv(e) /\ e.phase = "marking" /\ e.worklist = {}
    BY <1>2, <2>1, EvacuateKeeps
  <2> QED BY <1>2, <1>3, <2>1, <2>2, EvacuateKeepsReferences
<1>5. SameButPhase(e, g) /\ g.phase = "idle" /\ g.worklist = {}
  <2>1. DOMAIN e = HeapFields
    BY <1>4 DEF LayoutInv, HeapIsTyped
  <2> QED BY <1>1, <1>4, <2>1 DEF HeapFields, SameButPhase
<1>6. LayoutInv(g) /\ SamePlaces(e, g)
  BY <1>4, <1>5, PhaseKeeps
<1> QED BY <1>4, <1>5, <1>6, PhaseKeepsReferences

(***************************************************************************)
(* The start of an incremental compaction.                                 *)
(***************************************************************************)
LEMMA RememberedAlike ==
  ASSUME NEW h, LayoutInv(h), NEW g, SamePlaces(h, g), g.remembered_set = h.remembered_set,
         \A s \in Headers(h) : /\ g.objects[s].strong = h.objects[s].strong
                               /\ g.objects[s].age = h.objects[s].age
  PROVE  validate_remembered_set(h) => validate_remembered_set(g)
<1>1. /\ Headers(g) = Headers(h) /\ HeapIsTyped(h)
      /\ \A v : checked_slot(g, v) = checked_slot(h, v) /\ (Resolves(g, v) <=> Resolves(h, v))
      /\ \A s \in Headers(h) : IdAt(g, s) = IdAt(h, s)
  BY SamePlacesResolve DEF LayoutInv, SamePlaces
<1>2. \A v \in Ids : Resolves(h, v) => checked_slot(h, v) \in Headers(h)
  BY ResolvedSlot
<1>3. \A s \in Headers(h) : visit_reference_fields(g.objects[s]) = visit_reference_fields(h.objects[s])
  BY DEF visit_reference_fields
<1>4. \A s \in Headers(h) : HasYoungReference(g, s) <=> HasYoungReference(h, s)
  <2> SUFFICES ASSUME NEW s \in Headers(h), NEW v \in visit_reference_fields(h.objects[s]), Resolves(h, v)
               PROVE  is_young_slot(g, checked_slot(g, v)) <=> is_young_slot(h, checked_slot(h, v))
    BY <1>1, <1>3 DEF HasYoungReference
  <2>1. checked_slot(h, v) \in Headers(h)
    BY <1>2, StrongFieldsAreIds
  <2> QED BY <1>1, <2>1 DEF is_young_slot
<1>5. \A id \in h.remembered_set : id \in Ids
  BY DEF LayoutInv, HeapIsTyped
<1> QED BY <1>1, <1>2, <1>4, <1>5 DEF validate_remembered_set, is_old_slot

LEMMA MarkKeepsRemembered ==
  ASSUME NEW h, LayoutInv(h), validate_remembered_set(h), NEW kind, NEW g, g = Mark(h, kind)
  PROVE  validate_remembered_set(g)
<1>1. PICK black \in SUBSET Headers(h) : MarkedAs(h, black, g)
  BY MarkEnds
<1> QED BY <1>1, RememberedAlike DEF MarkedAs, SameContents

LEMMA FinalMarksKeepRemembered ==
  ASSUME NEW h, LayoutInv(h), h.phase = "marking", validate_remembered_set(h),
         NEW g, g = FinalMarks(h)
  PROVE  validate_remembered_set(g)
<1> DEFINE u == Unmarked(h)
           m == Mark(u, "Major")
<1>1. u = Unmarked(h) /\ m = Mark(u, "Major") /\ g = [m EXCEPT !.worklist = {}]
  BY DEF FinalMarks, finish_incremental_marking_liveness
<1>2. u.remembered_set = h.remembered_set
  <2>1. DOMAIN h = HeapFields
    BY DEF LayoutInv, HeapIsTyped
  <2> QED BY <2>1 DEF Unmarked, HeapFields
<1> HIDE DEF u, m
<1>3. /\ LayoutInv(u) /\ Carries(h, u) /\ SamePlaces(h, u)
      /\ u.phase = h.phase /\ u.extra = h.extra /\ u.cells = h.cells
      /\ \A s \in Headers(h) : /\ SameContents(h.objects[s], u.objects[s])
                               /\ u.objects[s].age = h.objects[s].age
                               /\ u.objects[s].marked = FALSE
  <2>1. u = Unmarked(h)
    BY <1>1
  <2> QED BY ONLY LayoutInv(h), <2>1, UnmarkedKeeps
<1>4. validate_remembered_set(u)
  BY <1>2, <1>3, RememberedAlike DEF SameContents
<1>5. LayoutInv(m) /\ validate_remembered_set(m) /\ m.phase = "marking"
  <2> DEFINE major == "Major"
  <2>1. m = Mark(u, major)
    BY <1>1
  <2> HIDE DEF major
  <2> QED BY <1>3, <1>4, <2>1, MarkReady, MarkKeepsRemembered
<1>6. SameButPhase(m, g) /\ g.phase = "marking" /\ g.worklist = {}
  <2>1. DOMAIN m = HeapFields
    BY <1>5 DEF LayoutInv, HeapIsTyped
  <2> QED BY <1>1, <1>5, <2>1 DEF HeapFields, SameButPhase
<1>7. SamePlaces(m, g) /\ g.objects = m.objects /\ g.remembered_set = m.remembered_set
  BY <1>5, <1>6, PhaseKeeps DEF SameButPhase
<1> QED BY <1>5, <1>7, RememberedAlike

\* What is swept is referred to by nothing that is left.
LEMMA PrepareKeepsReferences ==
  ASSUME NEW h, LayoutInv(h), h.phase # "compacting", h.worklist = {},
         NEW live, live = {s \in Headers(h) : h.objects[s].marked}, EphemeronsKept(h, live),
         StrongResolve(h), StrongKept(h, live), RootsAreCurrent(h), RootsKept(h, live),
         validate_remembered_set(h),
         NEW g, g = prepare_incremental_compaction_from_marked(h)
  PROVE  AtRest(g)
<1>1. LayoutInv(g) /\ PreparedAs(h, live, g) /\ Headers(g) = live
  BY PrepareKeeps
<1>2. \A s \in live : /\ g.objects[s].strong = h.objects[s].strong
                      /\ g.objects[s].age = h.objects[s].age /\ g.objects[s].marked = FALSE
                      /\ s \in Headers(h) /\ s \in DOMAIN g.objects
  <2> SUFFICES ASSUME NEW s \in live
               PROVE  /\ g.objects[s].strong = h.objects[s].strong
                      /\ g.objects[s].age = h.objects[s].age /\ g.objects[s].marked = FALSE
                      /\ s \in DOMAIN g.objects
    OBVIOUS
  <2> DEFINE q == g.objects[s]
  <2>1. q = [h.objects[s] EXCEPT !.marked = FALSE, !.soft = ClearedSoft(h, h.objects[s])]
        /\ s \in DOMAIN g.objects
    BY <1>1 DEF PreparedAs, Headers
  <2> HIDE DEF q
  <2>2. ClearedAs(h, live, s, q)
    BY <2>1, ClearedKeeps
  <2> QED BY <2>1, <2>2 DEF q, ClearedAs
<1>3. \A v \in Ids : checked_slot(h, v) \in live => Physical(g, v) /\ slot_from(v) = checked_slot(h, v)
  <2> SUFFICES ASSUME NEW v \in Ids, checked_slot(h, v) \in live
               PROVE  Physical(g, v) /\ slot_from(v) = checked_slot(h, v)
    OBVIOUS
  <2>1. Physical(h, v) /\ slot_from(v) = checked_slot(h, v)
    <3>1. checked_slot(h, v) # NoSlot /\ is_object(v)
      BY HeaderIsObject, IdsAreReferences DEF LayoutInv
    <3>2. Physical(h, v)
      BY <3>1, StillResolves DEF Resolves
    <3> QED BY <3>2, PhysicalIsId
  <2>2. g.generations = h.generations
    BY <1>1 DEF PreparedAs
  <2> QED BY <1>1, <1>2, <2>1, <2>2 DEF Physical, Headers
<1>4. \A v \in Ids : checked_slot(h, v) \in live => Resolves(g, v) /\ checked_slot(g, v) = checked_slot(h, v)
  BY <1>1, <1>3, CurrentResolves
<1>5. ASSUME NEW s \in live, NEW v \in visit_reference_fields(g.objects[s])
      PROVE  v \in Ids /\ v \in visit_reference_fields(h.objects[s]) /\ checked_slot(h, v) \in live
  <2>1. v \in visit_reference_fields(h.objects[s])
    BY <1>2, <1>5 DEF visit_reference_fields
  <2> QED BY <1>2, <2>1, StrongFieldsAreIds DEF StrongKept
<1>6. StrongResolve(g) /\ MarksAreClear(g)
  BY <1>1, <1>2, <1>4, <1>5 DEF StrongResolve, MarksAreClear
<1>7. RootsAreCurrent(g)
  <2>1. g.cells = h.cells
    BY <1>1 DEF PreparedAs
  <2>2. \A c \in Registered : is_object(h.cells[c]) => h.cells[c] \in Ids
    BY RootCells
  <2> QED BY <1>3, <2>1, <2>2 DEF RootsAreCurrent, RootsKept, Registered
<1>8. \A s \in live : IdAt(g, s) = IdAt(h, s)
  BY <1>1 DEF PreparedAs, IdAt
<1>9. ASSUME NEW id \in g.remembered_set
      PROVE  Resolves(g, id) /\ is_old_slot(g, checked_slot(g, id))
  <2>1. id \in h.remembered_set /\ ObjectOf(h, id).marked /\ id \in Ids
    BY <1>1, <1>9 DEF PreparedAs, MarkedIds, LayoutInv, HeapIsTyped
  <2>2. Resolves(h, id) /\ is_old_slot(h, checked_slot(h, id))
    BY <2>1 DEF validate_remembered_set
  <2>3. checked_slot(h, id) \in live
    BY <2>1, <2>2, ResolvedSlot
  <2> QED BY <1>2, <1>4, <2>1, <2>2, <2>3 DEF is_old_slot
<1>10. ASSUME NEW s \in live, is_old_slot(g, s), HasYoungReference(g, s)
       PROVE  IdAt(g, s) \in g.remembered_set
  <2>1. PICK v \in visit_reference_fields(g.objects[s]) :
          Resolves(g, v) /\ is_young_slot(g, checked_slot(g, v))
    BY <1>10 DEF HasYoungReference
  <2>2. /\ v \in Ids /\ v \in visit_reference_fields(h.objects[s])
        /\ checked_slot(h, v) \in live /\ checked_slot(g, v) = checked_slot(h, v)
    BY <1>4, <1>5
  <2>3. Resolves(h, v) /\ is_young_slot(h, checked_slot(h, v))
    BY <1>2, <2>1, <2>2, StillResolves, ResolvedIsHeader DEF LayoutInv, is_young_slot
  <2>4. IdAt(h, s) \in h.remembered_set
    BY <1>2, <1>10, <2>2, <2>3 DEF validate_remembered_set, HasYoungReference, is_old_slot
  <2>5. ObjectOf(h, IdAt(h, s)).marked
    BY <1>2, IdOfBase DEF LayoutInv, ObjectOf
  <2> QED BY <1>1, <1>8, <2>4, <2>5 DEF PreparedAs, MarkedIds
<1> QED BY <1>1, <1>6, <1>7, <1>9, <1>10 DEF AtRest, validate_remembered_set

LEMMA StartCompactionKeepsReferences ==
  ASSUME NEW h, LayoutInv(h), h.phase = "idle", AtRest(h), NEW g, g = prepare_incremental_compaction(h)
  PROVE  AtRest(g)
<1> DEFINE major == "Major"
           m == Mark(h, major)
           live == {s \in Headers(m) : IsLive(m, {}, s, major)}
<1>1. m = Mark(h, major) /\ g = prepare_incremental_compaction_from_marked(m)
  BY DEF prepare_incremental_compaction
<1>2. live = {s \in Headers(m) : m.objects[s].marked} /\ major # "Minor"
  BY DEF IsLive
<1>3. live = {s \in Headers(m) : IsLive(m, {}, s, major)}
  OBVIOUS
<1> HIDE DEF major, m, live
<1>4. LayoutInv(m) /\ m.phase = h.phase /\ EphemeronsKept(m, live)
  BY <1>1, <1>3, MarkReady
<1>5. m.worklist = {} /\ m.phase # "compacting"
  BY <1>4 DEF LayoutInv, PhaseIsClean
<1>6. StrongResolve(m) /\ RootsAreCurrent(m) /\ StrongKept(m, live) /\ RootsKept(m, live)
  BY <1>1, <1>2, <1>3, MarkKeepsReferences DEF AtRest
<1>7. validate_remembered_set(m)
  BY <1>1, MarkKeepsRemembered DEF AtRest
<1> QED BY <1>1, <1>2, <1>4, <1>5, <1>6, <1>7, PrepareKeepsReferences

LEMMA MarkedToCompactionKeepsReferences ==
  ASSUME NEW h, LayoutInv(h), h.phase = "marking", StrongResolve(h), RootsAreCurrent(h),
         validate_remembered_set(h),
         NEW g, g = finish_incremental_marking_to_incremental_compaction(h)
  PROVE  AtRest(g)
<1> DEFINE m == FinalMarks(h)
           live == {s \in Headers(m) : IsLive(m, {}, s, "Major")}
<1>1. m = FinalMarks(h) /\ g = prepare_incremental_compaction_from_marked(m)
  BY DEF finish_incremental_marking_to_incremental_compaction, FinalMarks
<1>2. live = {s \in Headers(m) : m.objects[s].marked}
  BY DEF IsLive
<1>3. live = {s \in Headers(m) : IsLive(m, {}, s, "Major")}
  OBVIOUS
<1> HIDE DEF m, live
<1>4. LayoutInv(m) /\ m.phase = "marking" /\ m.worklist = {} /\ EphemeronsKept(m, live)
  BY <1>1, <1>3, FinalMarksReady
<1>5. StrongResolve(m) /\ RootsAreCurrent(m) /\ StrongKept(m, live) /\ RootsKept(m, live)
  BY <1>1, <1>3, FinalMarksKeepReferences
<1>6. validate_remembered_set(m)
  BY <1>1, FinalMarksKeepRemembered
<1> QED BY <1>1, <1>2, <1>4, <1>5, <1>6, PrepareKeepsReferences

(***************************************************************************)
(* Relocations.                                                            *)
(***************************************************************************)
\* The survivor of each entry, one relocation later.
RelocatedObjects(h, k, g) ==
  \A i \in DOMAIN h.plan :
    /\ i # k => g.objects[Base(g, i)] = h.objects[Base(h, i)]
    /\ g.objects[Base(g, k)] = Survivor(h.objects[Base(h, k)])

LEMMA RelocationObjects ==
  ASSUME NEW h, LayoutInv(h), h.phase = "compacting", h.cursor < Len(h.plan),
         NEW k, k = h.cursor + 1, NEW g, RelocatedAs(h, k, g), Relocated(h, g), EntryMoves(h, k, g)
  PROVE  RelocatedObjects(h, k, g)
<1>1. /\ HeapIsTyped(h) /\ RunsFollow(h) /\ PlanIsCurrent(h) /\ Named(h)
      /\ HeapIsTyped(g) /\ RunsFollow(g) /\ PlanIsCurrent(g) /\ g.plan = h.plan
  BY PlanNames DEF LayoutInv, PhaseIsClean, Relocated
<1>2. k \in DOMAIN h.plan /\ Base(h, k) = Source(h, k) /\ Base(g, k) = Destination(h, k)
  BY DEF EntryMoves
<1>3. \A i \in DOMAIN h.plan : Base(h, i) \in Headers(h) /\ Base(h, i) \in DOMAIN h.objects
  BY <1>1 DEF Named, Headers
<1>4. Destination(h, k) \in DOMAIN h.objects
  <2>1. 0 <= Destination(h, k) /\ Destination(h, k) <= Source(h, k)
    BY <1>1, <1>2 DEF PlanIsCurrent, PlanSlides
  <2>2. Source(h, k) \in 0 .. Size(h) - 1 /\ Size(h) \in Nat /\ DOMAIN h.objects = 0 .. Size(h) - 1
    BY <1>1, <1>2, <1>3, HeaderIsObject
  <2>3. Destination(h, k) \in Int
    BY <1>1, <1>2, PlanEntry
  <2> QED BY <2>1, <2>2, <2>3
<1>5. g.objects = [s \in DOMAIN h.objects |->
                     IF s = Destination(h, k) THEN Survivor(h.objects[Source(h, k)])
                     ELSE IF s = Source(h, k) THEN None ELSE h.objects[s]]
  BY DEF RelocatedAs
<1>6. g.objects[Base(g, k)] = Survivor(h.objects[Base(h, k)])
  BY <1>2, <1>4, <1>5
<1>7. ASSUME NEW i \in DOMAIN h.plan, i # k PROVE g.objects[Base(g, i)] = h.objects[Base(h, i)]
  <2>1. Base(g, i) = Base(h, i)
    <3>1. i \in Nat /\ h.cursor \in Nat /\ g.cursor = h.cursor + 1
      BY <1>1, PlanEntry DEF RelocatedAs
    <3> QED BY <1>1, <1>7, <3>1 DEF Base, Source, Destination
  <2>2. Base(h, i) # Base(h, k) /\ Base(g, i) # Base(g, k)
    BY <1>1, <1>2, <1>7, SourcesDiffer
  <2> QED BY <1>2, <1>3, <1>5, <2>1, <2>2
<1> QED BY <1>6, <1>7 DEF RelocatedObjects

\* What names an entry goes on naming it.
LEMMA RelocationNames ==
  ASSUME NEW h, LayoutInv(h), h.phase = "compacting", h.cursor < Len(h.plan),
         NEW k, k = h.cursor + 1, NEW g, g.cursor = k, g.plan = h.plan, EntryMoves(h, k, g),
         NEW i \in DOMAIN h.plan, NEW v, NamesEntry(h, i, v)
  PROVE  NamesEntry(g, i, v)
<1>1. i \in Nat /\ h.cursor \in Nat
  BY PlanEntry DEF LayoutInv
<1>2. v = Name(h, i) => NamesEntry(g, i, v)
  <2>1. CASE i = k
    BY <1>1, <2>1 DEF EntryMoves, NamesEntry
  <2>2. CASE i # k
    BY <2>2 DEF EntryMoves, NamesEntry
  <2> QED BY <2>1, <2>2
<1> QED BY <1>1, <1>2 DEF NamesEntry

LEMMA RelocateKeepsReferences ==
  ASSUME NEW h, LayoutInv(h), h.phase = "compacting", h.cursor < Len(h.plan), AtRest(h),
         NEW g, g = RelocateNext(h)
  PROVE  AtRest(g)
<1> DEFINE k == h.cursor + 1
<1>1. /\ HeapIsTyped(h) /\ RunsFollow(h) /\ PlanIsCurrent(h) /\ Named(h) /\ DOMAIN h = HeapFields
  BY PlanNames DEF LayoutInv, PhaseIsClean, HeapIsTyped
<1>2. k = h.cursor + 1
  OBVIOUS
<1> HIDE DEF k
<1>3. RelocatedAs(h, k, g) /\ EdgesRecorded(h, k, g) /\ g.cursor = k /\ g.plan = h.plan
  BY <1>1, <1>2, RelocatedIs DEF RelocatedAs
<1>4. Relocated(h, g) /\ EntryMoves(h, k, g)
  BY <1>2, <1>3, RelocationPlaces
<1>5. RelocatedObjects(h, k, g)
  BY <1>2, <1>3, <1>4, RelocationObjects
<1>6. /\ HeapIsTyped(g) /\ RunsFollow(g) /\ PlanIsCurrent(g) /\ Named(g)
      /\ Headers(g) = {Base(g, i) : i \in DOMAIN h.plan}
  BY <1>3, <1>4, PlanNames DEF Relocated, PlanIsCurrent
<1>7. /\ k \in DOMAIN h.plan
      /\ Base(h, k) = Source(h, k) /\ Name(h, k) = h.plan[k].source_id
      /\ Base(g, k) = Destination(h, k) /\ Name(g, k) = h.plan[k].destination_id
      /\ \A i \in DOMAIN h.plan : i # k => Name(g, i) = Name(h, i) /\ Name(h, i) # Name(h, k)
  BY <1>4 DEF EntryMoves
<1>8. \A i \in DOMAIN h.plan : /\ Base(h, i) \in Headers(h) /\ h.objects[Base(h, i)] \in Objects
                               /\ IdAt(h, Base(h, i)) = Name(h, i) /\ IdAt(g, Base(g, i)) = Name(g, i)
                               /\ Name(g, i) \in Ids /\ Name(h, i) \in Ids
  BY <1>1, <1>3, <1>6, HeaderIsObject DEF Named
<1>9. \A i \in DOMAIN h.plan :
         /\ visit_reference_fields(g.objects[Base(g, i)]) = visit_reference_fields(h.objects[Base(h, i)])
         /\ h.objects[Base(h, i)].age = "Old" => g.objects[Base(g, i)].age = "Old"
         /\ g.objects[Base(g, i)].age = "Young" => h.objects[Base(h, i)].age = "Young"
         /\ ~h.objects[Base(h, i)].marked => ~g.objects[Base(g, i)].marked
  <2> SUFFICES ASSUME NEW i \in DOMAIN h.plan
      PROVE  /\ visit_reference_fields(g.objects[Base(g, i)]) = visit_reference_fields(h.objects[Base(h, i)])
             /\ h.objects[Base(h, i)].age = "Old" => g.objects[Base(g, i)].age = "Old"
             /\ g.objects[Base(g, i)].age = "Young" => h.objects[Base(h, i)].age = "Young"
             /\ ~h.objects[Base(h, i)].marked => ~g.objects[Base(g, i)].marked
    OBVIOUS
  <2>1. CASE i = k
    <3> DEFINE o == h.objects[Base(h, k)]
               q == g.objects[Base(g, k)]
    <3>1. o \in Objects /\ q = Survivor(o)
      BY <1>5, <1>7, <1>8 DEF RelocatedObjects
    <3> HIDE DEF o, q
    <3>2. SameContents(o, q) /\ q.age = "Old" /\ q.marked = FALSE
      BY <3>1, SurvivorKeeps
    <3>3. visit_reference_fields(q) = visit_reference_fields(o)
      BY <3>2, SameContentsAgree
    <3> QED BY <2>1, <3>2, <3>3 DEF o, q
  <2>2. CASE i # k
    BY <1>5, <2>2 DEF RelocatedObjects
  <2> QED BY <2>1, <2>2
<1>10. ASSUME NEW v \in Ids, Resolves(h, v)
       PROVE  \E i \in DOMAIN h.plan :
                /\ NamesEntry(h, i, v) /\ checked_slot(h, v) = Base(h, i)
                /\ checked_slot(g, v) = Base(g, i) /\ Resolves(g, v)
                /\ canonicalize_incremental_compaction_read(g, v) = Name(g, i)
  <2>1. PICK i \in DOMAIN h.plan : NamesEntry(h, i, v)
    BY <1>1, <1>10 DEF Named
  <2>2. NamesEntry(g, i, v)
    BY <1>2, <1>3, <1>4, <2>1, RelocationNames
  <2> QED BY <1>1, <1>3, <1>6, <2>1, <2>2 DEF Named
<1>11. StrongResolve(g)
  <2> SUFFICES ASSUME NEW i \in DOMAIN h.plan, NEW v \in visit_reference_fields(h.objects[Base(h, i)])
               PROVE  Resolves(g, v)
    BY <1>6, <1>9 DEF StrongResolve
  <2>1. v \in Ids /\ Resolves(h, v)
    BY <1>8, StrongFieldsAreIds DEF AtRest, StrongResolve
  <2> QED BY <1>10, <2>1
<1>12. RootsAreCurrent(g)
  <2> SUFFICES ASSUME NEW c \in Registered, is_object(g.cells[c])
               PROVE  Physical(g, g.cells[c])
    BY DEF RootsAreCurrent, Registered
  <2> DEFINE v == h.cells[c]
             w == g.cells[c]
  <2>1. v \in Values /\ c \in Cells /\ (is_object(v) => v \in Ids)
    BY RootCells
  <2>2. w = canonicalize_incremental_compaction_read(g, v)
    BY <1>3, <2>1 DEF RelocatedAs, Registered
  <2>3. is_object(v) => Physical(h, v)
    BY DEF AtRest, RootsAreCurrent, Registered
  <2>4. is_object(w)
    OBVIOUS
  <2> HIDE DEF v, w
  <2>5. is_object(v)
    BY <1>6, <2>1, <2>2, <2>4, CanonicalIsValue
  <2>6. v \in Ids /\ Resolves(h, v)
    BY <2>1, <2>3, <2>5, CurrentResolves
  <2>7. PICK i \in DOMAIN h.plan : w = Name(g, i)
    BY <1>10, <2>2, <2>6
  <2>8. w = IdAt(g, Base(g, i)) /\ Base(g, i) \in Headers(g)
    BY <1>6, <1>8, <2>7
  <2>9. Physical(g, w)
    BY <1>6, <2>8, IdOfBase
  <2> QED BY <2>9 DEF w
<1>13. MarksAreClear(g)
  BY <1>6, <1>8, <1>9 DEF AtRest, MarksAreClear
<1>14. ASSUME NEW id \in g.remembered_set
       PROVE  Resolves(g, id) /\ is_old_slot(g, checked_slot(g, id))
  <2>1. /\ Resolves(g, Name(g, k)) /\ checked_slot(g, Name(g, k)) = Base(g, k)
        /\ is_old_slot(g, Base(g, k))
    <3>1. NamesEntry(g, k, Name(g, k))
      BY DEF NamesEntry
    <3>2. Resolves(g, Name(g, k)) /\ checked_slot(g, Name(g, k)) = Base(g, k)
      BY <1>3, <1>6, <1>7, <1>8, <3>1 DEF Named
    <3>3. g.objects[Base(g, k)] = Survivor(h.objects[Base(h, k)])
      BY <1>5, <1>7 DEF RelocatedObjects
    <3>4. g.objects[Base(g, k)].age = "Old"
      BY <1>7, <1>8, <3>3, SurvivorKeeps
    <3> QED BY <3>2, <3>4 DEF is_old_slot
  <2>2. CASE id = IdAt(g, Destination(h, k))
    BY <1>7, <1>8, <2>1, <2>2
  <2>3. CASE id \in ForwardedOwners(h, k, h.remembered_set)
    <3>1. PICK v \in h.remembered_set :
            id = IF v = h.plan[k].source_id THEN h.plan[k].destination_id ELSE v
      BY <2>3 DEF ForwardedOwners
    <3>2. CASE v = h.plan[k].source_id
      BY <1>7, <2>1, <3>1, <3>2
    <3>3. CASE v # h.plan[k].source_id
      <4>1. v \in Ids /\ Resolves(h, v) /\ is_old_slot(h, checked_slot(h, v)) /\ id = v
        BY <1>1, <3>1, <3>3 DEF HeapIsTyped, AtRest, validate_remembered_set
      <4> QED BY <1>9, <1>10, <4>1 DEF is_old_slot
    <3> QED BY <3>2, <3>3
  <2> QED BY <1>3, <2>2, <2>3 DEF RelocatedAs
<1>15. ASSUME NEW i \in DOMAIN h.plan, is_old_slot(g, Base(g, i)), HasYoungReference(g, Base(g, i))
       PROVE  Name(g, i) \in g.remembered_set
  <2>1. PICK v \in visit_reference_fields(g.objects[Base(g, i)]) :
          Resolves(g, v) /\ is_young_slot(g, checked_slot(g, v))
    BY <1>15 DEF HasYoungReference
  <2>2. v \in visit_reference_fields(h.objects[Base(h, i)]) /\ v \in Ids /\ Resolves(h, v)
    BY <1>8, <1>9, <2>1, StrongFieldsAreIds DEF AtRest, StrongResolve
  <2>3. is_young_slot(h, checked_slot(h, v))
    BY <1>9, <1>10, <2>1, <2>2 DEF is_young_slot
  <2>4. HasYoungReference(h, Base(h, i))
    BY <2>2, <2>3 DEF HasYoungReference
  <2>5. is_old_slot(h, Base(h, i)) => Name(h, i) \in h.remembered_set
    BY <1>8, <2>4 DEF AtRest, validate_remembered_set
  <2>6. ForwardedOwners(h, k, h.remembered_set) \subseteq g.remembered_set
    BY <1>3 DEF RelocatedAs
  <2>7. is_old_slot(h, Base(h, i)) => Name(g, i) \in g.remembered_set
    BY <1>7, <2>5, <2>6 DEF ForwardedOwners
  <2>8. CASE i # k
    BY <1>5, <1>15, <2>7, <2>8 DEF RelocatedObjects, is_old_slot
  <2>9. CASE i = k
    <3>1. is_old_slot(h, Base(h, i)) \/ h.objects[Source(h, k)].age = "Young"
      BY <1>7, <1>8, <2>9, ObjectFields DEF is_old_slot
    <3> QED BY <1>3, <1>7, <1>8, <1>15, <2>7, <2>9, <3>1 DEF EdgesRecorded
  <2> QED BY <2>8, <2>9
<1>16. validate_remembered_set(g)
  BY <1>6, <1>8, <1>14, <1>15 DEF validate_remembered_set
<1> QED BY <1>11, <1>12, <1>13, <1>16 DEF AtRest

LEMMA RelocateAllKeepsReferences ==
  ASSUME NEW h, LayoutInv(h), h.phase = "compacting", AtRest(h), NEW g, g = RelocateAll(h)
  PROVE  AtRest(g)
<1> DEFINE a == h.cursor
           n == Len(h.plan)
           after == CHOOSE f : RelocatesUpTo(h, n, f)
<1>1. g = after[n]
  BY DEF RelocateAll, RelocatesUpTo
<1>2. n \in Nat /\ a \in 0 .. n
  <2>1. h.plan \in Seq(Relocations) /\ a \in 0 .. n
    BY DEF LayoutInv, HeapIsTyped
  <2> HIDE DEF Relocations
  <2> QED BY <2>1
<1>3. RelocatesUpTo(h, n, after)
  BY <1>2, RelocationsExist
<1> HIDE DEF after
<1> DEFINE Going(m) == LayoutInv(m) /\ m.phase = "compacting" /\ m.plan = h.plan /\ AtRest(m)
           T == {k \in 0 .. n - a : Going(after[a + k]) /\ after[a + k].cursor = a + k}
<1>4. 0 \in T
  <2>1. after[a + 0] = h
    BY <1>2, <1>3 DEF RelocatesUpTo
  <2> QED BY <1>2, <2>1
<1>5. ASSUME NEW k \in 0 .. n - a, k < n - a, k \in T PROVE k + 1 \in T
  <2> DEFINE m == after[a + k]
             p == after[a + (k + 1)]
  <2>1. Going(m) /\ m.cursor = a + k /\ a + k < n
    BY <1>2, <1>5
  <2>2. p = RelocateNext(m)
    <3>1. a + (k + 1) \in a .. n /\ a + (k + 1) # a /\ (a + (k + 1)) - 1 = a + k
      BY <1>2, <1>5
    <3> QED BY <1>3, <3>1 DEF RelocatesUpTo
  <2> HIDE DEF m, p
  <2>3. LayoutInv(m) /\ m.phase = "compacting" /\ m.plan = h.plan /\ m.cursor < Len(m.plan) /\ AtRest(m)
    BY <2>1
  <2>4. /\ LayoutInv(p) /\ Carries(m, p) /\ KeepsTexts(m, p)
        /\ p.phase = "compacting" /\ p.plan = m.plan /\ p.cursor = m.cursor + 1
    BY <2>2, <2>3, RelocateKeeps
  <2>5. AtRest(p)
    BY <2>2, <2>3, RelocateKeepsReferences
  <2>6. p.cursor = a + (k + 1) /\ k + 1 \in 0 .. n - a
    BY <1>2, <1>5, <2>1, <2>4
  <2> QED BY <2>3, <2>4, <2>5, <2>6 DEF p
<1>6. n - a \in T
  <2>1. n - a \in Nat
    BY <1>2
  <2> HIDE DEF T, a, n
  <2> QED BY <1>4, <1>5, <2>1, CountingUp
<1>7. a + (n - a) = n
  BY <1>2
<1> QED BY <1>1, <1>6, <1>7

\* At the end of the cycle every reference is a current id again.
LEMMA FinalizeKeepsReferences ==
  ASSUME NEW h, LayoutInv(h), h.phase = "compacting", h.cursor = Len(h.plan), AtRest(h),
         NEW g, g = finalize_incremental_compaction(h)
  PROVE  AtRest(g)
<1>1. /\ HeapIsTyped(h) /\ RunsFollow(h) /\ PlanIsCurrent(h) /\ Named(h) /\ DOMAIN h = HeapFields
      /\ LayoutInv(g) /\ g.phase = "idle" /\ Headers(h) \subseteq DOMAIN h.objects
  BY PlanNames, FinalizeKeeps DEF LayoutInv, PhaseIsClean, HeapIsTyped, Headers
<1>2. PICK ids : FinalizedAs(h, ids, g)
  BY <1>1, FinalizedIs
<1>3. g.generations = h.generations /\ EdgesFound(g)
  BY <1>2 DEF FinalizedAs
<1>4. /\ DOMAIN g.objects = DOMAIN h.objects
      /\ \A s \in DOMAIN h.objects :
           g.objects[s] = IF h.objects[s] = None THEN None ELSE CanonicalFields(h, h.objects[s])
  BY <1>2 DEF FinalizedAs, CanonicalObjects
<1>5. ASSUME NEW s \in Headers(h) PROVE CanonicalAs(h, h.objects[s], g.objects[s])
  <2> DEFINE o == h.objects[s]
             q == g.objects[s]
  <2>1. o \in Objects /\ validate_descriptor_shape(o) /\ q = CanonicalFields(h, o)
    BY <1>1, <1>4, HeaderIsObject DEF RunsFollow, Headers
  <2> HIDE DEF o, q
  <2>2. CanonicalAs(h, o, q)
    BY <1>1, <2>1, CanonicalFieldsKeep
  <2> QED BY <2>2 DEF o, q
<1>6. Headers(g) = Headers(h)
  <2>1. \A s \in Headers(h) : g.objects[s] # None
    BY <1>5, NoneAssumption DEF CanonicalAs
  <2> QED BY <1>4, <2>1 DEF Headers
<1>7. ASSUME NEW v \in Ids, Resolves(h, v), NEW w, w = canonicalize_incremental_compaction_read(h, v)
      PROVE  Physical(g, w) /\ Resolves(g, w)
  <2>1. PICK i \in DOMAIN h.plan : w = Name(h, i) /\ w \in Ids /\ w = IdAt(h, Base(h, i))
                                   /\ Base(h, i) \in Headers(h)
    BY <1>1, <1>7 DEF Named
  <2>2. Physical(h, w)
    BY <1>1, <2>1, IdOfBase
  <2>3. Physical(g, w)
    BY <1>3, <1>4, <1>6, <2>2 DEF Physical, Headers
  <2> QED BY <1>1, <2>1, <2>3, CurrentResolves
<1>8. StrongResolve(g)
  <2> SUFFICES ASSUME NEW s \in Headers(h), NEW w \in visit_reference_fields(g.objects[s])
               PROVE  Resolves(g, w)
    BY <1>6 DEF StrongResolve
  <2>1. PICK v \in visit_reference_fields(h.objects[s]) :
          v \in Ids /\ w = canonicalize_incremental_compaction_read(h, v)
    BY <1>5 DEF CanonicalAs
  <2>2. Resolves(h, v)
    BY <2>1 DEF AtRest, StrongResolve
  <2> QED BY <1>7, <2>1, <2>2
<1>9. RootsAreCurrent(g)
  <2> SUFFICES ASSUME NEW c \in Registered, is_object(g.cells[c])
               PROVE  Physical(g, g.cells[c])
    BY DEF RootsAreCurrent, Registered
  <2> DEFINE v == h.cells[c]
             w == g.cells[c]
  <2>1. v \in Values /\ c \in Cells /\ (is_object(v) => v \in Ids)
    BY RootCells
  <2>2. w = canonicalize_incremental_compaction_read(h, v)
    BY <1>2, <2>1 DEF FinalizedAs, Registered
  <2>3. is_object(v) => Physical(h, v)
    BY DEF AtRest, RootsAreCurrent, Registered
  <2>4. is_object(w)
    OBVIOUS
  <2> HIDE DEF v, w
  <2>5. is_object(v)
    BY <1>1, <2>1, <2>2, <2>4, CanonicalIsValue
  <2>6. v \in Ids /\ Resolves(h, v)
    BY <2>1, <2>3, <2>5, CurrentResolves
  <2>7. Physical(g, w)
    BY <1>7, <2>2, <2>6
  <2> QED BY <2>7 DEF w
<1>10. MarksAreClear(g)
  BY <1>5, <1>6 DEF AtRest, MarksAreClear, CanonicalAs
<1>11. validate_remembered_set(g)
  <2>1. \A s \in Headers(g) : Resolves(g, IdAt(g, s)) /\ checked_slot(g, IdAt(g, s)) = s
    BY <1>1, IdOfBase DEF LayoutInv
  <2> QED BY <1>3, <2>1 DEF EdgesFound, validate_remembered_set
<1> QED BY <1>8, <1>9, <1>10, <1>11 DEF AtRest

LEMMA FinishCompactionKeepsReferences ==
  ASSUME NEW h, LayoutInv(h), h.phase = "compacting", AtRest(h),
         NEW g, g = finish_incremental_compaction_impl(h)
  PROVE  AtRest(g)
<1> DEFINE m == RelocateAll(h)
<1>1. m = RelocateAll(h) /\ g = finalize_incremental_compaction(m)
  BY DEF finish_incremental_compaction_impl
<1> HIDE DEF m
<1>2. Onward(h, m) /\ m.cursor = Len(m.plan) /\ AtRest(m)
  BY <1>1, RelocateAllKeeps, RelocateAllKeepsReferences
<1>3. LayoutInv(m) /\ m.phase = "compacting"
  BY <1>2 DEF Onward
<1> QED BY <1>1, <1>2, <1>3, FinalizeKeepsReferences

(***************************************************************************)
(* Collections that finish the active cycle first.                         *)
(***************************************************************************)
LEMMA ReferencesByPhase ==
  ASSUME NEW h, ReferenceInv(h)
  PROVE  /\ StrongResolve(h) /\ RootsAreCurrent(h) /\ validate_remembered_set(h)
         /\ h.phase # "marking" => AtRest(h)
         /\ h.phase = "marking" => MarksAreSafe(h)
BY DEF ReferenceInv, AtRest, MarksAreSafe

LEMMA CompactionFinishedKeepsReferences ==
  ASSUME NEW h, LayoutInv(h), ReferenceInv(h), NEW g, g = CompactionFinished(h)
  PROVE  ReferenceInv(g)
<1>1. CASE h.phase = "compacting"
  <2>1. g = finish_incremental_compaction_impl(h) /\ AtRest(h)
    BY <1>1, ReferencesByPhase DEF CompactionFinished
  <2>2. AtRest(g) /\ g.phase = "idle"
    BY <1>1, <2>1, FinishCompactionKeepsReferences, FinishCompactionKeeps
  <2>3. g.phase # "marking"
    BY <2>2
  <2> QED BY <2>2, <2>3, AtRestIsSound
<1>2. CASE h.phase # "compacting"
  BY <1>2 DEF CompactionFinished
<1> QED BY <1>1, <1>2

LEMMA CollectKeepsReferences ==
  ASSUME NEW h, LayoutInv(h), ReferenceInv(h), NEW kind, NEW g, g = collect_impl(h, kind)
  PROVE  AtRest(g) /\ ReferenceInv(g)
<1> DEFINE done == CompactionFinished(h)
           still == FinishActiveCycle(h)
<1>1. done = CompactionFinished(h) /\ still = FinishActiveCycle(h) /\ g = Evacuate(Mark(still, kind), kind)
  BY DEF collect_impl
<1>2. still = IF done.phase = "marking" THEN finish_incremental_marking_impl(done) ELSE done
  BY DEF FinishActiveCycle, CompactionFinished
<1> HIDE DEF still, done
<1>3. LayoutInv(done) /\ ReferenceInv(done)
  BY <1>1, CompactionFinishedKeeps, CompactionFinishedKeepsReferences
<1>4. LayoutInv(still) /\ still.phase = "idle"
  BY <1>1, FinishActiveCycleKeeps
<1>5. AtRest(still)
  <2>1. CASE done.phase = "marking"
    <3>1. StrongResolve(done) /\ RootsAreCurrent(done) /\ still = finish_incremental_marking_impl(done)
      BY <1>2, <1>3, <2>1, ReferencesByPhase
    <3> QED BY <1>3, <2>1, <3>1, FinishMarkingKeepsReferences
  <2>2. CASE done.phase # "marking"
    BY <1>2, <1>3, <2>2, ReferencesByPhase
  <2> QED BY <2>1, <2>2
<1>6. AtRest(g)
  BY <1>1, <1>4, <1>5, CollectedKeepsReferences
<1>7. g.phase = "idle"
  BY CollectKeeps
<1>8. g.phase # "marking"
  BY <1>7
<1> QED BY <1>6, <1>8, AtRestIsSound

(***************************************************************************)
(* Overwriting.                                                            *)
(***************************************************************************)
\* The store of v in the object at s that g has more than h is known to the
\* remembered set and to the marker.
PublishedIn(h, g, s, v) ==
  /\ Resolves(h, v)
  /\ is_old_slot(h, s) /\ is_young_slot(h, checked_slot(h, v)) => IdAt(h, s) \in g.remembered_set
  /\ h.phase = "marking" /\ h.objects[s].marked => ObjectOf(h, v).marked \/ v \in g.worklist

\* Every object of h is in g, with references that it had or that were
\* published.
RefOverwrites(h, g) ==
  /\ SamePlaces(h, g) /\ g.phase = h.phase /\ g.cells = h.cells
  /\ \A s \in Headers(h) :
       /\ g.objects[s].age = h.objects[s].age /\ g.objects[s].marked = h.objects[s].marked
       /\ \A v \in visit_reference_fields(g.objects[s]) :
            v \in visit_reference_fields(h.objects[s]) \/ PublishedIn(h, g, s, v)
  /\ h.remembered_set \subseteq g.remembered_set
  /\ \A id \in g.remembered_set : Resolves(h, id) /\ is_old_slot(h, checked_slot(h, id))
  /\ h.worklist \subseteq g.worklist
  /\ h.phase = "marking" => \A id \in g.worklist : Physical(h, id)

LEMMA OverwritesKeepReferences ==
  ASSUME NEW h, LayoutInv(h), ReferenceInv(h), NEW g, LayoutInv(g), RefOverwrites(h, g)
  PROVE  ReferenceInv(g)
<1>1. /\ HeapIsTyped(h) /\ HeapIsTyped(g) /\ Headers(g) = Headers(h) /\ g.phase = h.phase /\ g.cells = h.cells
      /\ \A s \in Headers(h) : g.generations[s] = h.generations[s]
  BY DEF RefOverwrites, SamePlaces, LayoutInv
<1>2. /\ \A v : checked_slot(g, v) = checked_slot(h, v) /\ (Resolves(g, v) <=> Resolves(h, v))
      /\ \A s \in Headers(h) : IdAt(g, s) = IdAt(h, s)
  BY <1>1, SamePlacesResolve DEF RefOverwrites
<1>3. \A v \in Ids : Physical(h, v) => Physical(g, v)
  BY <1>1 DEF Physical, Headers
<1>4. \A s \in Headers(h) : \A v \in visit_reference_fields(g.objects[s]) :
        /\ Resolves(h, v) /\ checked_slot(h, v) \in Headers(h)
        /\ ObjectOf(g, v).marked = ObjectOf(h, v).marked
        /\ is_young_slot(g, checked_slot(h, v)) <=> is_young_slot(h, checked_slot(h, v))
  <2> SUFFICES ASSUME NEW s \in Headers(h), NEW v \in visit_reference_fields(g.objects[s])
               PROVE  /\ Resolves(h, v) /\ checked_slot(h, v) \in Headers(h)
                      /\ ObjectOf(g, v).marked = ObjectOf(h, v).marked
                      /\ is_young_slot(g, checked_slot(h, v)) <=> is_young_slot(h, checked_slot(h, v))
    OBVIOUS
  <2>1. v \in Ids
    BY <1>1, StrongFieldsAreIds
  <2>2. Resolves(h, v)
    BY DEF RefOverwrites, PublishedIn, ReferenceInv, StrongResolve
  <2>3. checked_slot(h, v) \in Headers(h)
    BY <2>1, <2>2, ResolvedSlot
  <2>4. /\ g.objects[checked_slot(h, v)].age = h.objects[checked_slot(h, v)].age
        /\ g.objects[checked_slot(h, v)].marked = h.objects[checked_slot(h, v)].marked
    BY <2>3 DEF RefOverwrites
  <2> QED BY <1>2, <2>2, <2>3, <2>4 DEF ObjectOf, is_young_slot
<1>5. StrongResolve(g)
  BY <1>1, <1>2, <1>4 DEF StrongResolve
<1>6. RootsAreCurrent(g)
  <2> SUFFICES ASSUME NEW c \in Registered, is_object(h.cells[c])
               PROVE  Physical(g, h.cells[c])
    BY <1>1 DEF RootsAreCurrent, Registered
  <2>1. h.cells[c] \in Ids /\ Physical(h, h.cells[c])
    BY RootCells DEF ReferenceInv, RootsAreCurrent, Registered
  <2> QED BY <1>3, <2>1
<1>7. MarksAreSafe(g)
  <2>1. CASE h.phase = "marking"
    <3>1. validate_incremental_marking(g)
      <4> SUFFICES ASSUME NEW s \in Headers(h), g.objects[s].marked,
                          NEW v \in visit_reference_fields(g.objects[s])
                   PROVE  ObjectOf(g, v).marked \/ v \in g.worklist
        BY <1>1 DEF validate_incremental_marking
      <4>1. h.objects[s].marked /\ ObjectOf(g, v).marked = ObjectOf(h, v).marked
        BY <1>4 DEF RefOverwrites
      <4>2. CASE v \in visit_reference_fields(h.objects[s])
        BY <2>1, <4>1, <4>2 DEF ReferenceInv, MarksAreSafe, validate_incremental_marking, RefOverwrites
      <4>3. CASE v \notin visit_reference_fields(h.objects[s])
        BY <2>1, <4>1, <4>3 DEF RefOverwrites, PublishedIn
      <4> QED BY <4>2, <4>3
    <3>2. \A id \in g.worklist : Physical(g, id)
      <4>1. g.worklist \subseteq Ids
        BY <1>1 DEF HeapIsTyped
      <4> QED BY <1>3, <2>1, <4>1 DEF RefOverwrites
    <3> QED BY <1>1, <2>1, <3>1, <3>2 DEF MarksAreSafe
  <2>2. CASE h.phase # "marking"
    BY <1>1, <2>2 DEF ReferenceInv, MarksAreSafe, MarksAreClear, RefOverwrites
  <2> QED BY <2>1, <2>2
<1>8. validate_remembered_set(g)
  <2>1. ASSUME NEW id \in g.remembered_set
        PROVE  Resolves(g, id) /\ is_old_slot(g, checked_slot(g, id))
    <3>1. id \in Ids
      BY <1>1 DEF HeapIsTyped
    <3>2. Resolves(h, id) /\ is_old_slot(h, checked_slot(h, id))
      BY DEF RefOverwrites
    <3>3. checked_slot(h, id) \in Headers(h)
      BY <3>1, <3>2, ResolvedSlot
    <3>4. g.objects[checked_slot(h, id)].age = h.objects[checked_slot(h, id)].age
      BY <3>3 DEF RefOverwrites
    <3> QED BY <1>2, <3>2, <3>4 DEF is_old_slot
  <2>2. ASSUME NEW s \in Headers(h), is_old_slot(g, s), HasYoungReference(g, s)
        PROVE  IdAt(g, s) \in g.remembered_set
    <3>1. PICK v \in visit_reference_fields(g.objects[s]) : is_young_slot(g, checked_slot(g, v))
      BY <2>2 DEF HasYoungReference
    <3>2. is_old_slot(h, s) /\ Resolves(h, v) /\ is_young_slot(h, checked_slot(h, v))
      <4>1. is_old_slot(h, s)
        BY <2>2 DEF RefOverwrites, is_old_slot
      <4> QED BY <1>2, <1>4, <3>1, <4>1
    <3>3. CASE v \in visit_reference_fields(h.objects[s])
      <4>1. HasYoungReference(h, s)
        BY <3>2, <3>3 DEF HasYoungReference
      <4>2. IdAt(h, s) \in h.remembered_set
        BY <3>2, <4>1 DEF ReferenceInv, validate_remembered_set
      <4> QED BY <1>2, <4>2 DEF RefOverwrites
    <3>4. CASE v \notin visit_reference_fields(h.objects[s])
      BY <1>2, <3>2, <3>4 DEF RefOverwrites, PublishedIn
    <3> QED BY <3>3, <3>4
  <2> QED BY <1>1, <2>1, <2>2 DEF validate_remembered_set
<1> QED BY <1>5, <1>6, <1>7, <1>8 DEF ReferenceInv

\* The registries and the operands of a heap say nothing about references.
SameReferencesAs(h, g) ==
  /\ SamePlaces(h, g) /\ g.phase = h.phase /\ g.cells = h.cells
  /\ g.remembered_set = h.remembered_set /\ g.worklist = h.worklist
  /\ \A s \in Headers(h) : /\ g.objects[s].age = h.objects[s].age
                           /\ g.objects[s].marked = h.objects[s].marked
                           /\ g.objects[s].strong = h.objects[s].strong

LEMMA SameReferencesKeep ==
  ASSUME NEW h, LayoutInv(h), ReferenceInv(h), NEW g, LayoutInv(g), SameReferencesAs(h, g)
  PROVE  ReferenceInv(g)
<1>1. \A id \in h.remembered_set : Resolves(h, id) /\ is_old_slot(h, checked_slot(h, id))
  BY DEF ReferenceInv, validate_remembered_set
<1>2. h.phase = "marking" => \A id \in h.worklist : Physical(h, id)
  BY DEF ReferenceInv, MarksAreSafe
<1>3. \A s \in Headers(h) : visit_reference_fields(g.objects[s]) = visit_reference_fields(h.objects[s])
  BY DEF SameReferencesAs, visit_reference_fields
<1>4. RefOverwrites(h, g)
  BY <1>1, <1>2, <1>3 DEF RefOverwrites, SameReferencesAs
<1> QED BY <1>4, OverwritesKeepReferences

LEMMA ResizedKeepsReferences ==
  ASSUME NEW h, LayoutInv(h), ReferenceInv(h), NEW n \in Nat, Size(h) <= n, NEW g, ResizedAs(h, n, g)
  PROVE  ReferenceInv(g)
<1>1. /\ LayoutInv(g) /\ SamePlaces(h, g) /\ Size(g) = n /\ Carries(h, g)
      /\ \A s \in Headers(h) : g.objects[s] = h.objects[s]
  BY ResizedKeeps
<1>2. SameReferencesAs(h, g)
  BY <1>1 DEF SameReferencesAs, ResizedAs
<1> QED BY <1>1, <1>2, SameReferencesKeep

LEMMA OperandsKeepReferences ==
  ASSUME NEW h, LayoutInv(h), ReferenceInv(h), NEW g, LayoutInv(g), SamePlaces(h, g),
         SameButOperands(h, g), g.cells = h.cells
  PROVE  ReferenceInv(g)
<1>1. SameReferencesAs(h, g)
  BY DEF SameReferencesAs, SameButOperands
<1> QED BY <1>1, SameReferencesKeep

LEMMA RootedKeepsReferences ==
  ASSUME NEW h, LayoutInv(h), ReferenceInv(h), NEW roots \in Seq(Values),
         NEW g, g = [h EXCEPT !.extra = roots]
  PROVE  ReferenceInv(g)
<1>1. /\ LayoutInv(g) /\ SamePlaces(h, g) /\ SameButOperands(h, g)
      /\ g.extra = roots /\ g.stress = h.stress /\ g.cells = h.cells
  BY RootedKeeps
<1> QED BY <1>1, OperandsKeepReferences

LEMMA CollectWithRootsKeepsReferences ==
  ASSUME NEW h, LayoutInv(h), ReferenceInv(h), NEW roots \in Seq(Values), NEW kind,
         NEW g, g = collect_with_extra_roots(h, roots, kind)
  PROVE  ReferenceInv(g)
<1> DEFINE k == [h EXCEPT !.extra = roots]
<1>1. k = [h EXCEPT !.extra = roots] /\ g = collect_impl(k, kind)
  BY DEF collect_with_extra_roots
<1> HIDE DEF k
<1>2. LayoutInv(k) /\ ReferenceInv(k)
  BY <1>1, RootedKeeps, RootedKeepsReferences
<1> QED BY <1>1, <1>2, CollectKeepsReferences

(***************************************************************************)
(* Allocation.                                                             *)
(***************************************************************************)
\* A new object is young and white; no object of before refers to it.
LEMMA PlaceKeepsReferences ==
  ASSUME NEW h, LayoutInv(h), ReferenceInv(h), h.phase # "compacting",
         NEW q \in Objects, q.age = "Young", q.marked = FALSE,
         \A v \in visit_reference_fields(q) : Resolves(h, v),
         NEW base \in Nat, base + storage_slot_count(q) <= Size(h),
         Vacant(h, base, storage_slot_count(q)),
         NEW gen, gen = h.generations[base] + 1, NEW g, PlacedAs(h, base, gen, q, g), LayoutInv(g)
  PROVE  ReferenceInv(g)
<1> DEFINE w == storage_slot_count(q)
           new == make_object_id(base, gen)
<1>1. /\ HeapIsTyped(h) /\ RunsFollow(h) /\ DOMAIN h.objects = 0 .. Size(h) - 1 /\ Size(h) \in Nat
      /\ DOMAIN h.generations = 0 .. Size(h) - 1 /\ Headers(h) \subseteq 0 .. Size(h) - 1
      /\ \A s \in Headers(h) : s \in Nat /\ Width(h, s) \in Nat \ {0}
      /\ HeapIsTyped(g) /\ RunsFollow(g)
  <2>1. HeapIsTyped(h) /\ RunsFollow(h) /\ HeapIsTyped(g) /\ RunsFollow(g)
    BY DEF LayoutInv
  <2> QED BY <2>1, HeaderIsObject
<1>2. base \in 0 .. Size(h) - 1 /\ base \notin Headers(h)
  <2>1. w \in Nat \ {0}
    BY WidthOfObject
  <2>2. base \in 0 .. Size(h) - 1
    BY <1>1, <2>1
  <2>3. base \notin Headers(h)
    BY <1>1, <2>1 DEF Vacant
  <2> QED BY <2>2, <2>3
<1>3. Headers(g) = Headers(h) \cup {base} /\ g.objects[base] = q
  <2>1. q # None
    BY NoneAssumption
  <2>2. g.objects = [h.objects EXCEPT ![base] = q]
    BY DEF PlacedAs
  <2> QED BY <1>1, <1>2, <2>1, <2>2 DEF Headers
<1>4. \A s \in Headers(h) : /\ s # base /\ g.objects[s] = h.objects[s] /\ g.generations[s] = h.generations[s]
                            /\ IdAt(g, s) = IdAt(h, s)
  BY <1>1, <1>2 DEF IdAt, PlacedAs
<1>5. IdAt(g, base) = new
  BY <1>1, <1>2 DEF IdAt, PlacedAs
<1>6. Physical(g, new)
  <2>1. base \in Headers(g)
    BY <1>3
  <2> QED BY <1>1, <1>5, <2>1, IdOfBase
<1>7. ASSUME NEW v \in Ids, Resolves(h, v)
      PROVE  /\ Physical(g, v) /\ Resolves(g, v) /\ checked_slot(g, v) = checked_slot(h, v)
             /\ checked_slot(h, v) \in Headers(h) /\ ObjectOf(g, v) = ObjectOf(h, v)
  <2>1. checked_slot(h, v) \in Headers(h) /\ v = IdAt(h, checked_slot(h, v))
    BY <1>7, StillResolves
  <2>2. v = IdAt(g, checked_slot(h, v)) /\ checked_slot(h, v) \in Headers(g)
    BY <1>3, <1>4, <2>1
  <2>3. Physical(g, v) /\ Resolves(g, v) /\ checked_slot(g, v) = checked_slot(h, v)
    BY <1>1, <2>2, IdOfBase
  <2> QED BY <1>4, <2>1, <2>3 DEF ObjectOf
<1>8. ASSUME NEW s \in Headers(g), NEW v \in visit_reference_fields(g.objects[s])
      PROVE  v \in Ids /\ Resolves(h, v) /\ (s # base => s \in Headers(h) /\ g.objects[s] = h.objects[s])
  <2>1. v \in Ids
    BY StrongFieldsAreIds
  <2> QED BY <1>3, <1>4, <2>1 DEF ReferenceInv, StrongResolve
<1>9. StrongResolve(g)
  BY <1>7, <1>8 DEF StrongResolve
<1>10. RootsAreCurrent(g)
  <2> SUFFICES ASSUME NEW c \in Registered, is_object(g.cells[c])
               PROVE  Physical(g, g.cells[c])
    BY DEF RootsAreCurrent, Registered
  <2>1. g.cells = h.cells
    BY DEF PlacedAs
  <2>2. h.cells[c] \in Ids /\ Physical(h, h.cells[c])
    BY <2>1, RootCells DEF ReferenceInv, RootsAreCurrent, Registered
  <2>3. Resolves(h, h.cells[c])
    BY <2>2, CurrentResolves
  <2> QED BY <1>7, <2>1, <2>2, <2>3
<1>11. MarksAreSafe(g)
  <2>1. g.phase = h.phase
    BY DEF PlacedAs
  <2>2. CASE h.phase = "marking"
    <3>1. validate_incremental_marking(g)
      <4> SUFFICES ASSUME NEW s \in Headers(g), g.objects[s].marked,
                          NEW v \in visit_reference_fields(g.objects[s])
                   PROVE  ObjectOf(g, v).marked \/ v \in g.worklist
        BY DEF validate_incremental_marking
      <4>1. s \in Headers(h) /\ g.objects[s] = h.objects[s] /\ v \in Ids /\ Resolves(h, v)
        BY <1>3, <1>8
      <4>2. ObjectOf(h, v).marked \/ v \in h.worklist
        BY <2>2, <4>1 DEF ReferenceInv, MarksAreSafe, validate_incremental_marking
      <4> QED BY <1>7, <4>1, <4>2 DEF PlacedAs
    <3>2. ASSUME NEW id \in g.worklist PROVE Physical(g, id)
      <4>1. CASE id = new
        BY <1>6, <4>1
      <4>2. CASE id # new
        <5>1. id \in h.worklist /\ id \in Ids
          BY <1>1, <3>2, <4>2 DEF PlacedAs, HeapIsTyped
        <5>2. Physical(h, id)
          BY <2>2, <5>1 DEF ReferenceInv, MarksAreSafe
        <5>3. Resolves(h, id)
          BY <5>1, <5>2, CurrentResolves
        <5> QED BY <1>7, <5>1, <5>3
      <4> QED BY <4>1, <4>2
    <3> QED BY <2>1, <2>2, <3>1, <3>2 DEF MarksAreSafe
  <2>3. CASE h.phase # "marking"
    BY <1>3, <1>4, <2>1, <2>3 DEF ReferenceInv, MarksAreSafe, MarksAreClear
  <2> QED BY <2>2, <2>3
<1>12. validate_remembered_set(g)
  <2>1. g.remembered_set = h.remembered_set
    BY DEF PlacedAs
  <2>2. ASSUME NEW id \in g.remembered_set
        PROVE  Resolves(g, id) /\ is_old_slot(g, checked_slot(g, id))
    <3>1. id \in Ids /\ Resolves(h, id) /\ is_old_slot(h, checked_slot(h, id))
      BY <1>1, <2>1 DEF HeapIsTyped, ReferenceInv, validate_remembered_set
    <3> QED BY <1>4, <1>7, <3>1 DEF is_old_slot
  <2>3. ASSUME NEW s \in Headers(g), is_old_slot(g, s), HasYoungReference(g, s)
        PROVE  IdAt(g, s) \in g.remembered_set
    <3>1. PICK v \in visit_reference_fields(g.objects[s]) : is_young_slot(g, checked_slot(g, v))
      BY <2>3 DEF HasYoungReference
    <3>2. s # base
      BY <1>3, <2>3 DEF is_old_slot
    <3>3. v \in Ids /\ Resolves(h, v) /\ s \in Headers(h) /\ g.objects[s] = h.objects[s]
      BY <1>8, <3>2
    <3>4. is_young_slot(h, checked_slot(h, v)) /\ is_old_slot(h, s)
      BY <1>4, <1>7, <2>3, <3>1, <3>3 DEF is_young_slot, is_old_slot
    <3>5. HasYoungReference(h, s)
      BY <3>3, <3>4 DEF HasYoungReference
    <3> QED BY <1>4, <2>1, <3>3, <3>4, <3>5 DEF ReferenceInv, validate_remembered_set
  <2> QED BY <2>2, <2>3 DEF validate_remembered_set
<1> QED BY <1>9, <1>10, <1>11, <1>12 DEF ReferenceInv

\* A new object, and what it may refer to.
FitsStrongly(h, o) ==
  /\ Fits(h, o) /\ o.age = "Young" /\ o.marked = FALSE
  /\ \A v \in visit_reference_fields(o) : Resolves(h, v)

LEMMA AllocateObjectKeepsReferences ==
  ASSUME NEW h, LayoutInv(h), ReferenceInv(h), NEW o, FitsStrongly(h, o),
         NEW g, g = allocate_object(h, o)
  PROVE  ReferenceInv(g)
<1>1. Allocated(h, o, g) /\ Constructed(h, o, g)
  BY AllocateObjectKeeps DEF FitsStrongly
<1>2. PICK k, n, room, base, gen, q :
        /\ k = CompactionFinished([h EXCEPT !.extra = References(o)])
        /\ Places(k, n, room, base, gen, q, g)
        /\ SplitAs(o, room.extra, q)
        /\ \A i \in DOMAIN q.strong : i \in DOMAIN o.strong /\ Becomes(h, o.strong[i], room, q.strong[i])
  BY <1>1 DEF Constructed
<1> DEFINE refs == References(o)
           start == [h EXCEPT !.extra = refs]
<1>3. o \in Objects /\ refs \in Seq(Values)
  <2>1. o \in Objects
    BY DEF FitsStrongly, Fits
  <2> QED BY <2>1, ObjectFields DEF References
<1>4. start = [h EXCEPT !.extra = refs] /\ k = CompactionFinished(start)
  BY <1>2
<1> HIDE DEF refs, start
<1>5. LayoutInv(start) /\ ReferenceInv(start)
  BY <1>3, <1>4, RootedKeeps, RootedKeepsReferences
<1>6. ReferenceInv(k)
  BY <1>4, <1>5, CompactionFinishedKeepsReferences
<1>7. /\ LayoutInv(k) /\ n \in Nat /\ Size(k) <= n /\ ResizedAs(k, n, room)
      /\ LayoutInv(room) /\ room.phase # "compacting" /\ q \in Objects
      /\ base \in Nat /\ base + storage_slot_count(q) <= Size(room)
      /\ Vacant(room, base, storage_slot_count(q))
      /\ gen = room.generations[base] + 1 /\ PlacedAs(room, base, gen, q, g)
  BY <1>2 DEF Places
<1>8. ReferenceInv(room)
  BY <1>6, <1>7, ResizedKeepsReferences
<1>9. ASSUME NEW v \in visit_reference_fields(q) PROVE Resolves(room, v)
  <2>1. PICK i \in DOMAIN q.strong : v = q.strong[i] /\ is_object(v)
    BY <1>9 DEF visit_reference_fields
  <2>2. i \in DOMAIN o.strong /\ Becomes(h, o.strong[i], room, v)
    BY <1>2, <2>1
  <2>3. is_object(o.strong[i])
    BY <2>1, <2>2 DEF Becomes
  <2>4. Resolves(h, o.strong[i])
    BY <2>2, <2>3 DEF FitsStrongly, visit_reference_fields
  <2> QED BY <2>2, <2>3, <2>4 DEF Becomes
<1>10. q.age = "Young" /\ q.marked = FALSE /\ LayoutInv(g)
  BY <1>1, <1>2 DEF FitsStrongly, Allocated, SplitAs
<1> QED BY <1>7, <1>8, <1>9, <1>10, PlaceKeepsReferences

(***************************************************************************)
(* Constructors.                                                           *)
(***************************************************************************)
\* What a method that returns a reference leaves.
Returns(g) == LayoutInv(g) /\ ReferenceInv(g) /\ g.extra[1] \in Ids /\ Physical(g, g.extra[1])

LEMMA StressBeforeKeepsReferences ==
  ASSUME NEW h, LayoutInv(h), ReferenceInv(h), NEW operands \in Seq(Values),
         NEW b, b = StressBeforeAllocation(h, operands)
  PROVE  ReferenceInv(b)
<1> DEFINE major == "Major"
<1>1. b = collect_with_extra_roots(h, operands, major) \/ b = [h EXCEPT !.extra = operands]
  BY DEF StressBeforeAllocation
<1> HIDE DEF major
<1> QED BY <1>1, RootedKeepsReferences, CollectWithRootsKeepsReferences

LEMMA StressAfterKeepsReferences ==
  ASSUME NEW h, LayoutInv(h), ReferenceInv(h), NEW k, k = StressAfterAllocation(h)
  PROVE  ReferenceInv(k)
<1> DEFINE major == "Major"
<1>1. k = collect_with_extra_roots(h, h.extra, major) \/ k = h
  BY DEF StressAfterAllocation
<1>2. h.extra \in Seq(Values)
  BY DEF LayoutInv, HeapIsTyped
<1> HIDE DEF major
<1> QED BY <1>1, <1>2, CollectWithRootsKeepsReferences

LEMMA ConstructKeepsReferences ==
  ASSUME NEW b, LayoutInv(b), ReferenceInv(b), NEW o, FitsStrongly(b, o),
         NEW k, k = StressAfterAllocation(allocate_object(b, o))
  PROVE  Returns(k)
<1> DEFINE g == allocate_object(b, o)
<1>1. Fits(b, o) /\ g = allocate_object(b, o) /\ k = StressAfterAllocation(g)
  BY DEF FitsStrongly
<1> HIDE DEF g
<1>2. ReferenceInv(g) /\ Allocated(b, o, g)
  BY <1>1, AllocateObjectKeepsReferences, AllocateObjectKeeps
<1>3. LayoutInv(g)
  BY <1>2 DEF Allocated
<1>4. ReferenceInv(k)
  BY <1>1, <1>2, <1>3, StressAfterKeepsReferences
<1>5. Allocated(b, o, k)
  BY <1>1, <1>2, StressAfterKeeps
<1>6. LayoutInv(k) /\ k.phase # "compacting" /\ k.extra[1] \in Ids /\ Resolves(k, k.extra[1])
  BY <1>5 DEF Allocated
<1> QED BY <1>4, <1>6, StillResolves DEF Returns

LEMMA NewObjectFitsStrongly ==
  ASSUME NEW b, OperandsResolve(b), NEW shape, NEW text, NEW o, o = NewObject(b, shape, b.extra, text),
         Fits(b, o)
  PROVE  FitsStrongly(b, o)
<1>1. o.age = "Young" /\ o.marked = FALSE /\ (o.strong = b.extra \/ o.strong = <<>>)
  BY DEF NewObject
<1>2. ASSUME NEW v \in visit_reference_fields(o) PROVE Resolves(b, v)
  <2>1. PICK i \in DOMAIN o.strong : v = o.strong[i] /\ is_object(v)
    BY <1>2 DEF visit_reference_fields
  <2>2. o.strong = b.extra
    BY <1>1, <2>1
  <2> QED BY <2>1, <2>2 DEF OperandsResolve
<1> QED BY <1>1, <1>2 DEF FitsStrongly

LEMMA NewStringFitsStrongly ==
  ASSUME NEW b, LayoutInv(b), NEW text \in Seq(Chunks), NEW o, o = NewString(b, text)
  PROVE  FitsStrongly(b, o)
<1>1. Fits(b, o)
  BY NewStringFits
<1>2. o.age = "Young" /\ o.marked = FALSE /\ o.strong = <<>>
  BY DEF NewString, NewObject
<1>3. visit_reference_fields(o) = {}
  BY <1>2 DEF visit_reference_fields
<1> QED BY <1>1, <1>2, <1>3 DEF FitsStrongly

LEMMA StringKeepsReferences ==
  ASSUME NEW h, LayoutInv(h), ReferenceInv(h), NEW operands, NEW text, NEW g,
         StringBuilt(h, operands, text, g)
  PROVE  Returns(g)
<1> DEFINE b == StressBeforeAllocation(h, operands)
           o == NewString(b, text)
<1>1. /\ operands \in Seq(Values) /\ text \in Seq(Chunks) /\ LayoutInv(b)
      /\ g = StressAfterAllocation(allocate_object(b, o))
  BY DEF StringBuilt
<1>2. b = StressBeforeAllocation(h, operands) /\ o = NewString(b, text)
  OBVIOUS
<1> HIDE DEF b, o
<1>3. ReferenceInv(b)
  BY <1>1, <1>2, StressBeforeKeepsReferences
<1>4. FitsStrongly(b, o)
  BY <1>1, <1>2, NewStringFitsStrongly
<1> QED BY <1>1, <1>3, <1>4, ConstructKeepsReferences

LEMMA ConstructorKeepsReferences ==
  ASSUME NEW h, LayoutInv(h), ReferenceInv(h),
         NEW shape, NEW values, NEW text, Given(h, shape, values, text),
         NEW b, b = StressBeforeAllocation(h, values),
         NEW o, o = NewObject(b, shape, b.extra, text),
         NEW g, g = StressAfterAllocation(allocate_object(b, o))
  PROVE  Returns(g)
<1>1. LayoutInv(b) /\ Fits(b, o) /\ OperandsResolve(b)
  BY ConstructorKeeps
<1>2. values \in Seq(Values)
  BY SeqDef DEF Given, Constructible
<1>3. ReferenceInv(b)
  BY <1>2, StressBeforeKeepsReferences
<1>4. FitsStrongly(b, o)
  BY <1>1, NewObjectFitsStrongly
<1> QED BY <1>1, <1>3, <1>4, ConstructKeepsReferences

LEMMA ConcatKeepsReferences ==
  ASSUME NEW h, LayoutInv(h), ReferenceInv(h), NEW left \in Values, Resolves(h, left),
         NEW right \in Values, Resolves(h, right), NEW g, g = allocate_string_concat(h, left, right)
  PROVE  Returns(g)
<1> DEFINE operands == <<left, right>>
<1>1. \E text : TextAllocated(h, text, g) /\ StringBuilt(h, operands, text, g)
  BY ConcatKeeps
<1> HIDE DEF operands
<1> QED BY <1>1, StringKeepsReferences

LEMMA SubstringKeepsReferences ==
  ASSUME NEW h, LayoutInv(h), ReferenceInv(h), NEW source \in Values, Resolves(h, source),
         NEW hi \in 0 .. Len(ObjectOf(h, source).text), NEW lo \in 0 .. hi,
         NEW g, g = allocate_string_substring(h, source, lo, hi)
  PROVE  Returns(g)
<1> DEFINE operands == <<source>>
<1>1. \E text : TextAllocated(h, text, g) /\ StringBuilt(h, operands, text, g)
  BY SubstringKeeps
<1> HIDE DEF operands
<1> QED BY <1>1, StringKeepsReferences

LEMMA CopyKeepsReferences ==
  ASSUME NEW h, LayoutInv(h), ReferenceInv(h), 1 \in DOMAIN h.extra, Resolves(h, h.extra[1]),
         NEW g, g = CopyOperandText(h)
  PROVE  Returns(g)
<1> DEFINE operands == h.extra
           text == ObjectOf(h, h.extra[1]).text
<1>1. StringBuilt(h, operands, text, g)
  BY CopyKeeps
<1> HIDE DEF operands, text
<1> QED BY <1>1, StringKeepsReferences

\* What a method that copies its operand starts from.
LEMMA StartOfCopyKeepsReferences ==
  ASSUME NEW h, LayoutInv(h), ReferenceInv(h), NEW v \in Values, Resolves(h, v),
         NEW operands, operands = <<v>>,
         NEW still, still = CompactionFinished([h EXCEPT !.extra = operands])
  PROVE  /\ LayoutInv(still) /\ ReferenceInv(still) /\ still.phase # "compacting"
         /\ 1 \in DOMAIN still.extra /\ Resolves(still, still.extra[1])
<1> DEFINE start == [h EXCEPT !.extra = operands]
<1>1. operands \in Seq(Values) /\ 1 \in DOMAIN operands /\ operands[1] = v
  OBVIOUS
<1>2. start = [h EXCEPT !.extra = operands] /\ still = CompactionFinished(start)
  OBVIOUS
<1> HIDE DEF start
<1>3. LayoutInv(start) /\ ReferenceInv(start)
  BY <1>1, <1>2, RootedKeeps, RootedKeepsReferences
<1>4. ReferenceInv(still)
  BY <1>2, <1>3, CompactionFinishedKeepsReferences
<1>5. Followed(h, operands, still) /\ still.phase \in {"idle", "marking"}
  BY <1>1, <1>2, CompactionFinishedFollows
<1>6. Resolves(still, still.extra[1])
  BY <1>1, <1>5, FollowedText
<1> QED BY <1>1, <1>4, <1>5, <1>6 DEF Followed

LEMMA BuilderToStringKeepsReferences ==
  ASSUME NEW h, LayoutInv(h), ReferenceInv(h), NEW builder \in Values, Resolves(h, builder),
         NEW g, g = builder_to_string(h, builder)
  PROVE  Returns(g)
<1> DEFINE operands == <<builder>>
           still == CompactionFinished([h EXCEPT !.extra = operands])
<1>1. g = CopyOperandText(still) /\ operands = <<builder>>
  BY DEF builder_to_string
<1> HIDE DEF operands
<1>2. still = CompactionFinished([h EXCEPT !.extra = operands])
  OBVIOUS
<1> HIDE DEF still
<1>3. /\ LayoutInv(still) /\ ReferenceInv(still)
      /\ 1 \in DOMAIN still.extra /\ Resolves(still, still.extra[1])
  BY <1>1, <1>2, StartOfCopyKeepsReferences
<1> QED BY <1>1, <1>3, CopyKeepsReferences

LEMMA AddedToInternTableKeepsReferences ==
  ASSUME NEW k, Returns(k), NEW g, g = AddToInternTable(k), LayoutInv(g)
  PROVE  Returns(g)
<1>1. DOMAIN k = HeapFields /\ k.extra[1] \in Ids
  BY DEF Returns, LayoutInv, HeapIsTyped
<1>2. /\ DOMAIN g = HeapFields
      /\ g.objects = k.objects /\ g.generations = k.generations /\ g.remembered_set = k.remembered_set
      /\ g.worklist = k.worklist /\ g.cells = k.cells /\ g.extra = k.extra /\ g.phase = k.phase
      /\ g.plan = k.plan /\ g.cursor = k.cursor
  BY <1>1 DEF HeapFields, AddToInternTable
<1>3. HeapIsTyped(g) /\ Size(g) = Size(k) /\ Headers(g) = Headers(k)
  BY <1>2 DEF Size, Headers, LayoutInv
<1>4. SamePlaces(k, g)
  BY <1>2, <1>3 DEF SamePlaces
<1>5. SameReferencesAs(k, g)
  BY <1>2, <1>4 DEF SameReferencesAs
<1>6. ReferenceInv(g)
  BY <1>5, SameReferencesKeep DEF Returns
<1>7. Physical(g, g.extra[1])
  BY <1>2 DEF Physical, Returns
<1> QED BY <1>1, <1>2, <1>6, <1>7 DEF Returns

\* Canonical strings are in the table under their current ids.
LEMMA CanonicalIsPhysical ==
  ASSUME NEW h, LayoutInv(h), NEW hit \in h.intern_table
  PROVE  hit \in Ids /\ Physical(h, hit)
<1>1. hit \in OfKind(h, "Str") /\ HeapIsTyped(h)
  BY DEF LayoutInv, RegistriesName
<1>2. PICK s \in Headers(h) : hit = IdAt(h, s)
  BY <1>1 DEF OfKind
<1>3. h.generations[s] > 0 /\ s \in 0 .. Size(h) - 1 /\ h.generations[s] \in Nat
  BY <1>1, <1>2 DEF LayoutInv, RunsFollow, Headers, HeapIsTyped
<1> QED BY <1>2, <1>3 DEF Physical, IdAt, make_object_id, slot_from, generation_from, Headers, Ids

LEMMA ReturnCanonicalKeepsReferences ==
  ASSUME NEW h, LayoutInv(h), ReferenceInv(h), h.phase # "compacting", NEW hit \in h.intern_table,
         NEW g, g = ReturnCanonical(h, hit)
  PROVE  Returns(g)
<1>1. LayoutInv(g) /\ g.extra = <<hit>>
  BY ReturnCanonicalKeeps
<1>2. DOMAIN h = HeapFields /\ PhaseIsClean(h) /\ RegistriesName(h)
  BY DEF LayoutInv, HeapIsTyped
<1>3. /\ g.objects = h.objects /\ g.generations = h.generations /\ g.remembered_set = h.remembered_set
      /\ g.cells = h.cells /\ g.phase = h.phase /\ g.plan = h.plan /\ g.cursor = h.cursor
      /\ h.worklist \subseteq g.worklist /\ g.worklist \subseteq h.worklist \cup {hit}
  BY <1>2 DEF HeapFields, ReturnCanonical
<1>4. hit \in Ids /\ Physical(h, hit)
  BY CanonicalIsPhysical
<1>5. HeapIsTyped(g) /\ Size(g) = Size(h) /\ Headers(g) = Headers(h)
  BY <1>1, <1>3 DEF Size, Headers, LayoutInv
<1>6. SamePlaces(h, g)
  BY <1>3, <1>5 DEF SamePlaces
<1>7. \A id \in g.remembered_set : Resolves(h, id) /\ is_old_slot(h, checked_slot(h, id))
  BY <1>3 DEF ReferenceInv, validate_remembered_set
<1>8. h.phase = "marking" => \A id \in g.worklist : Physical(h, id)
  BY <1>3, <1>4 DEF ReferenceInv, MarksAreSafe
<1>9. RefOverwrites(h, g)
  BY <1>3, <1>6, <1>7, <1>8 DEF RefOverwrites
<1>10. ReferenceInv(g)
  BY <1>1, <1>9, OverwritesKeepReferences
<1>11. Physical(g, hit)
  BY <1>3, <1>4 DEF Physical
<1> QED BY <1>1, <1>4, <1>10, <1>11 DEF Returns

LEMMA InternKeepsReferences ==
  ASSUME NEW h, LayoutInv(h), ReferenceInv(h), NEW source \in Values, Resolves(h, source),
         NEW g, g = intern_string(h, source)
  PROVE  Returns(g)
<1> DEFINE operands == <<source>>
           still == CompactionFinished([h EXCEPT !.extra = operands])
           text == ObjectOf(still, still.extra[1]).text
           hits == CanonicalStrings(still, text)
<1>1. /\ g = IF hits # {} THEN ReturnCanonical(still, CHOOSE id \in hits : TRUE)
             ELSE AddToInternTable(CopyOperandText(still))
      /\ operands = <<source>>
  BY DEF intern_string, InternOperand
<1> HIDE DEF operands
<1>2. still = CompactionFinished([h EXCEPT !.extra = operands])
  OBVIOUS
<1> HIDE DEF still
<1>3. /\ LayoutInv(still) /\ ReferenceInv(still) /\ still.phase # "compacting"
      /\ 1 \in DOMAIN still.extra /\ Resolves(still, still.extra[1])
  BY <1>1, <1>2, StartOfCopyKeepsReferences
<1>4. CASE hits # {}
  <2> DEFINE hit == CHOOSE id \in hits : TRUE
  <2>1. hit \in still.intern_table /\ g = ReturnCanonical(still, hit)
    BY <1>1, <1>4 DEF CanonicalStrings
  <2> HIDE DEF hit
  <2> QED BY <1>3, <2>1, ReturnCanonicalKeepsReferences
<1>5. CASE hits = {}
  <2> DEFINE k == CopyOperandText(still)
  <2>1. g = AddToInternTable(k) /\ k = CopyOperandText(still)
    BY <1>1, <1>5
  <2>2. TextAllocated(still, text, k) /\ Returns(k)
    BY <1>3, <2>1, CopyKeeps, CopyKeepsReferences
  <2> HIDE DEF k, text
  <2>3. LayoutInv(g)
    BY <1>5, <2>1, <2>2, AddedToInternTable
  <2> QED BY <2>1, <2>2, <2>3, AddedToInternTableKeepsReferences
<1> QED BY <1>4, <1>5

(***************************************************************************)
(* Growth.                                                                 *)
(***************************************************************************)

\* The reference v into h has become w, the id of the same object in g.
Renamed(h, to, v, g, w) ==
  /\ checked_slot(h, v) \in Headers(h) /\ checked_slot(g, w) = to[checked_slot(h, v)]
  /\ Physical(g, w) /\ w = IdAt(g, to[checked_slot(h, v)])

\* The object at s has been taken along to to[s], with its mark and its age,
\* and with the new names of what it refers to.
TakenAlong(h, to, s, F, g) ==
  /\ g.objects[to[s]].age = h.objects[s].age /\ g.objects[to[s]].marked = h.objects[s].marked
  /\ \A w \in visit_reference_fields(g.objects[to[s]]) :
       \E v \in visit_reference_fields(h.objects[s]) : v \in Ids /\ w = rewrite_value(h, F, v)

LEMMA MovedIsTakenAlong ==
  ASSUME NEW h, LayoutInv(h), h.phase # "compacting",
         NEW to, NEW n, NEW mo, NEW mg, Moves(h, to, n, mo, mg), EphemeronsKept(h, DOMAIN to),
         NEW g, g = InstallMovement(h, mo, mg, ForwardingOf(to, mg)),
         NEW s \in DOMAIN to, mo[to[s]] = h.objects[s]
  PROVE  TakenAlong(h, to, s, ForwardingOf(to, mg), g)
<1>1. HeapIsTyped(h) /\ RunsFollow(h) /\ DOMAIN to \subseteq Headers(h)
  BY DEF LayoutInv, Moves
<1>2. g.objects[to[s]] = RewrittenObject(h, ForwardingOf(to, mg), mo[to[s]])
  BY MovedHeap
<1>3. validate_descriptor_shape(h.objects[s]) /\ h.objects[s] \in Objects
  BY <1>1, HeaderIsObject DEF RunsFollow
<1> DEFINE q == g.objects[to[s]]
           o == h.objects[s]
<1>4. q = RewrittenObject(h, ForwardingOf(to, mg), mo[to[s]])
  BY <1>2
<1> HIDE DEF q
<1>5. StrongFollows(h, to, mg, o, q) /\ q.age = o.age /\ q.marked = o.marked
  BY <1>1, <1>3, <1>4, RewrittenContents
<1>6. ASSUME NEW w \in visit_reference_fields(q)
      PROVE  \E v \in visit_reference_fields(o) : v \in Ids /\ w = rewrite_value(h, ForwardingOf(to, mg), v)
  <2>1. PICK i \in DOMAIN o.strong : w = rewrite_value(h, ForwardingOf(to, mg), o.strong[i]) /\ is_object(w)
    BY <1>5, <1>6 DEF StrongFollows, visit_reference_fields
  <2> DEFINE v == o.strong[i]
  <2>2. v \in Values
    BY <1>3, <2>1, ObjectFields, ElementOfSeq
  <2>3. w = rewrite_value(h, ForwardingOf(to, mg), v) /\ (is_object(v) => v \in visit_reference_fields(o))
    BY <2>1 DEF visit_reference_fields
  <2> HIDE DEF v, o
  <2>4. is_object(v)
    BY <2>1, <2>2, <2>3, RewrittenValue
  <2> QED BY <2>2, <2>3, <2>4, ValueIsId
<1> QED BY <1>5, <1>6 DEF TakenAlong, q

LEMMA MovedToEndKeepsReferences ==
  ASSUME NEW h, LayoutInv(h), ReferenceInv(h), h.phase # "compacting", NEW old \in Headers(h),
         NEW width \in Nat \ {0}, Width(h, old) <= width,
         NEW g, MovedToEnd(h, old, width, g), LayoutInv(g)
  PROVE  ReferenceInv(g)
<1>1. PICK to, mo, mg : /\ GrowthMoves(h, old, width, to, mo, mg)
                        /\ g = InstallMovement(h, mo, mg, ForwardingOf(to, mg))
  BY DEF MovedToEnd
<1> DEFINE n == Size(h) + width
           F == ForwardingOf(to, mg)
<1>2. Moves(h, to, n, mo, mg) /\ DOMAIN to = Headers(h)
  BY <1>1, GrowthIsMovement DEF GrowthMoves
<1>3. EphemeronsKept(h, DOMAIN to)
  BY <1>2, ReferencesAreCurrent
<1>4. /\ HeapIsTyped(h) /\ DOMAIN h = HeapFields /\ HeapIsTyped(g)
      /\ StrongResolve(h) /\ RootsAreCurrent(h) /\ validate_remembered_set(h)
  BY DEF LayoutInv, HeapIsTyped, ReferenceInv
<1>5. StrongKept(h, DOMAIN to)
  <2> SUFFICES ASSUME NEW s \in Headers(h), NEW v \in visit_reference_fields(h.objects[s])
               PROVE  checked_slot(h, v) \in Headers(h)
    BY <1>2 DEF StrongKept
  <2>1. v \in Ids /\ Resolves(h, v)
    BY <1>4, StrongFieldsAreIds DEF StrongResolve
  <2> QED BY <2>1, ResolvedSlot
<1>6. RootsKept(h, DOMAIN to)
  <2> SUFFICES ASSUME NEW c \in Registered, is_object(h.cells[c])
               PROVE  checked_slot(h, h.cells[c]) \in Headers(h)
    BY <1>2 DEF RootsKept
  <2>1. h.cells[c] \in Ids /\ Physical(h, h.cells[c])
    BY <1>4, RootCells DEF RootsAreCurrent, Registered
  <2> QED BY <2>1, CurrentResolves
<1>7. \A s \in Headers(h) : mo[to[s]] = h.objects[s]
  <2>1. \A s \in Headers(h) : s \in Nat /\ s < Size(h)
    BY <1>4, HeaderIsObject
  <2>2. Size(h) \in Nat
    BY <1>4 DEF HeapIsTyped
  <2> QED BY <1>1, <2>1, <2>2 DEF GrowthMoves
<1> HIDE DEF n
<1>8. StrongResolve(g) /\ RootsAreCurrent(g)
  BY <1>1, <1>2, <1>3, <1>4, <1>5, <1>6, MovementKeepsReferences
<1>9. /\ Headers(g) = {to[s] : s \in Headers(h)}
      /\ \A s \in Headers(h) : IdAt(g, to[s]) = make_object_id(to[s], mg[to[s]])
  BY <1>1, <1>2, <1>3, MovedHeap
<1>10. \A s \in Headers(h) : TakenAlong(h, to, s, F, g)
  BY <1>1, <1>2, <1>3, <1>7, MovedIsTakenAlong
<1>11. ASSUME NEW v \in Ids, Resolves(h, v), NEW w, w = rewrite_value(h, F, v)
       PROVE  Renamed(h, to, v, g, w) /\ Resolves(g, w)
  <2>1. checked_slot(h, v) \in Headers(h)
    BY <1>11, ResolvedSlot
  <2>2. /\ w = IdAt(g, to[checked_slot(h, v)]) /\ Physical(g, w)
        /\ checked_slot(g, w) = to[checked_slot(h, v)] /\ Becomes(h, v, g, w)
    BY <1>1, <1>2, <1>3, <1>11, <2>1, MovedReference
  <2>3. Resolves(g, w)
    BY <1>11, <2>2 DEF Becomes, Resolves
  <2> QED BY <2>1, <2>2, <2>3 DEF Renamed
<1>12. /\ g.remembered_set = RewrittenRegistry(h, F, h.remembered_set)
       /\ g.worklist = RewrittenRegistry(h, F, h.worklist) /\ g.phase = h.phase
  <2>1. g = InstallMovement(h, mo, mg, F)
    BY <1>1
  <2> HIDE DEF F
  <2>2. InstalledAs(h, mo, mg, F, g)
    BY <1>4, <2>1, Installed
  <2> QED BY <2>2 DEF InstalledAs
<1>13. \A v \in Ids : Resolves(h, v) => Forwarded(h, F, v)
  <2> SUFFICES ASSUME NEW v \in Ids, Resolves(h, v) PROVE Forwarded(h, F, v)
    OBVIOUS
  <2>1. checked_slot(h, v) \in Headers(h) /\ is_object(v)
    BY ResolvedSlot DEF Resolves
  <2> QED BY <1>2, <2>1 DEF Forwarded, ForwardingOf
<1>14. ASSUME NEW s \in Headers(h), NEW w \in visit_reference_fields(g.objects[to[s]])
       PROVE  \E v \in visit_reference_fields(h.objects[s]) :
                v \in Ids /\ Resolves(h, v) /\ w = rewrite_value(h, F, v) /\ Renamed(h, to, v, g, w)
  <2>1. PICK v \in visit_reference_fields(h.objects[s]) : v \in Ids /\ w = rewrite_value(h, F, v)
    BY <1>10, <1>14 DEF TakenAlong
  <2>2. Resolves(h, v)
    BY <1>4 DEF StrongResolve
  <2> QED BY <1>11, <2>1, <2>2
<1> HIDE DEF F
<1>15. MarksAreSafe(g)
  <2>1. CASE h.phase # "marking"
    <3>1. MarksAreClear(h)
      BY <2>1 DEF ReferenceInv, MarksAreSafe
    <3>2. MarksAreClear(g)
      BY <1>9, <1>10, <3>1 DEF MarksAreClear, TakenAlong
    <3> QED BY <1>12, <2>1, <3>2 DEF MarksAreSafe
  <2>2. CASE h.phase = "marking"
    <3>1. validate_incremental_marking(h) /\ \A id \in h.worklist : Physical(h, id)
      BY <2>2 DEF ReferenceInv, MarksAreSafe
    <3>2. h.worklist \subseteq Ids
      BY <1>4 DEF HeapIsTyped
    <3>3. \A id \in h.worklist : Resolves(h, id)
      BY <3>1, <3>2, CurrentResolves
    <3>4. ASSUME NEW w \in g.worklist PROVE Physical(g, w)
      <4>1. PICK v \in h.worklist : w = rewrite_value(h, F, v)
        BY <1>12, <3>4 DEF RewrittenRegistry
      <4> QED BY <1>11, <3>2, <3>3, <4>1 DEF Renamed
    <3>5. ASSUME NEW s \in Headers(h), g.objects[to[s]].marked, NEW w \in visit_reference_fields(g.objects[to[s]])
          PROVE  ObjectOf(g, w).marked \/ w \in g.worklist
      <4>1. PICK v \in visit_reference_fields(h.objects[s]) :
              v \in Ids /\ Resolves(h, v) /\ w = rewrite_value(h, F, v) /\ Renamed(h, to, v, g, w)
        BY <1>14
      <4>2. h.objects[s].marked
        BY <1>10, <3>5 DEF TakenAlong
      <4>3. ObjectOf(h, v).marked \/ v \in h.worklist
        BY <3>1, <4>2 DEF validate_incremental_marking
      <4>4. v \in h.worklist => w \in g.worklist
        BY <1>12, <1>13, <4>1 DEF RewrittenRegistry
      <4>5. ObjectOf(g, w).marked = ObjectOf(h, v).marked
        BY <1>10, <4>1 DEF TakenAlong, Renamed, ObjectOf
      <4> QED BY <4>3, <4>4, <4>5
    <3>6. validate_incremental_marking(g)
      BY <1>9, <3>5 DEF validate_incremental_marking
    <3> QED BY <1>12, <2>2, <3>4, <3>6 DEF MarksAreSafe
  <2> QED BY <2>1, <2>2
<1>16. validate_remembered_set(g)
  <2>1. h.remembered_set \subseteq Ids
    BY <1>4 DEF HeapIsTyped
  <2>2. ASSUME NEW w \in g.remembered_set PROVE Resolves(g, w) /\ is_old_slot(g, checked_slot(g, w))
    <3>1. PICK v \in h.remembered_set : w = rewrite_value(h, F, v)
      BY <1>12, <2>2 DEF RewrittenRegistry
    <3>2. Resolves(h, v) /\ is_old_slot(h, checked_slot(h, v))
      BY <1>4 DEF validate_remembered_set
    <3>3. Renamed(h, to, v, g, w) /\ Resolves(g, w)
      BY <1>11, <2>1, <3>1, <3>2
    <3> QED BY <1>10, <3>2, <3>3 DEF Renamed, TakenAlong, is_old_slot
  <2>3. ASSUME NEW s \in Headers(h), is_old_slot(g, to[s]), HasYoungReference(g, to[s])
        PROVE  IdAt(g, to[s]) \in g.remembered_set
    <3>1. PICK w \in visit_reference_fields(g.objects[to[s]]) : is_young_slot(g, checked_slot(g, w))
      BY <2>3 DEF HasYoungReference
    <3>2. PICK v \in visit_reference_fields(h.objects[s]) :
            v \in Ids /\ Resolves(h, v) /\ w = rewrite_value(h, F, v) /\ Renamed(h, to, v, g, w)
      BY <1>14
    <3>3. is_young_slot(h, checked_slot(h, v))
      BY <1>10, <3>1, <3>2 DEF Renamed, TakenAlong, is_young_slot
    <3>4. is_old_slot(h, s)
      BY <1>10, <2>3 DEF TakenAlong, is_old_slot
    <3> DEFINE id == IdAt(h, s)
    <3>5. id \in h.remembered_set
      BY <1>4, <3>2, <3>3, <3>4 DEF validate_remembered_set, HasYoungReference
    <3>6. id \in Ids /\ Resolves(h, id) /\ checked_slot(h, id) = s
      BY <1>4, IdOfBase DEF LayoutInv
    <3> HIDE DEF id
    <3> DEFINE x == rewrite_value(h, F, id)
    <3>7. x \in g.remembered_set
      BY <1>12, <1>13, <3>5, <3>6 DEF RewrittenRegistry
    <3>8. Renamed(h, to, id, g, x)
      BY <1>11, <3>6
    <3> QED BY <3>6, <3>7, <3>8 DEF Renamed
  <2> QED BY <1>9, <2>2, <2>3 DEF validate_remembered_set
<1> QED BY <1>8, <1>15, <1>16 DEF ReferenceInv

LEMMA GrowthKeepsReferences ==
  ASSUME NEW h, LayoutInv(h), ReferenceInv(h), h.phase # "compacting",
         1 \in DOMAIN h.extra, Resolves(h, h.extra[1]),
         NEW width \in Nat \ {0}, Width(h, checked_slot(h, h.extra[1])) <= width,
         NEW g, g = ensure_growth_storage(h, width)
  PROVE  Grown(h, width, g) /\ ReferenceInv(g)
<1>1. Grown(h, width, g) /\ GrowsAs(h, width, g)
  BY GrowthKeeps
<1>2. LayoutInv(g)
  BY <1>1 DEF Grown
<1>3. h.extra[1] \in Values
  BY DEF LayoutInv, HeapIsTyped
<1> DEFINE old == checked_slot(h, h.extra[1])
<1>4. old \in Headers(h) /\ Width(h, old) <= width
  BY <1>3, ResolvedObject
<1>5. (\E n \in Nat : Size(h) <= n /\ ResizedAs(h, n, g)) \/ MovedToEnd(h, old, width, g)
  BY <1>1 DEF GrowsAs
<1> HIDE DEF old
<1> QED BY <1>1, <1>2, <1>4, <1>5, ResizedKeepsReferences, MovedToEndKeepsReferences

LEMMA GrownForKeepsReferences ==
  ASSUME NEW start, LayoutInv(start), ReferenceInv(start), NEW width, NEW grown,
         GrownFor(start, width, grown)
  PROVE  LayoutInv(grown) /\ ReferenceInv(grown)
<1> DEFINE ready == CompactionFinished(start)
<1>1. ready = CompactionFinished(start)
  OBVIOUS
<1>2. /\ LayoutInv(ready) /\ ready.phase # "compacting"
      /\ 1 \in DOMAIN ready.extra /\ Resolves(ready, ready.extra[1])
      /\ width \in Nat \ {0} /\ Width(ready, checked_slot(ready, ready.extra[1])) <= width
      /\ grown = ensure_growth_storage(ready, width)
  BY DEF GrownFor
<1> HIDE DEF ready
<1>3. ReferenceInv(ready)
  BY <1>1, CompactionFinishedKeepsReferences
<1>4. Grown(ready, width, grown) /\ ReferenceInv(grown)
  BY <1>2, <1>3, GrowthKeepsReferences
<1> QED BY <1>4 DEF Grown

(***************************************************************************)
(* Stores.                                                                 *)
(***************************************************************************)
LEMMA MinorAfterBarrierKeepsReferences ==
  ASSUME NEW h, LayoutInv(h), ReferenceInv(h), NEW triggered, NEW roots \in Seq(Values),
         NEW g, g = MinorAfterBarrier(h, triggered, roots)
  PROVE  ReferenceInv(g)
<1> DEFINE minor == "Minor"
<1>1. g = collect_with_extra_roots(h, roots, minor) \/ g = h
  BY DEF MinorAfterBarrier
<1> HIDE DEF minor
<1> QED BY <1>1, CollectWithRootsKeepsReferences

\* What is stored in place of an object of the owner's: what it referred to
\* and values that are published, all of them shaded.
StoresOnly(h, owner, shaded, published, q) ==
  LET o == ObjectOf(h, owner)
  IN  /\ q.age = o.age /\ q.marked = o.marked
      /\ \A v \in visit_reference_fields(q) :
           v \in visit_reference_fields(o) \/ v \in published \cap shaded
      /\ \A v \in shaded \ {Nil} : Resolves(h, v)

\* Both barriers have run for the references that are new in the owner.
LEMMA StoredOverwrites ==
  ASSUME NEW h, LayoutInv(h), ReferenceInv(h), NEW owner \in Ids, Physical(h, owner),
         NEW shaded, shaded \subseteq Values, NEW published, NEW q,
         StoresOnly(h, owner, shaded, published, q),
         NEW b, BarredAs(h, b), Recorded(h, owner, shaded, published, b),
         NEW m, SamePlaces(b, m), MutatedAs(b, checked_slot(h, owner), q, m)
  PROVE  RefOverwrites(h, m)
<1> DEFINE slot == checked_slot(h, owner)
           o == ObjectOf(h, owner)
<1>1. /\ slot \in Headers(h) /\ owner = IdAt(h, slot) /\ o = h.objects[slot] /\ Resolves(h, owner)
  BY CurrentResolves DEF ObjectOf
<1>2. /\ SamePlaces(h, b) /\ b.objects = h.objects /\ b.phase = h.phase /\ b.cells = h.cells
  BY DEF BarredAs
<1>3. /\ m.objects = [b.objects EXCEPT ![slot] = q] /\ m.phase = b.phase /\ m.cells = b.cells
      /\ m.remembered_set = b.remembered_set /\ m.worklist = b.worklist
  BY DEF MutatedAs
<1>4. slot \in DOMAIN h.objects /\ Headers(h) \subseteq DOMAIN h.objects
  BY <1>1 DEF Headers
<1>5. /\ m.objects[slot] = q
      /\ \A s \in Headers(h) : s # slot => m.objects[s] = h.objects[s]
  BY <1>2, <1>3, <1>4
<1> HIDE DEF slot, o
<1>6. SamePlaces(h, m)
  BY <1>2 DEF SamePlaces
<1>7. /\ q.age = o.age /\ q.marked = o.marked
      /\ \A v \in visit_reference_fields(q) :
           v \in visit_reference_fields(o) \/ v \in published \cap shaded
      /\ \A v \in shaded \ {Nil} : Resolves(h, v)
  BY DEF StoresOnly, o
<1>8. ASSUME NEW v \in visit_reference_fields(q), v \notin visit_reference_fields(o)
      PROVE  PublishedIn(h, m, slot, v)
  <2>1. v \in published \ {Nil} /\ v \in shaded \ {Nil}
    BY <1>7, <1>8 DEF visit_reference_fields, is_object
  <2>2. Resolves(h, v)
    BY <1>7, <2>1
  <2>3. is_old_slot(h, slot) /\ is_young_slot(h, checked_slot(h, v)) => IdAt(h, slot) \in m.remembered_set
    BY <1>1, <1>3, <2>1 DEF Recorded, BarrierTriggered, slot
  <2>4. h.phase = "marking" /\ h.objects[slot].marked => ObjectOf(h, v).marked \/ v \in m.worklist
    BY <1>1, <1>3, <2>1 DEF Recorded, o
  <2> QED BY <2>2, <2>3, <2>4 DEF PublishedIn
<1>9. \A s \in Headers(h) :
        /\ m.objects[s].age = h.objects[s].age /\ m.objects[s].marked = h.objects[s].marked
        /\ \A v \in visit_reference_fields(m.objects[s]) :
             v \in visit_reference_fields(h.objects[s]) \/ PublishedIn(h, m, s, v)
  BY <1>1, <1>5, <1>7, <1>8
<1>10. h.remembered_set \subseteq m.remembered_set /\ h.worklist \subseteq m.worklist
  BY <1>3 DEF Recorded
<1>11. \A id \in m.remembered_set : Resolves(h, id) /\ is_old_slot(h, checked_slot(h, id))
  BY <1>1, <1>3 DEF Recorded, ReferenceInv, validate_remembered_set
<1>12. h.phase = "marking" => \A id \in m.worklist : Physical(h, id)
  <2> SUFFICES ASSUME h.phase = "marking", NEW id \in m.worklist PROVE Physical(h, id)
    OBVIOUS
  <2>1. CASE id \in h.worklist
    BY <2>1 DEF ReferenceInv, MarksAreSafe
  <2>2. CASE id \notin h.worklist
    <3>1. id \in shaded \ {Nil}
      BY <1>3, <2>2 DEF Recorded
    <3>2. id \in Ids /\ Resolves(h, id)
      BY <1>7, <3>1 DEF Values
    <3> QED BY <3>2, StillResolves
  <2> QED BY <2>1, <2>2
<1> QED BY <1>2, <1>3, <1>6, <1>9, <1>10, <1>11, <1>12 DEF RefOverwrites

LEMMA StoredKeepsReferences ==
  ASSUME NEW h, LayoutInv(h), ReferenceInv(h), NEW owner \in Ids, Physical(h, owner),
         NEW shaded, NEW published, NEW q, StoresOnly(h, owner, shaded, published, q),
         NEW g, StoredAs(h, owner, shaded, published, q, g)
  PROVE  ReferenceInv(g)
<1>1. PICK b, twin, p, triggered, roots :
        /\ b = Barriers(h, owner, shaded, published) /\ shaded \subseteq Values
        /\ Replaces(b, checked_slot(h, owner), q) /\ roots \in Seq(Values)
        /\ g = MinorAfterBarrier(StoredIn(b, checked_slot(h, owner), q, twin, p), triggered, roots)
  BY DEF StoredAs
<1> DEFINE slot == checked_slot(h, owner)
           m == StoredIn(b, slot, q, twin, p)
<1>2. BarredAs(h, b) /\ Recorded(h, owner, shaded, published, b)
  BY <1>1, CurrentResolves, BarriersKeep
<1>3. LayoutInv(b) /\ Replaces(b, slot, q)
  BY <1>1, <1>2 DEF BarredAs
<1>4. m = StoredIn(b, slot, q, twin, p) /\ g = MinorAfterBarrier(m, triggered, roots)
      /\ slot = checked_slot(h, owner)
  BY <1>1
<1> HIDE DEF m, slot
<1>5. LayoutInv(m) /\ SamePlaces(b, m) /\ MutatedAs(b, slot, q, m)
  BY <1>3, <1>4, StoredKeeps
<1>6. RefOverwrites(h, m)
  BY <1>1, <1>2, <1>4, <1>5, StoredOverwrites
<1>7. ReferenceInv(m)
  BY <1>5, <1>6, OverwritesKeepReferences
<1> QED BY <1>1, <1>4, <1>5, <1>7, MinorAfterBarrierKeepsReferences

LEMMA FieldStoresOnly ==
  ASSUME NEW h, NEW owner, ObjectOf(h, owner) \in Objects, NEW i \in DOMAIN ObjectOf(h, owner).strong,
         NEW v, NEW q, q = [ObjectOf(h, owner) EXCEPT !.strong[i] = v],
         NEW shaded, v \in shaded, NEW published, v \in published,
         \A w \in shaded \ {Nil} : Resolves(h, w)
  PROVE  StoresOnly(h, owner, shaded, published, q)
<1> DEFINE o == ObjectOf(h, owner)
           strong == [o.strong EXCEPT ![i] = v]
<1>1. o \in Objects /\ i \in DOMAIN o.strong /\ q = [o EXCEPT !.strong = strong]
  OBVIOUS
<1>2. /\ DOMAIN strong = DOMAIN o.strong
      /\ \A j \in DOMAIN o.strong : strong[j] = o.strong[j] \/ strong[j] = v
  OBVIOUS
<1>3. o = ObjectOf(h, owner)
  OBVIOUS
<1> HIDE DEF o, strong
<1>4. q.age = o.age /\ q.marked = o.marked /\ q.strong = strong
  BY <1>1 DEF Objects
<1>5. \A w \in visit_reference_fields(q) : w \in visit_reference_fields(o) \/ w = v
  BY <1>2, <1>4 DEF visit_reference_fields
<1> QED BY <1>3, <1>4, <1>5 DEF StoresOnly

\* What a store is called with: the owner's current id and a usable value.
LEMMA ValueCanBeStored ==
  ASSUME NEW h, LayoutInv(h), NEW owner \in Ids, Physical(h, owner),
         NEW value \in Values, is_object(value) => Resolves(h, value),
         NEW v, v = canonicalize_incremental_compaction_read(h, value)
  PROVE  /\ Resolves(h, owner) /\ ObjectOf(h, owner) \in Objects
         /\ v \in Values /\ (v # Nil => Resolves(h, v))
<1>1. Resolves(h, owner) /\ owner \in Values
  BY CurrentResolves, IdsAreReferences
<1>2. ObjectOf(h, owner) \in Objects
  BY <1>1, ResolvedObject
<1>3. v \in Values /\ (is_object(v) => Resolves(h, v))
  BY CanonicalReference
<1> QED BY <1>1, <1>2, <1>3 DEF is_object

LEMMA StoreFieldKeepsReferences ==
  ASSUME NEW h, LayoutInv(h), ReferenceInv(h), NEW owner \in Ids, Physical(h, owner),
         NEW i \in DOMAIN ObjectOf(h, owner).strong,
         NEW value \in Values, is_object(value) => Resolves(h, value),
         NEW g, g = store_field(h, owner, i, value)
  PROVE  ReferenceInv(g)
<1>1. Resolves(h, owner)
  BY CurrentResolves
<1>2. PICK v, q : FieldStored(h, owner, i, value, v, q, g)
  BY <1>1, StoreFieldKeeps
<1> DEFINE shaded == {v}
<1>3. /\ v = canonicalize_incremental_compaction_read(h, value)
      /\ q = [ObjectOf(h, owner) EXCEPT !.strong[i] = v]
      /\ StoredAs(h, owner, shaded, shaded, q, g)
  BY <1>2 DEF FieldStored
<1>4. ObjectOf(h, owner) \in Objects /\ v \in Values /\ (v # Nil => Resolves(h, v))
  BY <1>3, ValueCanBeStored
<1>5. v \in shaded /\ \A w \in shaded \ {Nil} : Resolves(h, w)
  BY <1>4
<1> HIDE DEF shaded
<1>6. StoresOnly(h, owner, shaded, shaded, q)
  BY <1>3, <1>4, <1>5, FieldStoresOnly
<1> QED BY <1>3, <1>6, StoredKeepsReferences

LEMMA StoreEphemeronKeepsReferences ==
  ASSUME NEW h, LayoutInv(h), ReferenceInv(h), NEW owner \in Ids, Physical(h, owner),
         ObjectOf(h, owner).kind = "Ephemeron", is_object(ObjectOf(h, owner).soft[1]),
         NEW value \in Values, is_object(value) => Resolves(h, value),
         NEW g, g = store_ephemeron_value(h, owner, value)
  PROVE  ReferenceInv(g)
<1>1. Resolves(h, owner)
  BY CurrentResolves
<1>2. PICK v, q : ValueStored(h, owner, value, v, q, g)
  BY <1>1, StoreEphemeronKeeps
<1> DEFINE shaded == {v}
           o == ObjectOf(h, owner)
<1>3. /\ v = canonicalize_incremental_compaction_read(h, value)
      /\ q = [o EXCEPT !.soft[2] = v] /\ StoredAs(h, owner, shaded, shaded, q, g)
  BY <1>2 DEF ValueStored
<1>4. o \in Objects /\ v \in Values /\ (v # Nil => Resolves(h, v))
  BY <1>3, ValueCanBeStored
<1>5. \A w \in shaded \ {Nil} : Resolves(h, w)
  BY <1>4
<1>6. o = ObjectOf(h, owner)
  OBVIOUS
<1> HIDE DEF shaded, o
<1>7. q.age = o.age /\ q.marked = o.marked /\ q.strong = o.strong
  BY <1>3, <1>4 DEF Objects
<1>8. StoresOnly(h, owner, shaded, shaded, q)
  BY <1>5, <1>6, <1>7 DEF StoresOnly, visit_reference_fields
<1> QED BY <1>3, <1>8, StoredKeepsReferences

LEMMA UpdateMapKeepsReferences ==
  ASSUME NEW h, LayoutInv(h), ReferenceInv(h), NEW owner \in Ids, Physical(h, owner),
         NEW entry, 2 * entry \in DOMAIN ObjectOf(h, owner).strong,
         NEW key \in Values, is_object(key) => Resolves(h, key),
         NEW value \in Values, is_object(value) => Resolves(h, value),
         NEW g, g = update_map_entry(h, owner, entry, key, value)
  PROVE  ReferenceInv(g)
<1>1. Resolves(h, owner)
  BY CurrentResolves
<1>2. PICK k, v, q : EntryStored(h, owner, entry, key, value, k, v, q, g)
  BY <1>1, UpdateMapKeeps
<1> DEFINE shaded == {k, v}
           published == {v}
           i == 2 * entry
<1>3. /\ k = canonicalize_incremental_compaction_read(h, key)
      /\ v = canonicalize_incremental_compaction_read(h, value)
      /\ q = [ObjectOf(h, owner) EXCEPT !.strong[i] = v]
      /\ StoredAs(h, owner, shaded, published, q, g) /\ i \in DOMAIN ObjectOf(h, owner).strong
  BY <1>2 DEF EntryStored
<1>4. ObjectOf(h, owner) \in Objects /\ v \in Values /\ (v # Nil => Resolves(h, v))
  BY <1>3, ValueCanBeStored
<1>5. k # Nil => Resolves(h, k)
  BY <1>3, ValueCanBeStored
<1>6. v \in shaded /\ v \in published /\ \A w \in shaded \ {Nil} : Resolves(h, w)
  BY <1>4, <1>5
<1> HIDE DEF shaded, published, i
<1>7. StoresOnly(h, owner, shaded, published, q)
  BY <1>3, <1>4, <1>6, FieldStoresOnly
<1> QED BY <1>3, <1>7, StoredKeepsReferences

\* An insertion finishes the compaction, so any id of the map will do.
LEMMA InsertMapKeepsReferences ==
  ASSUME NEW h, LayoutInv(h), ReferenceInv(h), NEW owner \in Values, Resolves(h, owner),
         ObjectOf(h, owner).kind = "Map",
         NEW key \in Values, is_object(key) => Resolves(h, key),
         NEW value \in Values, is_object(value) => Resolves(h, value),
         NEW g, g = insert_map_entry(h, owner, key, value)
  PROVE  ReferenceInv(g)
<1>1. MapGrown(h, owner, key, value, g)
  BY InsertMapKeeps
<1>2. PICK operands, width, grown, q :
        /\ operands \in Seq(Values)
        /\ operands = <<owner, key, value>> /\ GrownFor([h EXCEPT !.extra = operands], width, grown)
        /\ EntryAdded(h, operands, grown, q, g)
  BY <1>1 DEF MapGrown
<1> DEFINE start == [h EXCEPT !.extra = operands]
           o == grown.extra[1]
           k == grown.extra[2]
           v == grown.extra[3]
           shaded == {k, v}
           m == ObjectOf(grown, o)
<1>3. start = [h EXCEPT !.extra = operands] /\ GrownFor(start, width, grown)
  BY <1>2
<1>4. operands[2] = key /\ operands[3] = value
  BY <1>2
<1>5. /\ grown.phase # "compacting" /\ o \in Ids /\ Resolves(grown, o)
      /\ Becomes(h, key, grown, k) /\ Becomes(h, value, grown, v)
      /\ q = [m EXCEPT !.strong = @ \o <<k, v>>, !.length = @ + 1]
      /\ StoredAs(grown, o, shaded, shaded, q, g)
  BY <1>2, <1>4 DEF EntryAdded
<1> HIDE DEF start, o, k, v, shaded
<1>6. LayoutInv(start) /\ ReferenceInv(start)
  BY <1>2, <1>3, RootedKeeps, RootedKeepsReferences
<1>7. LayoutInv(grown) /\ ReferenceInv(grown)
  BY <1>3, <1>6, GrownForKeepsReferences
<1>8. Physical(grown, o) /\ o \in Values
  BY <1>5, <1>7, StillResolves, IdsAreReferences
<1>9. (k # Nil => Resolves(grown, k)) /\ (v # Nil => Resolves(grown, v))
  BY <1>5 DEF Becomes, is_object
<1>10. m \in Objects
  BY <1>5, <1>7, <1>8, ResolvedObject
<1>11. m = ObjectOf(grown, o)
  OBVIOUS
<1> HIDE DEF m
<1> DEFINE pair == <<k, v>>
           strong == m.strong \o pair
<1>12. q.age = m.age /\ q.marked = m.marked /\ q.strong = strong
  BY <1>5, <1>10 DEF Objects
<1>13. ASSUME NEW w \in visit_reference_fields(q)
       PROVE  w \in visit_reference_fields(m) \/ w \in shaded
  <2>1. PICK i \in DOMAIN strong : w = strong[i] /\ is_object(w)
    BY <1>12, <1>13 DEF visit_reference_fields
  <2>2. m.strong \in Seq(Values)
    BY <1>10, ObjectFields
  <2> DEFINE n == Len(m.strong)
  <2>3. /\ n \in Nat /\ DOMAIN strong = 1 .. n + 2 /\ DOMAIN m.strong = 1 .. n
        /\ \A j \in 1 .. n : strong[j] = m.strong[j]
        /\ \A j \in 1 .. n + 2 : j > n => strong[j] = pair[j - n]
    BY <2>2
  <2> HIDE DEF strong, n
  <2>4. CASE i \in 1 .. n
    <3>1. w = m.strong[i] /\ i \in DOMAIN m.strong
      BY <2>1, <2>3, <2>4
    <3> QED BY <2>1, <3>1 DEF visit_reference_fields
  <2>5. CASE i \notin 1 .. n
    <3>1. i - n \in {1, 2} /\ w = pair[i - n]
      BY <2>1, <2>3, <2>5
    <3>2. w = k \/ w = v
      BY <3>1
    <3> QED BY <3>2 DEF shaded
  <2> QED BY <2>4, <2>5
<1>14. \A w \in shaded \ {Nil} : Resolves(grown, w)
  BY <1>9 DEF shaded
<1> HIDE DEF strong
<1>15. StoresOnly(grown, o, shaded, shaded, q)
  BY <1>11, <1>12, <1>13, <1>14 DEF StoresOnly
<1> QED BY <1>5, <1>7, <1>8, <1>15, StoredKeepsReferences

LEMMA RetextedKeepsReferences ==
  ASSUME NEW h, LayoutInv(h), ReferenceInv(h), NEW slot, NEW text, NEW g, LayoutInv(g),
         Retexted(h, slot, text, g)
  PROVE  ReferenceInv(g)
<1>1. PICK q : MutatedAs(h, slot, q, g) /\ WithText(h.objects[slot], text, q)
  BY DEF Retexted
<1>2. g.objects = [h.objects EXCEPT ![slot] = q] /\ Headers(h) \subseteq DOMAIN h.objects
  BY <1>1 DEF MutatedAs, Headers
<1>3. \A s \in Headers(h) : g.objects[s] = IF s = slot THEN q ELSE h.objects[s]
  BY <1>2
<1>4. SameReferencesAs(h, g)
  BY <1>1, <1>3 DEF SameReferencesAs, MutatedAs, Retexted, WithText
<1> QED BY <1>4, SameReferencesKeep

LEMMA BuilderAppendKeepsReferences ==
  ASSUME NEW h, LayoutInv(h), ReferenceInv(h), NEW owner, NEW source, NEW g, LayoutInv(g),
         BuilderGrown(h, owner, source, g)
  PROVE  ReferenceInv(g)
<1>1. PICK operands \in Seq(Values) :
        LET start == [h EXCEPT !.extra = operands]
        IN  \/ Extends(start, g)
            \/ \E width, grown : GrownFor(start, width, grown) /\ Extends(grown, g)
  BY DEF BuilderGrown
<1> DEFINE start == [h EXCEPT !.extra = operands]
<1>2. /\ start = [h EXCEPT !.extra = operands]
      /\ \/ Extends(start, g)
         \/ \E width, grown : GrownFor(start, width, grown) /\ Extends(grown, g)
  BY <1>1
<1> HIDE DEF start
<1>3. LayoutInv(start) /\ ReferenceInv(start)
  BY <1>2, RootedKeeps, RootedKeepsReferences
<1> QED BY <1>2, <1>3, RetextedKeepsReferences, GrownForKeepsReferences DEF Extends

(***************************************************************************)
(* The actions of the state machine.                                       *)
(***************************************************************************)
LEMMA BecomeKeepsReferences ==
  ASSUME NEW h, LayoutInv(h), ReferenceInv(h), Become(h)
  PROVE  ReferenceInv(heap)'
<1> DEFINE g == heap'
<1>1. /\ DOMAIN g = HeapFields
      /\ g.objects = h.objects /\ g.generations = h.generations
      /\ g.remembered_set = h.remembered_set /\ g.weak_refs = h.weak_refs
      /\ g.ephemerons = h.ephemerons /\ g.intern_table = h.intern_table
      /\ g.cells = h.cells /\ g.extra = <<>>
      /\ g.phase = h.phase /\ g.worklist = h.worklist /\ g.plan = h.plan
      /\ g.cursor = h.cursor /\ g.shadow = h.shadow /\ g.allocated = h.allocated
  BY DEF heap, Become, HeapFields
<1>2. g = heap'
  OBVIOUS
<1> HIDE DEF g
<1>3. /\ SameButOperands(h, g) /\ g.extra \in Seq(Values) /\ g.cells \in [Cells -> Values]
      /\ g.cells = h.cells
  BY <1>1, EmptySeq DEF SameButOperands, LayoutInv, HeapIsTyped
<1>4. LayoutInv(g) /\ SamePlaces(h, g)
  BY <1>3, OperandsKeep
<1>5. ReferenceInv(g)
  BY <1>3, <1>4, OperandsKeepReferences
<1>6. ReferenceInv(heap')
  BY <1>2, <1>5
<1> QED BY <1>6

\* A root may be given any current id, another cell anything.
LEMMA CellKeepsReferences ==
  ASSUME NEW h, LayoutInv(h), ReferenceInv(h), NEW c \in Cells, NEW v \in Values,
         c \in Registered /\ is_object(v) => Physical(h, v),
         NEW g, g = [h EXCEPT !.cells[c] = v]
  PROVE  LayoutInv(g) /\ ReferenceInv(g)
<1>1. /\ SameButOperands(h, g) /\ g.extra \in Seq(Values) /\ g.cells \in [Cells -> Values]
      /\ g.cells = [h.cells EXCEPT ![c] = v] /\ h.cells \in [Cells -> Values]
  BY DEF LayoutInv, HeapIsTyped, HeapFields, SameButOperands
<1>2. LayoutInv(g) /\ SamePlaces(h, g)
  BY <1>1, OperandsKeep
<1>3. g.objects = h.objects /\ g.generations = h.generations /\ g.phase = h.phase
      /\ g.worklist = h.worklist /\ g.remembered_set = h.remembered_set
  BY <1>1 DEF SameButOperands
<1>4. StrongResolve(g)
  BY <1>2, <1>3, SameReferences DEF ReferenceInv
<1>5. \A id : Physical(g, id) <=> Physical(h, id)
  BY <1>3 DEF Physical
<1>6. RootsAreCurrent(g)
  <2> SUFFICES ASSUME NEW d \in Cells \ RawCells, is_object(g.cells[d]) PROVE Physical(g, g.cells[d])
    BY DEF RootsAreCurrent
  <2>1. CASE d = c
    BY <1>1, <1>5, <2>1 DEF Registered
  <2>2. CASE d # c
    BY <1>1, <1>5, <2>2 DEF ReferenceInv, RootsAreCurrent
  <2> QED BY <2>1, <2>2
<1>7. Headers(g) = Headers(h) /\ \A id : ObjectOf(g, id) = ObjectOf(h, id)
  <2>1. \A id : checked_slot(g, id) = checked_slot(h, id)
    BY <1>2, SamePlacesResolve DEF LayoutInv
  <2> QED BY <1>2, <1>3, <2>1 DEF SamePlaces, ObjectOf
<1>8. MarksAreSafe(g)
  BY <1>3, <1>5, <1>7 DEF ReferenceInv, MarksAreSafe, MarksAreClear, validate_incremental_marking
<1>9. validate_remembered_set(g)
  BY <1>2, <1>3, RememberedAlike DEF ReferenceInv
<1> QED BY <1>2, <1>4, <1>6, <1>8, <1>9 DEF ReferenceInv

LEMMA ReturnKeepsReferences ==
  ASSUME NEW k, Returns(k), NEW c \in Registered, ReturnTo(c, k)
  PROVE  ReferenceInv(heap)'
<1> DEFINE v == k.extra[1]
           g == [k EXCEPT !.cells[c] = v]
<1>1. v \in Values /\ Physical(k, v) /\ g = [k EXCEPT !.cells[c] = v] /\ c \in Cells
  BY IdsAreReferences, RegisteredCells DEF Returns
<1>2. Become(g)
  BY DEF ReturnTo
<1> HIDE DEF v, g
<1>3. LayoutInv(g) /\ ReferenceInv(g)
  BY <1>1, CellKeepsReferences DEF Returns
<1> QED BY <1>2, <1>3, BecomeKeepsReferences

LEMMA StressedKeepsReferences ==
  ASSUME GcInv, NEW config, NEW h, h = Stressed(config)
  PROVE  /\ LayoutInv(h) /\ ReferenceInv(h) /\ StressedAs(config, h)
         /\ \A v : Physical(h, v) <=> Physical(heap, v)
<1>1. LayoutInv(heap) /\ ReferenceInv(heap)
  BY DEF GcInv, GcLayoutInv, GcReferenceInv
<1>2. StressedAs(config, h)
  BY <1>1, StressedKeeps
<1>3. h.cells = heap.cells
  BY HeapRecord DEF Stressed, HeapFields
<1>4. LayoutInv(h) /\ SamePlaces(heap, h) /\ SameButOperands(heap, h)
  BY <1>2 DEF StressedAs
<1> DEFINE k == heap
<1>5. k = heap
  OBVIOUS
<1> HIDE DEF k
<1>6. ReferenceInv(h)
  BY <1>1, <1>3, <1>4, <1>5, OperandsKeepReferences
<1>7. \A v : Physical(h, v) <=> Physical(heap, v)
  BY <1>4 DEF SameButOperands, Physical
<1> QED BY <1>2, <1>4, <1>6, <1>7

\* A receiver is named by its current id.
LEMMA ReceiversAreCurrent ==
  ASSUME GcInv, OwnersAreCurrent, NEW kinds
  PROVE  \A v \in Receivers(kinds) : Physical(heap, v)
<1> SUFFICES ASSUME NEW v \in Receivers(kinds) PROVE Physical(heap, v)
  OBVIOUS
<1>1. PICK c \in host.owners : v = cells[c]
  BY DEF Receivers
<1>2. is_object(v)
  BY DEF Receivers, Resolves
<1>3. c \in Cells \ RawCells
  BY HostsAssumption DEF OwnersAreCurrent, GcInv, GcLayoutInv
<1>4. heap.cells[c] = v
  BY <1>1, HeapRecord
<1> QED BY <1>2, <1>3, <1>4 DEF GcInv, GcReferenceInv, ReferenceInv, RootsAreCurrent

LEMMA AllocateObjectReferences ==
  ASSUME GcInv, AllocateObject
  PROVE  ReferenceInv(heap)'
<1> SUFFICES ASSUME NEW config \in host.stress, NEW c \in Registered, NEW shape \in NextShapes,
                    NEW values \in [1 .. shape.refs -> Operands],
                    NEW text \in [1 .. (IF shape.kind = "Str" THEN Slots(shape.length) ELSE 0) -> Chunks],
                    Admissible(shape, values),
                    ReturnTo(c, AllocateFrom(Stressed(config), values,
                                  LAMBDA b : NewObject(b, shape, b.extra, text)))
             PROVE  ReferenceInv(heap)'
  BY DEF AllocateObject
<1> DEFINE h == Stressed(config)
           b == StressBeforeAllocation(h, values)
           o == NewObject(b, shape, b.extra, text)
           g == StressAfterAllocation(allocate_object(b, o))
<1>1. ReturnTo(c, g)
  BY DEF AllocateFrom, AllocateIn
<1>2. h = Stressed(config)
  OBVIOUS
<1>3. b = StressBeforeAllocation(h, values) /\ o = NewObject(b, shape, b.extra, text)
  OBVIOUS
<1>4. g = StressAfterAllocation(allocate_object(b, o))
  OBVIOUS
<1> HIDE DEF h, b, o, g
<1>5. GcLayoutInv /\ LayoutInv(heap)
  BY DEF GcInv, GcLayoutInv
<1>6. LayoutInv(h) /\ ReferenceInv(h) /\ StressedAs(config, h)
  BY <1>2, StressedKeepsReferences
<1>7. \A v : Resolves(h, v) <=> Resolves(heap, v)
  BY <1>6 DEF StressedAs
<1>8. Constructible(shape)
  BY <1>5, NextShapeIs
<1>9. values \in [1 .. shape.refs -> Values]
  BY <1>5, OperandsAreUsable
<1>10. \A i \in 1 .. shape.refs : is_object(values[i]) => Resolves(h, values[i])
  BY <1>5, <1>7, OperandsAreUsable
<1>11. shape.kind = "Ephemeron" => is_object(values[1])
  BY DEF Admissible, is_object
<1> DEFINE n == IF shape.kind = "Str" THEN Slots(shape.length) ELSE 0
<1>12. n \in Nat
  BY <1>8, SlotsOfBytes DEF Constructible
<1>13. text \in [1 .. n -> Chunks] /\ (shape.kind = "Builder" => n = 0)
  OBVIOUS
<1> HIDE DEF n
<1>14. text \in Seq(Chunks) /\ Len(text) = n
  BY <1>12, <1>13, SeqDef, LenProperties
<1>15. shape.kind = "Builder" => text = <<>>
  BY <1>13, <1>14, EmptySeq
<1>16. Given(h, shape, values, text)
  BY <1>8, <1>9, <1>10, <1>11, <1>14, <1>15 DEF Given
<1>17. Returns(g)
  BY <1>3, <1>4, <1>6, <1>16, ConstructorKeepsReferences
<1> QED BY <1>1, <1>17, ReturnKeepsReferences

LEMMA ConcatStringsReferences ==
  ASSUME GcInv, ConcatStrings
  PROVE  ReferenceInv(heap)'
<1> SUFFICES ASSUME NEW config \in host.stress, NEW c \in Registered,
                    NEW left \in StringOperands, NEW right \in StringOperands,
                    ReturnTo(c, allocate_string_concat(Stressed(config), left, right))
             PROVE  ReferenceInv(heap)'
  BY DEF ConcatStrings
<1> DEFINE h == Stressed(config)
           g == allocate_string_concat(h, left, right)
<1>1. ReturnTo(c, g) /\ h = Stressed(config) /\ g = allocate_string_concat(h, left, right)
  OBVIOUS
<1> HIDE DEF h, g
<1>2. LayoutInv(h) /\ ReferenceInv(h) /\ StressedAs(config, h)
  BY <1>1, StressedKeepsReferences
<1>3. left \in Values /\ Resolves(h, left) /\ right \in Values /\ Resolves(h, right)
  BY <1>2, StringsAreUsable DEF StressedAs, GcInv, GcLayoutInv
<1>4. Returns(g)
  BY <1>1, <1>2, <1>3, ConcatKeepsReferences
<1> QED BY <1>1, <1>4, ReturnKeepsReferences

LEMMA TakeSubstringReferences ==
  ASSUME GcInv, TakeSubstring
  PROVE  ReferenceInv(heap)'
<1> SUFFICES ASSUME NEW config \in host.stress, NEW c \in Registered, NEW source \in StringOperands,
                    NEW hi \in 0 .. Len(ObjectOf(heap, source).text), NEW lo \in 0 .. hi,
                    ReturnTo(c, allocate_string_substring(Stressed(config), source, lo, hi))
             PROVE  ReferenceInv(heap)'
  BY DEF TakeSubstring
<1> DEFINE h == Stressed(config)
           g == allocate_string_substring(h, source, lo, hi)
<1>1. ReturnTo(c, g) /\ h = Stressed(config) /\ g = allocate_string_substring(h, source, lo, hi)
  OBVIOUS
<1> HIDE DEF h, g
<1>2. LayoutInv(h) /\ ReferenceInv(h) /\ StressedAs(config, h)
  BY <1>1, StressedKeepsReferences
<1>3. source \in Values /\ Resolves(h, source) /\ hi \in 0 .. Len(ObjectOf(h, source).text)
  BY <1>2, StringsAreUsable DEF StressedAs, GcInv, GcLayoutInv
<1>4. Returns(g)
  BY <1>1, <1>2, <1>3, SubstringKeepsReferences
<1> QED BY <1>1, <1>4, ReturnKeepsReferences

LEMMA BuilderToStringReferences ==
  ASSUME GcInv, BuilderToString
  PROVE  ReferenceInv(heap)'
<1> SUFFICES ASSUME NEW config \in host.stress, NEW c \in Registered,
                    NEW builder \in Receivers({"Builder"}),
                    ReturnTo(c, builder_to_string(Stressed(config), builder))
             PROVE  ReferenceInv(heap)'
  BY DEF BuilderToString
<1> DEFINE h == Stressed(config)
           g == builder_to_string(h, builder)
<1>1. ReturnTo(c, g) /\ h = Stressed(config) /\ g = builder_to_string(h, builder)
  OBVIOUS
<1> HIDE DEF h, g
<1>2. LayoutInv(h) /\ ReferenceInv(h) /\ StressedAs(config, h)
  BY <1>1, StressedKeepsReferences
<1>3. builder \in Values /\ Resolves(h, builder)
  BY <1>2, ReceiversAreUsable DEF StressedAs, GcInv, GcLayoutInv
<1>4. Returns(g)
  BY <1>1, <1>2, <1>3, BuilderToStringKeepsReferences
<1> QED BY <1>1, <1>4, ReturnKeepsReferences

LEMMA InternStringReferences ==
  ASSUME GcInv, InternString
  PROVE  ReferenceInv(heap)'
<1> SUFFICES ASSUME NEW config \in host.stress, NEW c \in Registered, NEW source \in StringOperands,
                    ReturnTo(c, intern_string(Stressed(config), source))
             PROVE  ReferenceInv(heap)'
  BY DEF InternString
<1> DEFINE h == Stressed(config)
           g == intern_string(h, source)
<1>1. ReturnTo(c, g) /\ h = Stressed(config) /\ g = intern_string(h, source)
  OBVIOUS
<1> HIDE DEF h, g
<1>2. LayoutInv(h) /\ ReferenceInv(h) /\ StressedAs(config, h)
  BY <1>1, StressedKeepsReferences
<1>3. source \in Values /\ Resolves(h, source)
  BY <1>2, StringsAreUsable DEF StressedAs, GcInv, GcLayoutInv
<1>4. Returns(g)
  BY <1>1, <1>2, <1>3, InternKeepsReferences
<1> QED BY <1>1, <1>4, ReturnKeepsReferences

\* The operands of a store, as the heap that it starts from names them.
LEMMA StoreStartsFrom ==
  ASSUME GcInv, OwnersAreCurrent, NEW config, NEW h, h = Stressed(config), NEW kinds,
         NEW owner \in Receivers(kinds), NEW value \in Operands
  PROVE  /\ LayoutInv(h) /\ ReferenceInv(h)
         /\ owner \in Ids /\ owner \in Values /\ Resolves(h, owner) /\ Physical(h, owner)
         /\ ObjectOf(h, owner) = ObjectOf(heap, owner) /\ ObjectOf(h, owner).kind \in kinds
         /\ ObjectOf(h, owner) \in Objects /\ validate_descriptor_shape(ObjectOf(h, owner))
         /\ value \in Values /\ (is_object(value) => Resolves(h, value))
<1>1. /\ LayoutInv(h) /\ ReferenceInv(h)
      /\ \A v : Physical(h, v) <=> Physical(heap, v)
  BY StressedKeepsReferences
<1>2. /\ owner \in Ids /\ owner \in Values /\ Resolves(h, owner)
      /\ ObjectOf(h, owner) = ObjectOf(heap, owner) /\ ObjectOf(h, owner).kind \in kinds
      /\ ObjectOf(h, owner) \in Objects /\ validate_descriptor_shape(ObjectOf(h, owner))
      /\ value \in Values /\ (is_object(value) => Resolves(h, value))
  <2>1. GcLayoutInv
    BY DEF GcInv
  <2> QED BY <2>1, StoreStarts
<1>3. Physical(h, owner)
  BY <1>1, ReceiversAreCurrent
<1> QED BY <1>1, <1>2, <1>3

LEMMA StoreFieldReferences ==
  ASSUME GcInv, OwnersAreCurrent, StoreField
  PROVE  ReferenceInv(heap)'
<1> SUFFICES ASSUME NEW config \in host.stress, NEW owner \in Receivers({"Pair", "Record", "RefArray"}),
                    NEW value \in Operands, NEW i \in DOMAIN ObjectOf(heap, owner).strong,
                    Become(store_field(Stressed(config), owner, i, value))
             PROVE  ReferenceInv(heap)'
  BY DEF StoreField
<1> DEFINE h == Stressed(config)
           g == store_field(h, owner, i, value)
<1>1. Become(g) /\ h = Stressed(config) /\ g = store_field(h, owner, i, value)
  OBVIOUS
<1> HIDE DEF h, g
<1>2. /\ LayoutInv(h) /\ ReferenceInv(h) /\ owner \in Ids /\ Physical(h, owner) /\ Resolves(h, owner)
      /\ i \in DOMAIN ObjectOf(h, owner).strong /\ value \in Values
      /\ is_object(value) => Resolves(h, value)
  BY <1>1, StoreStartsFrom
<1>3. LayoutInv(g)
  BY <1>1, <1>2, StoreFieldKeeps
<1>4. ReferenceInv(g)
  BY <1>1, <1>2, StoreFieldKeepsReferences
<1> QED BY <1>1, <1>3, <1>4, BecomeKeepsReferences

LEMMA StoreEphemeronValueReferences ==
  ASSUME GcInv, OwnersAreCurrent, StoreEphemeronValue
  PROVE  ReferenceInv(heap)'
<1> SUFFICES ASSUME NEW config \in host.stress, NEW owner \in Receivers({"Ephemeron"}),
                    NEW value \in Operands, is_object(ObjectOf(heap, owner).soft[1]),
                    Become(store_ephemeron_value(Stressed(config), owner, value))
             PROVE  ReferenceInv(heap)'
  BY DEF StoreEphemeronValue
<1> DEFINE h == Stressed(config)
           g == store_ephemeron_value(h, owner, value)
<1>1. Become(g) /\ h = Stressed(config) /\ g = store_ephemeron_value(h, owner, value)
  OBVIOUS
<1> DEFINE kinds == {"Ephemeron"}
<1>0. owner \in Receivers(kinds) /\ \A kind \in kinds : kind = "Ephemeron"
  OBVIOUS
<1> HIDE DEF kinds, h, g
<1>2. /\ LayoutInv(h) /\ ReferenceInv(h) /\ owner \in Ids /\ Physical(h, owner) /\ Resolves(h, owner)
      /\ ObjectOf(h, owner) = ObjectOf(heap, owner) /\ ObjectOf(h, owner).kind = "Ephemeron"
      /\ value \in Values /\ (is_object(value) => Resolves(h, value))
  BY <1>0, <1>1, StoreStartsFrom
<1>3. LayoutInv(g)
  BY <1>1, <1>2, StoreEphemeronKeeps
<1>4. ReferenceInv(g)
  BY <1>1, <1>2, StoreEphemeronKeepsReferences
<1> QED BY <1>1, <1>3, <1>4, BecomeKeepsReferences

LEMMA KeysCanBeUsed ==
  ASSUME GcInv, NEW config, NEW h, h = Stressed(config), NEW key \in StringOperands \cup {Nil}
  PROVE  key \in Values /\ (is_object(key) => Resolves(h, key))
<1>1. StressedAs(config, h)
  BY StressedKeepsReferences
<1> QED BY <1>1, StringsAreUsable, KeysAreValues DEF StressedAs, is_object, GcInv, GcLayoutInv

LEMMA MapInsertReferences ==
  ASSUME GcInv, OwnersAreCurrent, MapInsert
  PROVE  ReferenceInv(heap)'
<1> SUFFICES ASSUME NEW config \in host.stress, NEW owner \in Receivers({"Map"}),
                    NEW key \in StringOperands \cup {Nil}, NEW value \in Operands,
                    Become(insert_map_entry(Stressed(config), owner, key, value))
             PROVE  ReferenceInv(heap)'
  BY DEF MapInsert
<1> DEFINE h == Stressed(config)
           g == insert_map_entry(h, owner, key, value)
<1>1. Become(g) /\ h = Stressed(config) /\ g = insert_map_entry(h, owner, key, value)
  OBVIOUS
<1> DEFINE kinds == {"Map"}
<1>0. owner \in Receivers(kinds) /\ \A kind \in kinds : kind = "Map"
  OBVIOUS
<1> HIDE DEF kinds, h, g
<1>2. /\ LayoutInv(h) /\ ReferenceInv(h) /\ owner \in Values /\ Resolves(h, owner)
      /\ ObjectOf(h, owner).kind = "Map" /\ value \in Values /\ (is_object(value) => Resolves(h, value))
  BY <1>0, <1>1, StoreStartsFrom
<1>3. key \in Values /\ (is_object(key) => Resolves(h, key))
  BY <1>1, KeysCanBeUsed
<1>4. LayoutInv(g)
  BY <1>1, <1>2, <1>3, InsertMapKeeps
<1>5. ReferenceInv(g)
  BY <1>1, <1>2, <1>3, InsertMapKeepsReferences
<1> QED BY <1>1, <1>4, <1>5, BecomeKeepsReferences

LEMMA MapUpdateReferences ==
  ASSUME GcInv, OwnersAreCurrent, MapUpdate
  PROVE  ReferenceInv(heap)'
<1> SUFFICES ASSUME NEW config \in host.stress, NEW owner \in Receivers({"Map"}), NEW value \in Operands,
                    NEW i \in 1 .. ObjectOf(heap, owner).length, NEW key \in StringOperands \cup {Nil},
                    Become(update_map_entry(Stressed(config), owner, i, key, value))
             PROVE  ReferenceInv(heap)'
  BY DEF MapUpdate
<1> DEFINE h == Stressed(config)
           g == update_map_entry(h, owner, i, key, value)
           o == ObjectOf(h, owner)
<1>1. Become(g) /\ h = Stressed(config) /\ g = update_map_entry(h, owner, i, key, value)
      /\ o = ObjectOf(h, owner)
  OBVIOUS
<1> DEFINE kinds == {"Map"}
<1>0. owner \in Receivers(kinds) /\ \A kind \in kinds : kind = "Map"
  OBVIOUS
<1> HIDE DEF kinds, h, g, o
<1>2. /\ LayoutInv(h) /\ ReferenceInv(h) /\ owner \in Ids /\ Physical(h, owner) /\ Resolves(h, owner)
      /\ o = ObjectOf(heap, owner) /\ o \in Objects /\ o.kind = "Map"
      /\ validate_descriptor_shape(o)
      /\ value \in Values /\ (is_object(value) => Resolves(h, value))
  BY <1>0, <1>1, StoreStartsFrom
<1>3. key \in Values /\ (is_object(key) => Resolves(h, key))
  BY <1>1, KeysCanBeUsed
<1>4. 2 * i \in DOMAIN o.strong /\ o = ObjectOf(h, owner)
  <2>1. o.strong \in Seq(Values) /\ o.length \in Nat /\ Len(o.strong) = 2 * o.length
    BY <1>2, ObjectFields DEF validate_descriptor_shape
  <2>2. DOMAIN o.strong = 1 .. 2 * o.length
    BY <2>1, LenProperties
  <2>3. i \in 1 .. o.length
    BY <1>2
  <2> QED BY <1>1, <2>1, <2>2, <2>3
<1>5. LayoutInv(g)
  BY <1>1, <1>2, <1>3, <1>4, UpdateMapKeeps
<1>6. ReferenceInv(g)
  BY <1>1, <1>2, <1>3, <1>4, UpdateMapKeepsReferences
<1> QED BY <1>1, <1>5, <1>6, BecomeKeepsReferences

LEMMA BuilderAppendReferences ==
  ASSUME GcInv, BuilderAppend
  PROVE  ReferenceInv(heap)'
<1> SUFFICES ASSUME NEW owner \in Receivers({"Builder"}), NEW source \in StringOperands,
                    Become(builder_append(heap, owner, source))
             PROVE  ReferenceInv(heap)'
  BY DEF BuilderAppend
<1> DEFINE g == builder_append(heap, owner, source)
<1>1. Become(g) /\ g = builder_append(heap, owner, source)
  OBVIOUS
<1> HIDE DEF g
<1>2. LayoutInv(heap) /\ ReferenceInv(heap) /\ host \in Hosts
  BY DEF GcInv, GcLayoutInv, GcReferenceInv
<1>3. owner \in Values /\ Resolves(heap, owner) /\ ObjectOf(heap, owner).kind = "Builder"
  BY <1>2, ReceiversAreUsable
<1>4. source \in Values /\ Resolves(heap, source)
  BY <1>2, StringsAreUsable
<1>5. LayoutInv(g) /\ BuilderGrown(heap, owner, source, g)
  BY <1>1, <1>2, <1>3, <1>4, BuilderAppendKeeps
<1>6. ReferenceInv(g)
  BY <1>2, <1>5, BuilderAppendKeepsReferences
<1> QED BY <1>1, <1>5, <1>6, BecomeKeepsReferences

LEMMA StoreScalarsReferences ==
  ASSUME GcInv, StoreScalars
  PROVE  ReferenceInv(heap)'
<1> SUFFICES ASSUME NEW owner \in Receivers({"Builder", "ScalarArray"}), NEW chunk \in Chunks,
                    Become(store_scalars(heap, owner,
                             IF ObjectOf(heap, owner).kind = "Builder" THEN <<>> ELSE <<chunk>>))
             PROVE  ReferenceInv(heap)'
  BY DEF StoreScalars
<1> DEFINE text == IF ObjectOf(heap, owner).kind = "Builder" THEN <<>> ELSE <<chunk>>
           g == store_scalars(heap, owner, text)
<1>1. Become(g) /\ g = store_scalars(heap, owner, text)
  OBVIOUS
<1>2. text \in Seq(Chunks) /\ (ObjectOf(heap, owner).kind = "Builder" => text = <<>>)
  OBVIOUS
<1> HIDE DEF text, g
<1>3. LayoutInv(heap) /\ ReferenceInv(heap) /\ host \in Hosts
  BY DEF GcInv, GcLayoutInv, GcReferenceInv
<1>4. owner \in Values /\ Resolves(heap, owner)
      /\ ObjectOf(heap, owner).kind \in {"Builder", "ScalarArray"}
  BY <1>3, ReceiversAreUsable
<1>5. LayoutInv(g) /\ Retexted(heap, checked_slot(heap, owner), text, g)
  BY <1>1, <1>2, <1>3, <1>4, StoreScalarsKeeps
<1>6. ReferenceInv(g)
  BY <1>3, <1>5, RetextedKeepsReferences
<1> QED BY <1>1, <1>5, <1>6, BecomeKeepsReferences

\* A read is rewritten to the current id of the object it reads.
LEMMA CanonicalIsCurrent ==
  ASSUME NEW h, LayoutInv(h), NEW v \in Ids, Resolves(h, v),
         NEW w, w = canonicalize_incremental_compaction_read(h, v)
  PROVE  Physical(h, w)
<1>1. HeapIsTyped(h) /\ RunsFollow(h) /\ PhaseIsClean(h)
  BY DEF LayoutInv
<1>2. CASE h.phase = "compacting"
  <2>1. Named(h)
    BY <1>1, <1>2, PlanNames DEF PhaseIsClean
  <2>2. PICK i \in DOMAIN h.plan : NamesEntry(h, i, v)
    BY <2>1 DEF Named
  <2>3. w = Name(h, i) /\ Base(h, i) \in Headers(h) /\ IdAt(h, Base(h, i)) = Name(h, i)
    BY <2>1, <2>2 DEF Named
  <2> QED BY <1>1, <2>3, IdOfBase
<1>3. CASE h.phase # "compacting"
  <2>1. h.cursor = 0
    BY <1>1, <1>3 DEF PhaseIsClean
  <2>2. w = v
    BY <2>1, StillHeap
  <2> QED BY <1>3, <2>2, StillResolves
<1> QED BY <1>2, <1>3

LEMMA LoadReferenceReferences ==
  ASSUME GcInv, LoadReference
  PROVE  ReferenceInv(heap)'
<1> SUFFICES ASSUME NEW c \in Registered, NEW owner \in ObjectOperands,
                    NEW v \in visit_reference_fields(ObjectOf(heap, owner))
                              \cup SoftReferences(ObjectOf(heap, owner)),
                    Become([heap EXCEPT !.cells[c] = canonicalize_incremental_compaction_read(heap, v)])
             PROVE  ReferenceInv(heap)'
  BY DEF LoadReference
<1> DEFINE h == heap
           w == canonicalize_incremental_compaction_read(h, v)
           g == [h EXCEPT !.cells[c] = w]
<1>1. Become(g) /\ w = canonicalize_incremental_compaction_read(h, v) /\ g = [h EXCEPT !.cells[c] = w]
  OBVIOUS
<1>2. h = heap
  OBVIOUS
<1> HIDE DEF w, g, h
<1>3. LayoutInv(h) /\ ReferenceInv(h)
  BY <1>2 DEF GcInv, GcLayoutInv, GcReferenceInv
<1>4. owner \in Values /\ Resolves(h, owner)
  BY <1>2, <1>3, OperandsAreUsable DEF ObjectOperands, is_object
<1>5. ObjectOf(h, owner) = h.objects[checked_slot(h, owner)] /\ checked_slot(h, owner) \in Headers(h)
      /\ ObjectOf(h, owner) \in Objects
  BY <1>3, <1>4, ResolvedObject DEF ObjectOf
<1>6. v \in Ids
  <2>1. v \in Values \ {Nil}
    BY <1>2, <1>5, FieldsAreValues
  <2> QED BY <2>1 DEF Values
<1>7. Resolves(h, v)
  BY <1>2, <1>3, <1>5 DEF ReferenceInv, StrongResolve, LayoutInv, RegistriesName
<1>8. Physical(h, w)
  BY <1>1, <1>3, <1>6, <1>7, CanonicalIsCurrent
<1>9. w \in Values /\ c \in Cells
  <2>1. v \in Values
    BY <1>6, IdsAreReferences
  <2> QED BY <1>1, <1>3, <2>1, CanonicalReference, RegisteredCells
<1>10. LayoutInv(g) /\ ReferenceInv(g)
  BY <1>1, <1>3, <1>8, <1>9, CellKeepsReferences
<1> QED BY <1>1, <1>10, BecomeKeepsReferences

LEMMA AssignReferences ==
  ASSUME GcInv, Assign
  PROVE  ReferenceInv(heap)'
<1> SUFFICES ASSUME NEW c \in Registered \cup host.raw, NEW v \in Operands,
                    c \in Registered => v \in {cells[d] : d \in Registered} \cup {Nil},
                    Become([heap EXCEPT !.cells[c] = v])
             PROVE  ReferenceInv(heap)'
  BY DEF Assign
<1> DEFINE h == heap
           g == [h EXCEPT !.cells[c] = v]
<1>1. Become(g) /\ g = [h EXCEPT !.cells[c] = v]
  OBVIOUS
<1>2. h = heap
  OBVIOUS
<1>3. h.cells = cells
  BY HeapRecord
<1> HIDE DEF g, h
<1>4. LayoutInv(h) /\ ReferenceInv(h)
  BY <1>2 DEF GcInv, GcLayoutInv, GcReferenceInv
<1>5. c \in Cells /\ v \in Values
  BY RegisteredCells, HostsAssumption, CellsAssumption, OperandsAreUsable DEF GcInv, GcLayoutInv
<1>6. c \in Registered /\ is_object(v) => Physical(h, v)
  BY <1>3, <1>4 DEF is_object, Registered, ReferenceInv, RootsAreCurrent
<1>7. LayoutInv(g) /\ ReferenceInv(g)
  BY <1>1, <1>4, <1>5, <1>6, CellKeepsReferences
<1> QED BY <1>1, <1>7, BecomeKeepsReferences

(***************************************************************************)
(* The collector's entry points.                                           *)
(***************************************************************************)
LEMMA collectReferences ==
  ASSUME GcInv, collect \/ collect_minor
  PROVE  ReferenceInv(heap)'
<1>1. PICK kind : Become(collect_impl(heap, kind))
  BY DEF collect, collect_minor
<1> DEFINE g == collect_impl(heap, kind)
<1>2. Become(g) /\ g = collect_impl(heap, kind)
  BY <1>1
<1> HIDE DEF g
<1>3. LayoutInv(heap) /\ ReferenceInv(heap)
  BY DEF GcInv, GcLayoutInv, GcReferenceInv
<1>4. LayoutInv(g)
  BY <1>2, <1>3, CollectKeeps
<1>5. ReferenceInv(g)
  BY <1>2, <1>3, CollectKeepsReferences
<1> QED BY <1>2, <1>4, <1>5, BecomeKeepsReferences

\* The grey ids of a marking cycle are current.
LEMMA GreyIdsAreCurrent ==
  ASSUME NEW h, LayoutInv(h), h.phase # "compacting", NEW values, NEW kind
  PROVE  \A s \in Enqueued(h, values, kind) :
           s \in Headers(h) /\ IdAt(h, s) \in Ids /\ Physical(h, IdAt(h, s))
<1>1. HeapIsTyped(h) /\ RunsFollow(h) /\ h.cursor = 0
  BY DEF LayoutInv, PhaseIsClean
<1>2. Enqueued(h, values, kind) \subseteq Headers(h)
  BY <1>1, EnqueuedIsObject
<1> QED BY <1>1, <1>2, IdOfBase

LEMMA start_incremental_markingReferences ==
  ASSUME GcInv, start_incremental_marking
  PROVE  ReferenceInv(heap)'
<1> DEFINE h == heap
           roots == RootValues(h)
           major == "Major"
           grey == {IdAt(h, s) : s \in Enqueued(h, roots, major)}
           g == [h EXCEPT !.phase = "marking", !.worklist = grey]
<1>1. Become(g) /\ g = [h EXCEPT !.phase = "marking", !.worklist = grey] /\ h.phase = "idle"
  BY HeapRecord DEF start_incremental_marking
<1>2. grey = {IdAt(h, s) : s \in Enqueued(h, roots, major)} /\ h = heap
  OBVIOUS
<1> HIDE DEF grey, g, h, roots, major
<1>3. LayoutInv(h) /\ ReferenceInv(h) /\ h.phase # "compacting" /\ h.phase # "marking"
  BY <1>1, <1>2 DEF GcInv, GcLayoutInv, GcReferenceInv
<1>4. AtRest(h) /\ MarksAreClear(h)
  BY <1>3, ReferencesByPhase DEF AtRest
<1>5. \A id \in grey : id \in Ids /\ Physical(h, id)
  BY <1>2, <1>3, GreyIdsAreCurrent
<1>6. SameButPhase(h, g) /\ g.phase = "marking" /\ g.worklist = grey
  BY <1>1, <1>3 DEF SameButPhase, HeapFields, LayoutInv, HeapIsTyped
<1>7. g.worklist \subseteq Ids /\ g.phase # "idle"
  BY <1>5, <1>6
<1>8. LayoutInv(g) /\ SamePlaces(h, g) /\ g.objects = h.objects
  BY <1>3, <1>6, <1>7, PhaseKeeps
<1>9. AtRest(g)
  BY <1>3, <1>4, <1>6, <1>8, PhaseKeepsReferences
<1>10. MarksAreSafe(g)
  <2>1. \A id \in g.worklist : Physical(g, id)
    BY <1>5, <1>6 DEF Physical, SameButPhase
  <2>2. validate_incremental_marking(g)
    BY <1>9 DEF AtRest, MarksAreClear, validate_incremental_marking
  <2> QED BY <1>6, <2>1, <2>2 DEF MarksAreSafe
<1>11. ReferenceInv(g)
  BY <1>9, <1>10 DEF AtRest, ReferenceInv
<1> QED BY <1>1, <1>8, <1>11, BecomeKeepsReferences

LEMMA finish_incremental_markingReferences ==
  ASSUME GcInv, finish_incremental_marking
  PROVE  ReferenceInv(heap)'
<1> DEFINE g == finish_incremental_marking_impl(heap)
<1>1. Become(g) /\ g = finish_incremental_marking_impl(heap) /\ heap.phase = "marking"
  BY HeapRecord DEF finish_incremental_marking
<1> HIDE DEF g
<1>2. LayoutInv(heap) /\ ReferenceInv(heap)
  BY DEF GcInv, GcLayoutInv, GcReferenceInv
<1>3. LayoutInv(g) /\ g.phase = "idle"
  BY <1>1, <1>2, FinishMarkingKeeps
<1>4. AtRest(g)
  BY <1>1, <1>2, FinishMarkingKeepsReferences DEF ReferenceInv
<1>5. g.phase # "marking"
  BY <1>3
<1>6. ReferenceInv(g)
  BY <1>4, <1>5, AtRestIsSound
<1> QED BY <1>1, <1>3, <1>6, BecomeKeepsReferences

LEMMA finish_marking_to_compactionReferences ==
  ASSUME GcInv, finish_marking_to_compaction
  PROVE  ReferenceInv(heap)'
<1> DEFINE g == finish_incremental_marking_to_incremental_compaction(heap)
<1>1. Become(g) /\ g = finish_incremental_marking_to_incremental_compaction(heap) /\ heap.phase = "marking"
  BY HeapRecord DEF finish_marking_to_compaction
<1> HIDE DEF g
<1>2. LayoutInv(heap) /\ ReferenceInv(heap)
  BY DEF GcInv, GcLayoutInv, GcReferenceInv
<1>3. LayoutInv(g) /\ g.phase = "compacting"
  BY <1>1, <1>2, MarkedToCompactionKeeps
<1>4. AtRest(g)
  BY <1>1, <1>2, MarkedToCompactionKeepsReferences DEF ReferenceInv
<1>5. g.phase # "marking"
  BY <1>3
<1>6. ReferenceInv(g)
  BY <1>4, <1>5, AtRestIsSound
<1> QED BY <1>1, <1>3, <1>6, BecomeKeepsReferences

LEMMA start_incremental_compactionReferences ==
  ASSUME GcInv, start_incremental_compaction
  PROVE  ReferenceInv(heap)'
<1> DEFINE g == prepare_incremental_compaction(heap)
<1>1. Become(g) /\ g = prepare_incremental_compaction(heap) /\ heap.phase = "idle"
  BY HeapRecord DEF start_incremental_compaction
<1> HIDE DEF g
<1>2. LayoutInv(heap) /\ ReferenceInv(heap) /\ heap.phase # "marking"
  BY <1>1 DEF GcInv, GcLayoutInv, GcReferenceInv
<1>3. LayoutInv(g) /\ g.phase = "compacting"
  BY <1>1, <1>2, StartCompactionKeeps
<1>4. AtRest(heap)
  BY <1>2, AtRestIsSound
<1>5. AtRest(g)
  BY <1>1, <1>2, <1>4, StartCompactionKeepsReferences
<1>6. g.phase # "marking"
  BY <1>3
<1>7. ReferenceInv(g)
  BY <1>5, <1>6, AtRestIsSound
<1> QED BY <1>1, <1>3, <1>7, BecomeKeepsReferences

LEMMA incremental_compact_stepReferences ==
  ASSUME GcInv, incremental_compact_step
  PROVE  ReferenceInv(heap)'
<1> DEFINE g == RelocateNext(heap)
<1>1. /\ Become(g) /\ g = RelocateNext(heap)
      /\ heap.phase = "compacting" /\ heap.cursor < Len(heap.plan)
  BY HeapRecord DEF incremental_compact_step
<1> HIDE DEF g
<1>2. LayoutInv(heap) /\ ReferenceInv(heap) /\ heap.phase # "marking"
  BY <1>1 DEF GcInv, GcLayoutInv, GcReferenceInv
<1>3. LayoutInv(g) /\ g.phase = "compacting"
  BY <1>1, <1>2, RelocateKeeps
<1>4. AtRest(heap)
  BY <1>2, AtRestIsSound
<1>5. AtRest(g)
  BY <1>1, <1>2, <1>4, RelocateKeepsReferences
<1>6. g.phase # "marking"
  BY <1>3
<1>7. ReferenceInv(g)
  BY <1>5, <1>6, AtRestIsSound
<1> QED BY <1>1, <1>3, <1>7, BecomeKeepsReferences

LEMMA finish_incremental_compactionReferences ==
  ASSUME GcInv, finish_incremental_compaction
  PROVE  ReferenceInv(heap)'
<1> DEFINE g == finish_incremental_compaction_impl(heap)
<1>1. Become(g) /\ g = finish_incremental_compaction_impl(heap) /\ heap.phase = "compacting"
  BY HeapRecord DEF finish_incremental_compaction
<1> HIDE DEF g
<1>2. LayoutInv(heap) /\ ReferenceInv(heap) /\ heap.phase # "marking"
  BY <1>1 DEF GcInv, GcLayoutInv, GcReferenceInv
<1>3. LayoutInv(g) /\ g.phase = "idle"
  BY <1>1, <1>2, FinishCompactionKeeps
<1>4. AtRest(heap)
  BY <1>2, AtRestIsSound
<1>5. AtRest(g)
  BY <1>1, <1>2, <1>4, FinishCompactionKeepsReferences
<1>6. g.phase # "marking"
  BY <1>3
<1>7. ReferenceInv(g)
  BY <1>5, <1>6, AtRestIsSound
<1> QED BY <1>1, <1>3, <1>7, BecomeKeepsReferences

\* The ids that a scan of the object at slot puts on the worklist, and what
\* is grey after it.
FreshIds(next, slot) ==
  {IdAt(next, s) : s \in Enqueued(next, visit_reference_fields(next.objects[slot]), "Major")}
GreyAfter(h, next, fresh) == {x \in h.worklist \cup fresh : ~ObjectOf(next, x).marked}

\* One object turns black, and those of its children that are white grey.
LEMMA MarkStepKeepsReferences ==
  ASSUME NEW h, LayoutInv(h), ReferenceInv(h), h.phase = "marking",
         NEW id \in h.worklist, NEW slot, slot = checked_slot(h, id),
         NEW next, BlackAt(h, slot, next), next.worklist = h.worklist,
         NEW fresh, fresh = FreshIds(next, slot), NEW ids, ids = GreyAfter(h, next, fresh),
         NEW g, BlackAt(h, slot, g), g.worklist = ids
  PROVE  LayoutInv(g) /\ ReferenceInv(g)
<1>1. HeapIsTyped(h) /\ h.worklist \subseteq Ids /\ h.phase # "compacting"
  BY DEF LayoutInv, HeapIsTyped
<1>2. LayoutInv(next) /\ HeapIsTyped(next)
  BY <1>1, MarkStepKeeps
<1>3. /\ Headers(next) = Headers(h) /\ g.objects = next.objects /\ g.generations = next.generations
      /\ next.phase = h.phase /\ next.cursor = h.cursor /\ next.plan = h.plan
      /\ g.phase = h.phase /\ g.cursor = h.cursor /\ g.plan = h.plan
      /\ g.cells = h.cells /\ g.remembered_set = h.remembered_set
      /\ next.generations = h.generations
  <2>1. Headers(next) = Headers(h)
    BY <1>1, BlackObjects
  <2> QED BY <2>1 DEF BlackAt
<1> DEFINE values == visit_reference_fields(next.objects[slot])  major == "Major"
<1>4. fresh = {IdAt(next, s) : s \in Enqueued(next, values, major)} /\ major # "Minor"
      /\ values = visit_reference_fields(next.objects[slot])
      /\ ids = {x \in h.worklist \cup fresh : ~ObjectOf(next, x).marked}
  BY DEF FreshIds, GreyAfter
<1> HIDE DEF values, major
<1>5. \A x \in fresh : x \in Ids /\ Physical(next, x)
  BY <1>1, <1>2, <1>3, <1>4, GreyIdsAreCurrent
<1>6. LayoutInv(g) /\ HeapIsTyped(g)
  <2>1. g.worklist \subseteq Ids
    BY <1>1, <1>4, <1>5
  <2> QED BY <1>1, <2>1, MarkStepKeeps
<1>7. SamePlaces(h, g) /\ SamePlaces(h, next)
  <2>1. Headers(g) = Headers(h)
    BY <1>3 DEF Headers
  <2> QED BY <1>2, <1>3, <1>6, <2>1 DEF SamePlaces
<1>8. slot \in Headers(h)
  <2>1. id \in Ids /\ Physical(h, id)
    BY <1>1 DEF ReferenceInv, MarksAreSafe
  <2> QED BY <2>1, CurrentResolves
<1>9. \A s \in Headers(h) :
        /\ g.objects[s].strong = h.objects[s].strong /\ g.objects[s].age = h.objects[s].age
        /\ g.objects[s].marked <=> h.objects[s].marked \/ s = slot
  <2> SUFFICES ASSUME NEW s \in Headers(h)
               PROVE  /\ g.objects[s].strong = h.objects[s].strong /\ g.objects[s].age = h.objects[s].age
                      /\ g.objects[s].marked <=> h.objects[s].marked \/ s = slot
    OBVIOUS
  <2>1. g.objects = [h.objects EXCEPT ![slot] = [h.objects[slot] EXCEPT !.marked = TRUE]]
    BY DEF BlackAt
  <2>2. h.objects[s] \in Objects /\ s \in DOMAIN h.objects
    BY <1>1, HeaderIsObject DEF Headers
  <2>3. CASE s = slot
    <3>1. g.objects[s] = [h.objects[s] EXCEPT !.marked = TRUE]
      BY <2>1, <2>2, <2>3
    <3> QED BY <2>2, <2>3, <3>1 DEF Objects
  <2>4. CASE s # slot
    BY <2>1, <2>2, <2>4
  <2> QED BY <2>3, <2>4
<1>10. StrongResolve(g) /\ RootsAreCurrent(g)
  BY <1>3, <1>7, <1>9, SameReferences DEF ReferenceInv
<1>11. validate_remembered_set(g)
  BY <1>3, <1>7, <1>9, RememberedAlike DEF ReferenceInv
<1>12. \A x : checked_slot(g, x) = checked_slot(h, x) /\ checked_slot(next, x) = checked_slot(h, x)
              /\ ObjectOf(g, x) = ObjectOf(next, x)
  BY <1>1, <1>3, <1>7, SamePlacesResolve DEF ObjectOf
<1>13. validate_incremental_marking(g)
  <2> SUFFICES ASSUME NEW s \in Headers(h), g.objects[s].marked,
                      NEW v \in visit_reference_fields(g.objects[s]), ~ObjectOf(g, v).marked
               PROVE  v \in ids
    BY <1>7 DEF validate_incremental_marking, SamePlaces
  <2>1. v \in visit_reference_fields(h.objects[s])
    BY <1>9 DEF visit_reference_fields
  <2>2. v \in Ids /\ v # Nil
    BY <2>1, StrongFieldsAreIds
  <2>3. Resolves(h, v)
    BY <2>1 DEF ReferenceInv, StrongResolve
  <2> DEFINE t == checked_slot(h, v)
  <2>4. t \in Headers(h) /\ v = IdAt(h, t) /\ t = checked_slot(next, v)
    BY <1>1, <1>12, <2>2, <2>3, StillResolves
  <2>5. ObjectOf(g, v) = next.objects[t] /\ ObjectOf(h, v) = h.objects[t]
    BY <1>3, <1>12, <2>4 DEF ObjectOf
  <2> HIDE DEF t
  <2>6. CASE s = slot
    <3>1. v \in values
      BY <1>3, <1>4, <2>6
    <3>2. t # NoSlot
      BY <1>1, <2>4, HeaderIsObject
    <3>3. t \in Enqueued(next, values, major)
      BY <1>4, <2>2, <2>4, <2>5, <3>1, <3>2 DEF Enqueued
    <3>4. v = IdAt(next, t)
      BY <1>3, <2>4 DEF IdAt
    <3>5. v \in fresh
      BY <1>4, <3>3, <3>4
    <3> QED BY <1>4, <1>12, <3>5
  <2>7. CASE s # slot
    <3>1. h.objects[s].marked
      BY <1>9, <2>7
    <3>2. ObjectOf(h, v).marked \/ v \in h.worklist
      BY <2>1, <3>1 DEF ReferenceInv, MarksAreSafe, validate_incremental_marking
    <3>3. ~ObjectOf(h, v).marked
      BY <1>3, <1>9, <2>4, <2>5
    <3> QED BY <1>4, <1>12, <3>2, <3>3
  <2> QED BY <2>6, <2>7
<1>14. \A x \in g.worklist : Physical(g, x)
  <2>1. \A x : Physical(next, x) => Physical(g, x)
    BY <1>3 DEF Physical
  <2>2. \A x \in h.worklist : Physical(h, x)
    BY DEF ReferenceInv, MarksAreSafe
  <2>3. \A x \in Ids : Physical(h, x) => Physical(g, x)
    BY <1>7, <1>9, SameReferences
  <2> QED BY <1>1, <1>4, <1>5, <2>1, <2>2, <2>3
<1>15. MarksAreSafe(g)
  BY <1>3, <1>13, <1>14 DEF MarksAreSafe
<1> QED BY <1>6, <1>10, <1>11, <1>15 DEF ReferenceInv

LEMMA incremental_mark_stepReferences ==
  ASSUME GcInv, incremental_mark_step
  PROVE  ReferenceInv(heap)'
<1>1. PICK id \in worklist :
        LET slot == checked_slot(heap, id)
            next == ScanObject(heap, slot)
            grey == worklist \cup {IdAt(next, s) :
                      s \in Enqueued(next, visit_reference_fields(next.objects[slot]), "Major")}
        IN  Become([next EXCEPT !.worklist = {x \in grey : ~ObjectOf(next, x).marked}])
  BY DEF incremental_mark_step
<1> DEFINE h == heap
           slot == checked_slot(h, id)
           next == ScanObject(h, slot)
           fresh == {IdAt(next, s) : s \in Enqueued(next, visit_reference_fields(next.objects[slot]), "Major")}
           ids == {x \in worklist \cup fresh : ~ObjectOf(next, x).marked}
           g == [next EXCEPT !.worklist = ids]
<1>2. Become(g) /\ g = [next EXCEPT !.worklist = ids]
  BY <1>1
<1>3. slot = checked_slot(h, id) /\ next = ScanObject(h, slot)
  OBVIOUS
<1>4. fresh = FreshIds(next, slot)
  BY DEF FreshIds
<1>5. ids = GreyAfter(h, next, fresh)
  BY HeapRecord DEF GreyAfter
<1>6. LayoutInv(h) /\ ReferenceInv(h) /\ h.phase = "marking" /\ h.worklist = worklist
      /\ DOMAIN h = HeapFields
  BY HeapRecord DEF GcInv, GcLayoutInv, GcReferenceInv, incremental_mark_step
<1> HIDE DEF h, slot, next, fresh, ids, g
<1>7. BlackAt(h, slot, next) /\ next.worklist = h.worklist
  BY <1>3, <1>6, ScannedIs
<1>8. BlackAt(h, slot, g) /\ g.worklist = ids
  BY <1>2, <1>7 DEF BlackAt, HeapFields
<1>9. LayoutInv(g) /\ ReferenceInv(g)
  BY <1>3, <1>4, <1>5, <1>6, <1>7, <1>8, MarkStepKeepsReferences
<1> QED BY <1>2, <1>9, BecomeKeepsReferences

(***************************************************************************)
(* The inductive invariant.                                                *)
(***************************************************************************)
LEMMA InitialReferences == Init => GcReferenceInv
<1> SUFFICES ASSUME Init PROVE GcReferenceInv
  OBVIOUS
<1> DEFINE h == heap
<1>1. /\ h.objects = <<>> /\ h.remembered_set = {} /\ h.cells = [c \in Cells |-> Nil] /\ h.phase = "idle"
  BY HeapRecord DEF Init
<1> HIDE DEF h
<1>2. Headers(h) = {}
  BY <1>1 DEF Headers
<1>3. h.phase # "marking"
  BY <1>1
<1>4. ReferenceInv(h)
  BY <1>1, <1>2, <1>3 DEF ReferenceInv, StrongResolve, RootsAreCurrent, MarksAreSafe, MarksAreClear,
     validate_remembered_set, is_object
<1> QED BY <1>4 DEF GcReferenceInv, h

LEMMA NextKeepsReferences ==
  GcInv /\ OwnersAreCurrent /\ [Next]_<<vars, host>> => GcReferenceInv' /\ OwnersAreCurrent'
<1> SUFFICES ASSUME GcInv, OwnersAreCurrent, [Next]_<<vars, host>>
             PROVE  GcReferenceInv' /\ OwnersAreCurrent'
  OBVIOUS
<1>1. OwnersAreCurrent'
  BY DEF Next, OwnersAreCurrent
<1>2. ReferenceInv(heap)' => GcReferenceInv'
  BY DEF GcReferenceInv
<1>3. CASE UNCHANGED <<vars, host>>
  <2>1. Become(heap) /\ LayoutInv(heap) /\ ReferenceInv(heap)
    BY <1>3, HeapRecord DEF vars, Become, GcInv, GcLayoutInv, GcReferenceInv
  <2>2. ReferenceInv(heap)'
    BY <2>1, BecomeKeepsReferences
  <2> QED BY <1>1, <1>2, <2>2
<1>4. CASE Mutator
  BY <1>1, <1>2, <1>4, AllocateObjectReferences, ConcatStringsReferences, TakeSubstringReferences,
     BuilderToStringReferences, InternStringReferences, StoreFieldReferences,
     StoreEphemeronValueReferences, MapInsertReferences, MapUpdateReferences,
     BuilderAppendReferences, StoreScalarsReferences, LoadReferenceReferences, AssignReferences
  DEF Mutator
<1>5. CASE CollectorCalls
  BY <1>1, <1>2, <1>5, collectReferences, start_incremental_markingReferences,
     incremental_mark_stepReferences, finish_incremental_markingReferences,
     finish_marking_to_compactionReferences, start_incremental_compactionReferences,
     incremental_compact_stepReferences, finish_incremental_compactionReferences
  DEF CollectorCalls
<1> QED BY <1>3, <1>4, <1>5 DEF Next

\* Nothing that a root or an object refers to is ever lost: roots hold current
\* ids and strong fields resolve at every step of every cycle, marked objects
\* refer to marked or grey ones, and the remembered set is exact enough.
THEOREM ReferencesAreKept == Spec /\ OwnersAreCurrent => [](GcLayoutInv /\ GcReferenceInv)
<1>1. Init => GcLayoutInv /\ GcReferenceInv
  BY InitialLayout, InitialReferences
<1>2. GcInv /\ OwnersAreCurrent /\ [Next]_<<vars, host>> => GcInv' /\ OwnersAreCurrent'
  BY NextKeepsLayout, NextKeepsReferences DEF GcInv
<1>3. GcLayoutInv /\ GcReferenceInv <=> GcInv
  BY DEF GcInv
<1> QED BY <1>1, <1>2, <1>3, PTL DEF Spec

\* No old object with a young child is missing from the remembered set: not
\* after a store, a promotion, a growth or a relocation, in any phase.
THEOREM RememberedStaysComplete == Spec /\ OwnersAreCurrent => []RememberedIsComplete
<1>1. GcLayoutInv /\ GcReferenceInv => RememberedIsComplete
  BY DEF GcReferenceInv, ReferenceInv, RememberedIsComplete
<1> QED BY <1>1, ReferencesAreKept, PTL

\* The tricolor invariant: stores, interning and allocation during a marking
\* cycle hide no white object behind a black one.
THEOREM NoWhiteIsHidden == Spec /\ OwnersAreCurrent => []NoBlackToWhite
<1>1. GcLayoutInv /\ GcReferenceInv => NoBlackToWhite
  BY HeapRecord DEF GcReferenceInv, ReferenceInv, MarksAreSafe, NoBlackToWhite
<1> QED BY <1>1, ReferencesAreKept, PTL

-----------------------------------------------------------------------------
(***************************************************************************)
(* The graph of names that the references make, and what collections do to *)
(* it: nothing, or some names go.                                          *)
(***************************************************************************)

(***************************************************************************)
(* Names.                                                                  *)
(***************************************************************************)
\* Whatever an object or a root refers to is there.
Closed(h) == LayoutInv(h) /\ StrongResolve(h) /\ RootsAreCurrent(h)

\* A reference keeps its name.
SameName(h, v, g, w) == NameIn(g, w) = NameIn(h, v)

LEMMA BecomingKeepsName ==
  ASSUME NEW h, NEW v, NEW g, NEW w, Becomes(h, v, g, w), is_object(v) => Resolves(h, v)
  PROVE  SameName(h, v, g, w)
  BY DEF Becomes, SameShape, SameName, NameIn, is_object

LEMMA NameOfReference ==
  ASSUME NEW h, LayoutInv(h), NEW v \in Ids, Resolves(h, v)
  PROVE  /\ NameIn(h, v) = h.objects[checked_slot(h, v)].data
         /\ checked_slot(h, v) \in Headers(h)
         /\ NameIn(h, v) \in NamesIn(h) /\ NameIn(h, v) \in Nat /\ NameIn(h, v) # Nil
<1>1. checked_slot(h, v) \in Headers(h) /\ ObjectOf(h, v) = h.objects[checked_slot(h, v)]
  BY ResolvedSlot
<1>2. v # Nil
  BY IdsAreReferences
<1>3. NameIn(h, v) = h.objects[checked_slot(h, v)].data
  BY <1>1, <1>2 DEF NameIn
<1>4. h.objects[checked_slot(h, v)].data \in Nat
  BY <1>1, HeaderIsObject, ObjectFields DEF LayoutInv
<1> QED BY <1>1, <1>3, <1>4, NamesAssumption DEF NamesIn

LEMMA NameOfNil == \A h : NameIn(h, Nil) = Nil
  BY DEF NameIn

LEMMA NamesAreNumbers ==
  ASSUME NEW h, LayoutInv(h)
  PROVE  /\ NamesIn(h) \subseteq Nat /\ Nil \notin NamesIn(h)
         /\ \A s \in Headers(h) : h.objects[s].data \in NamesIn(h)
<1>1. \A s \in Headers(h) : h.objects[s].data \in Nat
  BY HeaderIsObject, ObjectFields DEF LayoutInv
<1> QED BY <1>1, NamesAssumption DEF NamesIn

\* An object is found by its name.
LEMMA GraphAt ==
  ASSUME NEW h, NamesAreUnique(h), NEW s \in Headers(h)
  PROVE  /\ h.objects[s].data \in NamesIn(h)
         /\ SlotNamed(h, h.objects[s].data) = s
         /\ DOMAIN GraphIn(h) = NamesIn(h)
         /\ GraphIn(h)[h.objects[s].data] = NodeIn(h, h.objects[s])
<1>1. h.objects[s].data \in NamesIn(h)
  BY DEF NamesIn
<1>2. SlotNamed(h, h.objects[s].data) = s
  BY DEF SlotNamed, NamesAreUnique
<1> QED BY <1>1, <1>2 DEF GraphIn

LEMMA SlotOfName ==
  ASSUME NEW h, NEW n \in NamesIn(h)
  PROVE  \E s \in Headers(h) : n = h.objects[s].data
  BY DEF NamesIn

(***************************************************************************)
(* A graph less some garbage.                                              *)
(***************************************************************************)
WithSoft(node, soft) ==
  [kind |-> node.kind, strong |-> node.strong, soft |-> soft, text |-> node.text]

IsNode(node) == node = WithSoft(node, node.soft)

Gone(g, k) == DOMAIN g \ NamesIn(k)

\* What is left of the node when gone are gone.
Rest(node, gone) == WithSoft(node, Graph!SoftWithout(node, gone))

\* The heap k shows the roots r, the graph g and the intern table i, less
\* what is gone from it.
Leaves(r, g, i, k) ==
  /\ NamesIn(k) \subseteq DOMAIN g
  /\ RootIn(k) = r
  /\ InternedIn(k) = i \ Gone(g, k)
  /\ \A s \in Headers(k) :
       NodeIn(k, k.objects[s]) = Rest(g[k.objects[s].data], Gone(g, k))

\* Cells that no visitor sees stay as they are.
SameRawCells(h, k) == \A c \in RawCells : k.cells[c] = h.cells[c]

Thins(h, k) ==
  /\ Leaves(RootIn(h), GraphIn(h), InternedIn(h), k)
  /\ NamesAreUnique(k) /\ SameRawCells(h, k) /\ k.allocated = h.allocated

LEMMA HeapNodes ==
  ASSUME NEW h, NEW n \in NamesIn(h)
  PROVE  IsNode(GraphIn(h)[n])
  BY DEF GraphIn, NodeIn, IsNode, WithSoft

LEMMA RestOfRest ==
  ASSUME NEW node, NEW some, NEW more, Nil \notin more
  PROVE  Rest(Rest(node, some), more) = Rest(node, some \cup more)
<1> DEFINE rest == Rest(node, some)
<1>1. rest.kind = node.kind /\ rest.strong = node.strong /\ rest.text = node.text
      /\ rest.soft = Graph!SoftWithout(node, some)
  BY DEF Rest, WithSoft
<1>2. Graph!SoftWithout(rest, more) = Graph!SoftWithout(node, some \cup more)
  <2>1. CASE node.kind = "WeakRef" /\ node.soft[1] \in some
    BY <1>1, <2>1 DEF Graph!SoftWithout
  <2>2. CASE node.kind = "Ephemeron" /\ node.soft[1] \in some
    BY <1>1, <2>2 DEF Graph!SoftWithout
  <2>3. CASE ~(node.kind = "WeakRef" /\ node.soft[1] \in some) /\
             ~(node.kind = "Ephemeron" /\ node.soft[1] \in some)
    BY <1>1, <2>3 DEF Graph!SoftWithout
  <2> QED BY <2>1, <2>2, <2>3
<1> HIDE DEF rest
<1>3. Rest(rest, more) = WithSoft(node, Graph!SoftWithout(node, some \cup more))
  BY <1>1, <1>2 DEF Rest, WithSoft
<1> QED BY <1>3 DEF rest, Rest

LEMMA LeavesOn ==
  ASSUME NEW r, NEW g, NEW i, NEW h, LayoutInv(h), NamesAreUnique(h), Leaves(r, g, i, h),
         NEW k, Leaves(RootIn(h), GraphIn(h), InternedIn(h), k)
  PROVE  Leaves(r, g, i, k)
<1>1. NamesIn(k) \subseteq NamesIn(h) /\ NamesIn(h) \subseteq DOMAIN g
  BY DEF Leaves, GraphIn
<1>2. Gone(g, k) = Gone(g, h) \cup Gone(GraphIn(h), k) /\ Nil \notin Gone(GraphIn(h), k)
  BY <1>1, NamesAreNumbers DEF Gone, GraphIn
<1>3. InternedIn(k) = i \ Gone(g, k)
  BY <1>2 DEF Leaves
<1>4. ASSUME NEW s \in Headers(k)
      PROVE  NodeIn(k, k.objects[s]) = Rest(g[k.objects[s].data], Gone(g, k))
  <2> DEFINE n == k.objects[s].data
  <2>1. n \in NamesIn(h)
    BY <1>1 DEF NamesIn
  <2>2. PICK t \in Headers(h) : n = h.objects[t].data
    BY <2>1, SlotOfName
  <2>3. NodeIn(k, k.objects[s]) = Rest(GraphIn(h)[n], Gone(GraphIn(h), k))
    BY DEF Leaves
  <2>4. GraphIn(h)[n] = NodeIn(h, h.objects[t])
    BY <2>2, GraphAt
  <2>5. NodeIn(h, h.objects[t]) = Rest(g[n], Gone(g, h))
    BY <2>2 DEF Leaves
  <2> QED BY <1>2, <2>3, <2>4, <2>5, RestOfRest
<1> QED BY <1>1, <1>3, <1>4 DEF Leaves

LEMMA ThinsOn ==
  ASSUME NEW f, NEW h, LayoutInv(h), Thins(f, h), NEW k, Thins(h, k)
  PROVE  Thins(f, k)
<1>1. NamesAreUnique(h) /\ Leaves(RootIn(f), GraphIn(f), InternedIn(f), h)
      /\ Leaves(RootIn(h), GraphIn(h), InternedIn(h), k)
  BY DEF Thins
<1>2. Leaves(RootIn(f), GraphIn(f), InternedIn(f), k)
  BY <1>1, LeavesOn
<1> QED BY <1>2 DEF Thins, SameRawCells

(***************************************************************************)
(* What keeps the names: survivors s of h are at to[s] in k.               *)
(***************************************************************************)
\* The object at t shows what the one at s did.
ShowsStrong(h, s, k, t) ==
  /\ k.objects[t].data = h.objects[s].data /\ k.objects[t].kind = h.objects[s].kind
  /\ k.objects[t].text = h.objects[s].text
  /\ DOMAIN k.objects[t].strong = DOMAIN h.objects[s].strong
  /\ \A i \in DOMAIN h.objects[s].strong :
       SameName(h, h.objects[s].strong[i], k, k.objects[t].strong[i])

SoftStays(h, s, k, t) ==
  /\ DOMAIN k.objects[t].soft = DOMAIN h.objects[s].soft
  /\ \A i \in DOMAIN h.objects[s].soft :
       SameName(h, h.objects[s].soft[i], k, k.objects[t].soft[i])

SoftGoes(h, s, k, t) ==
  k.objects[t].soft = IF h.objects[s].kind = "WeakRef" THEN <<Nil>> ELSE <<Nil, Nil>>

\* A weak target or a key that is to be cleared.
Loses(h, s, gone) ==
  /\ h.objects[s].kind \in {"WeakRef", "Ephemeron"}
  /\ NameIn(h, h.objects[s].soft[1]) \in gone

Shows(h, s, k, t) ==
  /\ ShowsStrong(h, s, k, t)
  /\ Loses(h, s, Gone(GraphIn(h), k)) => SoftGoes(h, s, k, t)
  /\ ~Loses(h, s, Gone(GraphIn(h), k)) => SoftStays(h, s, k, t)

Follow(h, to, k) ==
  /\ DOMAIN to \subseteq Headers(h) /\ Headers(k) = {to[s] : s \in DOMAIN to}
  /\ \A s, t \in DOMAIN to : to[s] = to[t] => s = t
  /\ \A s \in DOMAIN to : Shows(h, s, k, to[s])

SameRoots(h, k) == \A c \in Registered : SameName(h, h.cells[c], k, k.cells[c])

LEMMA ShownNode ==
  ASSUME NEW h, LayoutInv(h), NEW s \in Headers(h), NEW k, NEW t, Shows(h, s, k, t)
  PROVE  NodeIn(k, k.objects[t]) = Rest(NodeIn(h, h.objects[s]), Gone(GraphIn(h), k))
<1> DEFINE o == h.objects[s]
           q == k.objects[t]
           gone == Gone(GraphIn(h), k)
           node == NodeIn(h, o)
<1>1. node.kind = o.kind /\ node.text = o.text
      /\ node.strong = [i \in DOMAIN o.strong |-> NameIn(h, o.strong[i])]
      /\ node.soft = [i \in DOMAIN o.soft |-> NameIn(h, o.soft[i])]
  BY DEF NodeIn
<1>2. q.kind = node.kind /\ q.text = node.text
      /\ [i \in DOMAIN q.strong |-> NameIn(k, q.strong[i])] = node.strong
  BY <1>1 DEF Shows, ShowsStrong, SameName
<1>3. o.kind \in {"WeakRef", "Ephemeron"} => 1 \in DOMAIN o.soft /\ node.soft[1] = NameIn(h, o.soft[1])
  <2>1. validate_descriptor_shape(o)
    BY DEF LayoutInv, RunsFollow
  <2>2. o.soft \in Seq(Values)
    BY HeaderIsObject, ObjectFields DEF LayoutInv
  <2>3. o.kind \in {"WeakRef", "Ephemeron"} => Len(o.soft) \in {1, 2}
    BY <2>1 DEF validate_descriptor_shape, EphemeronAndBuilderShape
  <2>4. o.kind \in {"WeakRef", "Ephemeron"} => 1 \in DOMAIN o.soft
    BY <2>2, <2>3
  <2> QED BY <1>1, <2>4
<1>4. [i \in DOMAIN q.soft |-> NameIn(k, q.soft[i])] = Graph!SoftWithout(node, gone)
  <2>1. CASE Loses(h, s, gone)
    <3>1. q.soft = IF o.kind = "WeakRef" THEN <<Nil>> ELSE <<Nil, Nil>>
      BY <2>1 DEF Shows, SoftGoes
    <3>2. node.soft[1] \in gone /\ o.kind \in {"WeakRef", "Ephemeron"}
      BY <1>3, <2>1 DEF Loses
    <3>3. CASE o.kind = "WeakRef"
      <4>1. [i \in DOMAIN <<Nil>> |-> NameIn(k, <<Nil>>[i])] = <<Nil>>
        BY NameOfNil
      <4> QED BY <1>1, <3>1, <3>2, <3>3, <4>1 DEF Graph!SoftWithout
    <3>4. CASE o.kind = "Ephemeron"
      <4>1. [i \in DOMAIN <<Nil, Nil>> |-> NameIn(k, <<Nil, Nil>>[i])] = <<Nil, Nil>>
        BY NameOfNil
      <4> QED BY <1>1, <3>1, <3>2, <3>4, <4>1 DEF Graph!SoftWithout
    <3> QED BY <3>2, <3>3, <3>4
  <2>2. CASE ~Loses(h, s, gone)
    <3>1. SoftStays(h, s, k, t)
      BY <2>2 DEF Shows
    <3>2. [i \in DOMAIN q.soft |-> NameIn(k, q.soft[i])] = node.soft
      BY <1>1, <3>1 DEF SoftStays, SameName
    <3>3. Graph!SoftWithout(node, gone) = node.soft
      BY <1>1, <1>3, <2>2 DEF Loses, Graph!SoftWithout
    <3> QED BY <3>2, <3>3
  <2> QED BY <2>1, <2>2
<1> HIDE DEF node, gone
<1>5. NodeIn(k, q) = WithSoft(node, Graph!SoftWithout(node, gone))
  BY <1>2, <1>4 DEF NodeIn, WithSoft
<1> QED BY <1>5 DEF Rest, node, gone

LEMMA FollowingNames ==
  ASSUME NEW h, NamesAreUnique(h), NEW to, NEW k, Follow(h, to, k)
  PROVE  /\ NamesAreUnique(k) /\ NamesIn(k) \subseteq NamesIn(h)
         /\ \A s \in Headers(h) : h.objects[s].data \in Gone(GraphIn(h), k) <=> s \notin DOMAIN to
<1>1. \A s \in DOMAIN to : s \in Headers(h) /\ k.objects[to[s]].data = h.objects[s].data
  BY DEF Follow, Shows, ShowsStrong
<1>2. NamesIn(k) = {h.objects[s].data : s \in DOMAIN to}
  BY <1>1 DEF Follow, NamesIn
<1>3. NamesAreUnique(k)
  BY <1>1 DEF Follow, NamesAreUnique
<1>4. NamesIn(k) \subseteq NamesIn(h)
  BY <1>1, <1>2 DEF NamesIn
<1>5. \A s \in Headers(h) : h.objects[s].data \in NamesIn(k) <=> s \in DOMAIN to
  BY <1>1, <1>2 DEF NamesAreUnique
<1> QED BY <1>3, <1>4, <1>5 DEF Gone, GraphIn, NamesIn

LEMMA FollowThins ==
  ASSUME NEW h, LayoutInv(h), NamesAreUnique(h), NEW to, NEW k, Follow(h, to, k),
         SameRoots(h, k), SameRawCells(h, k), k.allocated = h.allocated,
         InternedIn(k) = InternedIn(h) \ Gone(GraphIn(h), k)
  PROVE  Thins(h, k)
<1>1. NamesAreUnique(k) /\ NamesIn(k) \subseteq DOMAIN GraphIn(h)
  BY FollowingNames DEF GraphIn
<1>2. RootIn(k) = RootIn(h)
  BY DEF RootIn, SameRoots, SameName
<1>3. ASSUME NEW t \in Headers(k)
      PROVE  NodeIn(k, k.objects[t]) = Rest(GraphIn(h)[k.objects[t].data], Gone(GraphIn(h), k))
  <2>1. PICK s \in DOMAIN to : t = to[s]
    BY DEF Follow
  <2>2. s \in Headers(h) /\ Shows(h, s, k, t)
    BY <2>1 DEF Follow
  <2>3. NodeIn(k, k.objects[t]) = Rest(NodeIn(h, h.objects[s]), Gone(GraphIn(h), k))
    BY <2>2, ShownNode
  <2>4. k.objects[t].data = h.objects[s].data
    BY <2>2 DEF Shows, ShowsStrong
  <2> QED BY <2>2, <2>3, <2>4, GraphAt
<1> QED BY <1>1, <1>2, <1>3 DEF Thins, Leaves

SameGraph(h, k) == Thins(h, k) /\ NamesIn(k) = NamesIn(h)

LEMMA SameGraphOn ==
  ASSUME NEW f, NEW h, LayoutInv(h), SameGraph(f, h), NEW k, SameGraph(h, k)
  PROVE  SameGraph(f, k)
  BY ThinsOn DEF SameGraph

LEMMA SameGraphIs ==
  ASSUME NEW h, NamesAreUnique(h), NEW k, SameGraph(h, k)
  PROVE  /\ RootIn(k) = RootIn(h) /\ GraphIn(k) = GraphIn(h) /\ InternedIn(k) = InternedIn(h)
         /\ k.allocated = h.allocated /\ NamesAreUnique(k) /\ SameRawCells(h, k)
<1>1. Gone(GraphIn(h), k) = {}
  BY DEF SameGraph, Gone, GraphIn
<1>2. RootIn(k) = RootIn(h) /\ InternedIn(k) = InternedIn(h) /\ NamesAreUnique(k)
  BY <1>1 DEF SameGraph, Thins, Leaves
<1>3. ASSUME NEW n \in NamesIn(k) PROVE GraphIn(k)[n] = GraphIn(h)[n]
  <2>1. PICK s \in Headers(k) : n = k.objects[s].data
    BY SlotOfName
  <2>2. GraphIn(k)[n] = Rest(GraphIn(h)[n], {})
    BY <1>1, <1>2, <2>1, GraphAt DEF SameGraph, Thins, Leaves
  <2>3. IsNode(GraphIn(h)[n])
    BY HeapNodes DEF SameGraph
  <2>4. Graph!SoftWithout(GraphIn(h)[n], {}) = GraphIn(h)[n].soft
    BY DEF Graph!SoftWithout
  <2> QED BY <2>2, <2>3, <2>4 DEF Rest, IsNode
<1>4. GraphIn(k) = GraphIn(h)
  BY <1>3 DEF SameGraph, GraphIn
<1> QED BY <1>2, <1>4 DEF SameGraph, Thins

\* The canonical strings are those at K, and at to[s] for the s that survive.
CanonicalAt(h, K) == K \subseteq Headers(h) /\ InternedIn(h) = {h.objects[s].data : s \in K}
CanonicalMoved(k, to, K) == InternedIn(k) = {k.objects[to[s]].data : s \in K \cap DOMAIN to}

\* Canonical strings that survive stay canonical.
LEMMA InternedFollow ==
  ASSUME NEW h, NamesAreUnique(h), NEW to, NEW k, Follow(h, to, k),
         NEW K, CanonicalAt(h, K), CanonicalMoved(k, to, K)
  PROVE  InternedIn(k) = InternedIn(h) \ Gone(GraphIn(h), k)
<1>1. \A s \in DOMAIN to : k.objects[to[s]].data = h.objects[s].data
  BY DEF Follow, Shows, ShowsStrong
<1>2. \A s \in Headers(h) : h.objects[s].data \in Gone(GraphIn(h), k) <=> s \notin DOMAIN to
  BY FollowingNames
<1> QED BY <1>1, <1>2 DEF CanonicalAt, CanonicalMoved

LEMMA CanonicalSlots ==
  ASSUME NEW h, LayoutInv(h)
  PROVE  \E K : K \subseteq Headers(h) /\ h.intern_table = {IdAt(h, s) : s \in K} /\ CanonicalAt(h, K)
<1> DEFINE K == {s \in Headers(h) : IdAt(h, s) \in h.intern_table}
<1>1. h.intern_table \subseteq {IdAt(h, s) : s \in Headers(h)}
  BY DEF LayoutInv, RegistriesName, OfKind
<1>2. h.intern_table = {IdAt(h, s) : s \in K}
  BY <1>1
<1>3. \A s \in K : ObjectOf(h, IdAt(h, s)) = h.objects[s]
  BY IdOfBase DEF LayoutInv, ObjectOf
<1>4. InternedIn(h) = {h.objects[s].data : s \in K}
  BY <1>2, <1>3 DEF InternedIn
<1> QED BY <1>2, <1>4 DEF CanonicalAt

\* Marks, ages, operands and the cycle are not in view.
Alike(h, g) ==
  /\ SamePlaces(h, g) /\ g.cells = h.cells /\ g.intern_table = h.intern_table
  /\ g.allocated = h.allocated
  /\ \A s \in Headers(h) :
       /\ g.objects[s].kind = h.objects[s].kind /\ g.objects[s].data = h.objects[s].data
       /\ g.objects[s].strong = h.objects[s].strong /\ g.objects[s].soft = h.objects[s].soft
       /\ g.objects[s].text = h.objects[s].text

LEMMA PlacesKeepNames ==
  ASSUME NEW h, LayoutInv(h), NEW g, SamePlaces(h, g),
         \A s \in Headers(h) : g.objects[s].data = h.objects[s].data
  PROVE  \A v \in Values : NameIn(g, v) = NameIn(h, v)
<1> TAKE v \in Values
<1>1. checked_slot(g, v) = checked_slot(h, v) /\ (Resolves(g, v) <=> Resolves(h, v))
  BY SamePlacesResolve DEF LayoutInv
<1>2. v # Nil /\ Resolves(h, v) => checked_slot(h, v) \in Headers(h)
  BY ResolvedSlot, ValueIsId DEF is_object
<1> QED BY <1>1, <1>2 DEF NameIn, ObjectOf

LEMMA ObjectValues ==
  ASSUME NEW h, LayoutInv(h), NEW s \in Headers(h)
  PROVE  /\ h.objects[s] \in Objects /\ validate_descriptor_shape(h.objects[s])
         /\ \A i \in DOMAIN h.objects[s].strong : h.objects[s].strong[i] \in Values
         /\ \A i \in DOMAIN h.objects[s].soft : h.objects[s].soft[i] \in Values
<1>1. h.objects[s] \in Objects /\ validate_descriptor_shape(h.objects[s])
  BY HeaderIsObject DEF LayoutInv, RunsFollow
<1>2. h.objects[s].strong \in Seq(Values) /\ h.objects[s].soft \in Seq(Values)
  BY <1>1, ObjectFields
<1> QED BY <1>1, <1>2

LEMMA AlikeKeepsGraph ==
  ASSUME NEW h, LayoutInv(h), NamesAreUnique(h), NEW g, Alike(h, g)
  PROVE  SameGraph(h, g) /\ \A v \in Values : NameIn(g, v) = NameIn(h, v)
<1>1. \A v \in Values : NameIn(g, v) = NameIn(h, v)
  BY PlacesKeepNames DEF Alike
<1>2. Headers(g) = Headers(h) /\ NamesIn(g) = NamesIn(h)
  BY DEF Alike, SamePlaces, NamesIn
<1>3. Gone(GraphIn(h), g) = {}
  BY <1>2 DEF Gone, GraphIn
<1> DEFINE to == [s \in Headers(h) |-> s]
<1>4. ASSUME NEW s \in Headers(h) PROVE Shows(h, s, g, s)
  <2>1. \A i \in DOMAIN h.objects[s].strong : SameName(h, h.objects[s].strong[i], g, g.objects[s].strong[i])
    BY <1>1, ObjectValues DEF Alike, SameName
  <2>2. \A i \in DOMAIN h.objects[s].soft : SameName(h, h.objects[s].soft[i], g, g.objects[s].soft[i])
    BY <1>1, ObjectValues DEF Alike, SameName
  <2>3. ~Loses(h, s, Gone(GraphIn(h), g))
    BY <1>3 DEF Loses
  <2> QED BY <2>1, <2>2, <2>3 DEF Alike, Shows, ShowsStrong, SoftStays
<1>5. Follow(h, to, g)
  BY <1>2, <1>4 DEF Follow
<1>6. SameRoots(h, g) /\ SameRawCells(h, g)
  <2>1. \A c \in Registered : h.cells[c] \in Values
    BY RootCells
  <2> QED BY <1>1, <2>1 DEF Alike, SameRoots, SameName, SameRawCells
<1>7. InternedIn(g) = InternedIn(h) \ Gone(GraphIn(h), g)
  <2>1. \A id \in h.intern_table : ObjectOf(g, id).data = ObjectOf(h, id).data
    <3> TAKE id \in h.intern_table
    <3>1. PICK s \in Headers(h) : id = IdAt(h, s)
      BY CanonicalSlots
    <3>2. checked_slot(h, id) = s
      BY <3>1, IdOfBase DEF LayoutInv
    <3>3. checked_slot(g, id) = s
      BY <3>2, SamePlacesResolve DEF LayoutInv, Alike
    <3> QED BY <3>2, <3>3 DEF Alike, ObjectOf
  <2> QED BY <1>3, <2>1 DEF Alike, InternedIn
<1>8. Thins(h, g)
  <2> HIDE DEF to
  <2>1. g.allocated = h.allocated
    BY DEF Alike
  <2> QED BY <1>5, <1>6, <1>7, <2>1, FollowThins
<1> QED BY <1>1, <1>2, <1>8 DEF SameGraph

(***************************************************************************)
(* Movements.                                                              *)
(***************************************************************************)
\* A reference to a survivor, or none, keeps its name.
LEMMA MovedName ==
  ASSUME NEW h, LayoutInv(h), h.phase # "compacting",
         NEW to, NEW n, NEW mo, NEW mg, Moves(h, to, n, mo, mg), EphemeronsKept(h, DOMAIN to),
         NEW g, g = InstallMovement(h, mo, mg, ForwardingOf(to, mg)),
         NEW v \in Values, is_object(v) => checked_slot(h, v) \in DOMAIN to
  PROVE  SameName(h, v, g, rewrite_value(h, ForwardingOf(to, mg), v))
<1> DEFINE w == rewrite_value(h, ForwardingOf(to, mg), v)
<1>1. CASE is_object(v)
  <2>1. v \in Ids /\ checked_slot(h, v) \in DOMAIN to
    BY <1>1, ValueIsId
  <2>2. w = rewrite_value(h, ForwardingOf(to, mg), v)
    OBVIOUS
  <2> HIDE DEF w
  <2>3. Becomes(h, v, g, w)
    BY <2>1, <2>2, MovedReference
  <2>4. checked_slot(h, v) # NoSlot
    BY <2>1, HeaderIsObject DEF Moves, LayoutInv
  <2> QED BY <1>1, <2>3, <2>4, BecomingKeepsName DEF Resolves, w
<1>2. CASE ~is_object(v)
  <2>1. w = v
    BY <1>2, RewrittenValue
  <2> QED BY <1>2, <2>1 DEF SameName, NameIn, is_object
<1> QED BY <1>1, <1>2

\* What the movement makes of soft references.
MovedSoft(h, to, mg, o, q) ==
  LET F == ForwardingOf(to, mg)
      kept == is_object(o.soft[1]) /\ checked_slot(h, o.soft[1]) \in DOMAIN to
  IN  /\ o.kind = "WeakRef" =>
           /\ o.soft[1] \in Values /\ DOMAIN o.soft = {1}
           /\ q.soft = IF kept THEN <<rewrite_value(h, F, o.soft[1])>> ELSE <<Nil>>
      /\ o.kind = "Ephemeron" =>
           /\ o.soft[1] \in Values /\ o.soft[2] \in Values /\ DOMAIN o.soft = {1, 2}
           /\ o.soft[1] = Nil => o.soft[2] = Nil
           /\ q.soft = IF kept
                       THEN <<rewrite_value(h, F, o.soft[1]), rewrite_value(h, F, o.soft[2])>>
                       ELSE <<Nil, Nil>>
      /\ o.kind \notin {"WeakRef", "Ephemeron"} => o.soft = <<>> /\ q.soft = <<>>

LEMMA SoftIsMoved ==
  ASSUME NEW h, HeapIsTyped(h), NEW to, NEW n, NEW mo, NEW mg, Moves(h, to, n, mo, mg),
         NEW s \in DOMAIN to, validate_descriptor_shape(h.objects[s]),
         NEW q, q = RewrittenObject(h, ForwardingOf(to, mg), mo[to[s]])
  PROVE  MovedSoft(h, to, mg, h.objects[s], q)
<1> DEFINE o == h.objects[s]
           p == mo[to[s]]
           f == ForwardingOf(to, mg)
<1>1. o \in Objects /\ SameContents(o, p)
  BY HeaderIsObject DEF Moves
<1>2. p \in Objects /\ p.kind = o.kind /\ p.soft = o.soft /\ o.soft \in Seq(Values)
  BY <1>1, ObjectFields DEF SameContents
<1>3. q.soft = SoftAfterMove(h, f, p)
  BY <1>2 DEF RewrittenObject, Objects
<1>4. \A v \in Values : Forwarded(h, f, v) <=> is_object(v) /\ checked_slot(h, v) \in DOMAIN to
  BY RewrittenValue
<1> HIDE DEF f
<1>5. CASE o.kind = "WeakRef"
  <2>1. Len(o.soft) = 1
    BY <1>5 DEF validate_descriptor_shape
  <2>2. DOMAIN o.soft = {1} /\ o.soft[1] \in Values
    BY <1>2, <2>1
  <2>3. q.soft = IF Forwarded(h, f, o.soft[1]) THEN <<rewrite_value(h, f, o.soft[1])>> ELSE <<Nil>>
    BY <1>2, <1>3, <1>5 DEF SoftAfterMove
  <2> QED BY <1>4, <1>5, <2>2, <2>3 DEF MovedSoft, f
<1>6. CASE o.kind = "Ephemeron"
  <2>1. Len(o.soft) = 2 /\ (o.soft[1] = Nil => o.soft[2] = Nil)
    BY <1>6 DEF validate_descriptor_shape, EphemeronAndBuilderShape
  <2>2. DOMAIN o.soft = {1, 2} /\ o.soft[1] \in Values /\ o.soft[2] \in Values
    BY <1>2, <2>1
  <2>3. q.soft = IF Forwarded(h, f, o.soft[1])
                 THEN <<rewrite_value(h, f, o.soft[1]), rewrite_value(h, f, o.soft[2])>>
                 ELSE <<Nil, Nil>>
    BY <1>2, <1>3, <1>6 DEF SoftAfterMove
  <2> QED BY <1>4, <1>6, <2>1, <2>2, <2>3 DEF MovedSoft, f
<1>7. CASE o.kind \notin {"WeakRef", "Ephemeron"}
  <2>1. o.soft = <<>>
    BY <1>7 DEF validate_descriptor_shape
  <2>2. q.soft = p.soft
    BY <1>2, <1>3, <1>7 DEF SoftAfterMove
  <2> QED BY <1>2, <1>7, <2>1, <2>2 DEF MovedSoft
<1> QED BY <1>5, <1>6, <1>7

\* A movement that takes along what its survivors refer to takes away
\* garbage and nothing else.
LEMMA MovementThins ==
  ASSUME NEW h, LayoutInv(h), NamesAreUnique(h), h.phase # "compacting",
         NEW to, NEW n, NEW mo, NEW mg, Moves(h, to, n, mo, mg), EphemeronsKept(h, DOMAIN to),
         StrongResolve(h), StrongKept(h, DOMAIN to), RootsKept(h, DOMAIN to),
         NEW g, g = InstallMovement(h, mo, mg, ForwardingOf(to, mg))
  PROVE  Thins(h, g) /\ Follow(h, to, g)
<1> DEFINE f == ForwardingOf(to, mg)
           rw(v) == rewrite_value(h, f, v)
<1>1. HeapIsTyped(h) /\ RunsFollow(h) /\ DOMAIN h = HeapFields /\ DOMAIN to \subseteq Headers(h)
  BY DEF LayoutInv, HeapIsTyped, Moves
<1>2. /\ Headers(g) = {to[s] : s \in DOMAIN to} /\ HeapIsTyped(g) /\ RunsFollow(g)
      /\ \A s \in DOMAIN to : /\ g.objects[to[s]] = RewrittenObject(h, ForwardingOf(to, mg), mo[to[s]])
                              /\ IdAt(g, to[s]) = make_object_id(to[s], mg[to[s]])
  BY MovedHeap
<1>3. /\ g.cells = [c \in Cells |-> IF c \in RawCells THEN h.cells[c] ELSE rw(h.cells[c])]
      /\ g.intern_table = RewrittenRegistry(h, f, h.intern_table)
      /\ g.allocated = h.allocated
  <2>1. g = InstallMovement(h, mo, mg, f)
    OBVIOUS
  <2> HIDE DEF f
  <2>2. InstalledAs(h, mo, mg, f, g)
    BY <1>1, <2>1, Installed
  <2> QED BY <2>2 DEF InstalledAs
<1>4. \A v \in Values : (is_object(v) => checked_slot(h, v) \in DOMAIN to) => SameName(h, v, g, rw(v))
  BY MovedName
<1>5. \A s, t \in DOMAIN to : to[s] = to[t] => s = t
  <2> SUFFICES ASSUME NEW s \in DOMAIN to, NEW t \in DOMAIN to, s # t PROVE to[s] # to[t]
    OBVIOUS
  <2>1. to[s] + Width(h, s) <= to[t] \/ to[t] + Width(h, t) <= to[s]
    BY DEF Moves
  <2>2. Width(h, s) \in Nat \ {0} /\ Width(h, t) \in Nat \ {0}
    BY <1>1, HeaderIsObject
  <2>3. to[s] \in Int /\ to[t] \in Int
    BY DEF Moves
  <2> QED BY <2>1, <2>2, <2>3
<1>6. ASSUME NEW s \in DOMAIN to
      PROVE  /\ ShowsStrong(h, s, g, to[s])
             /\ MovedSoft(h, to, mg, h.objects[s], g.objects[to[s]])
  <2> DEFINE q == g.objects[to[s]]
  <2>1. h.objects[s] \in Objects /\ validate_descriptor_shape(h.objects[s])
        /\ \A i \in DOMAIN h.objects[s].strong : h.objects[s].strong[i] \in Values
    BY <1>1, ObjectValues
  <2>2. q = RewrittenObject(h, ForwardingOf(to, mg), mo[to[s]])
    BY <1>2
  <2> HIDE DEF q
  <2>3. /\ q.kind = h.objects[s].kind /\ q.data = h.objects[s].data /\ q.text = h.objects[s].text
        /\ StrongFollows(h, to, mg, h.objects[s], q)
    BY <1>1, <2>1, <2>2, RewrittenContents
  <2>4. MovedSoft(h, to, mg, h.objects[s], q)
    BY <1>1, <2>1, <2>2, SoftIsMoved
  <2>5. q.strong = [i \in DOMAIN h.objects[s].strong |-> rw(h.objects[s].strong[i])]
    BY <2>3 DEF StrongFollows
  <2>6. ASSUME NEW i \in DOMAIN h.objects[s].strong
        PROVE  SameName(h, h.objects[s].strong[i], g, q.strong[i])
    <3>1. is_object(h.objects[s].strong[i]) => checked_slot(h, h.objects[s].strong[i]) \in DOMAIN to
      BY DEF StrongKept, visit_reference_fields
    <3> QED BY <1>4, <2>1, <2>5, <3>1
  <2> QED BY <2>3, <2>4, <2>5, <2>6 DEF ShowsStrong, q
<1>7. NamesIn(g) = {h.objects[s].data : s \in DOMAIN to}
  BY <1>2, <1>6 DEF ShowsStrong, NamesIn
<1>8. \A s \in Headers(h) : h.objects[s].data \in Gone(GraphIn(h), g) <=> s \notin DOMAIN to
  BY <1>1, <1>7 DEF NamesAreUnique, NamesIn, Gone, GraphIn
<1>9. ASSUME NEW s \in DOMAIN to PROVE Shows(h, s, g, to[s])
  <2> DEFINE o == h.objects[s]
             kept == is_object(o.soft[1]) /\ checked_slot(h, o.soft[1]) \in DOMAIN to
             loses == Loses(h, s, Gone(GraphIn(h), g))
  <2>1. MovedSoft(h, to, mg, o, g.objects[to[s]])
    BY <1>6
  <2>2. \A i \in DOMAIN o.soft : is_object(o.soft[i]) => Resolves(h, o.soft[i])
    BY <1>1 DEF LayoutInv, RegistriesName, SoftReferences
  <2>3. o.kind \in {"WeakRef", "Ephemeron"} =>
          (loses <=> is_object(o.soft[1]) /\ checked_slot(h, o.soft[1]) \notin DOMAIN to)
    <3>1. ASSUME o.kind \in {"WeakRef", "Ephemeron"}, is_object(o.soft[1])
          PROVE  loses <=> checked_slot(h, o.soft[1]) \notin DOMAIN to
      <4>1. o.soft[1] \in Ids /\ Resolves(h, o.soft[1])
        BY <2>1, <2>2, <3>1, ValueIsId DEF MovedSoft
      <4>2. NameIn(h, o.soft[1]) = h.objects[checked_slot(h, o.soft[1])].data
            /\ checked_slot(h, o.soft[1]) \in Headers(h)
        BY <4>1, NameOfReference
      <4> QED BY <1>8, <3>1, <4>2 DEF Loses
    <3>2. ASSUME o.kind \in {"WeakRef", "Ephemeron"}, ~is_object(o.soft[1])
          PROVE  ~loses
      BY <3>2, NamesAreNumbers DEF Loses, NameIn, is_object, Gone, GraphIn
    <3> QED BY <3>1, <3>2
  <2>4. loses => SoftGoes(h, s, g, to[s])
    BY <2>1, <2>3 DEF MovedSoft, SoftGoes, Loses
  <2>5. ASSUME ~loses PROVE SoftStays(h, s, g, to[s])
    <3>1. CASE o.kind = "WeakRef"
      <4>1. ~kept => o.soft[1] = Nil
        BY <2>3, <2>5, <3>1 DEF is_object
      <4>2. CASE kept
        <5>1. g.objects[to[s]].soft = <<rw(o.soft[1])>> /\ DOMAIN o.soft = {1}
          BY <2>1, <3>1, <4>2 DEF MovedSoft
        <5>2. SameName(h, o.soft[1], g, rw(o.soft[1]))
          BY <1>4, <2>1, <3>1, <4>2 DEF MovedSoft
        <5> HIDE DEF rw
        <5> QED BY <5>1, <5>2 DEF SoftStays
      <4>3. CASE ~kept
        <5>1. g.objects[to[s]].soft = <<Nil>> /\ DOMAIN o.soft = {1} /\ o.soft[1] = Nil
          BY <2>1, <3>1, <4>1, <4>3 DEF MovedSoft
        <5> QED BY <5>1, NameOfNil DEF SoftStays, SameName
      <4> QED BY <4>2, <4>3
    <3>2. CASE o.kind = "Ephemeron"
      <4>1. ~kept => o.soft[1] = Nil
        BY <2>3, <2>5, <3>2 DEF is_object
      <4>2. CASE kept
        <5>1. g.objects[to[s]].soft = <<rw(o.soft[1]), rw(o.soft[2])>> /\ DOMAIN o.soft = {1, 2}
              /\ o.soft[1] \in Values /\ o.soft[2] \in Values
          BY <2>1, <3>2, <4>2 DEF MovedSoft
        <5>2. SameName(h, o.soft[1], g, rw(o.soft[1]))
          BY <1>4, <4>2, <5>1
        <5>3. is_object(o.soft[2]) => checked_slot(h, o.soft[2]) \in DOMAIN to
          BY <3>2, <4>2 DEF EphemeronsKept
        <5>4. SameName(h, o.soft[2], g, rw(o.soft[2]))
          BY <1>4, <5>1, <5>3
        <5> HIDE DEF rw
        <5> QED BY <5>1, <5>2, <5>4 DEF SoftStays
      <4>3. CASE ~kept
        <5>1. g.objects[to[s]].soft = <<Nil, Nil>> /\ DOMAIN o.soft = {1, 2} /\ o.soft[1] = Nil
              /\ o.soft[2] = Nil
          BY <2>1, <3>2, <4>1, <4>3 DEF MovedSoft
        <5> QED BY <5>1, NameOfNil DEF SoftStays, SameName
      <4> QED BY <4>2, <4>3
    <3>3. CASE o.kind \notin {"WeakRef", "Ephemeron"}
      BY <2>1, <3>3 DEF MovedSoft, SoftStays
    <3> QED BY <3>1, <3>2, <3>3
  <2> QED BY <1>6, <2>4, <2>5 DEF Shows
<1>10. Follow(h, to, g)
  BY <1>1, <1>2, <1>5, <1>9 DEF Follow
<1>11. SameRoots(h, g) /\ SameRawCells(h, g)
  <2>1. ASSUME NEW c \in Registered PROVE SameName(h, h.cells[c], g, g.cells[c])
    <3>1. c \in Cells /\ h.cells[c] \in Values /\ g.cells[c] = rw(h.cells[c])
      BY <1>3, RootCells DEF Registered
    <3> QED BY <1>4, <3>1 DEF RootsKept
  <2>2. \A c \in RawCells : g.cells[c] = h.cells[c]
    BY <1>3, CellsAssumption
  <2> QED BY <2>1, <2>2 DEF SameRoots, SameRawCells
<1>12. InternedIn(g) = InternedIn(h) \ Gone(GraphIn(h), g)
  <2>1. PICK K : K \subseteq Headers(h) /\ h.intern_table = {IdAt(h, s) : s \in K} /\ CanonicalAt(h, K)
    BY CanonicalSlots
  <2>2. g.intern_table = {make_object_id(to[s], mg[to[s]]) : s \in K \cap DOMAIN to}
    <3>1. RewrittenRegistry(h, ForwardingOf(to, mg), h.intern_table) =
            {make_object_id(to[s], mg[to[s]]) : s \in K \cap DOMAIN to}
      BY <1>1, <2>1, RegistryOf
    <3> QED BY <1>3, <3>1
  <2>3. \A s \in DOMAIN to : to[s] \in Headers(g)
    BY <1>2
  <2>4. \A s \in DOMAIN to : ObjectOf(g, make_object_id(to[s], mg[to[s]])) = g.objects[to[s]]
    BY <1>2, <2>3, IdOfBase DEF ObjectOf
  <2>5. CanonicalMoved(g, to, K)
    BY <2>2, <2>4 DEF InternedIn, CanonicalMoved
  <2> HIDE DEF f, rw
  <2> QED BY <1>10, <2>1, <2>5, InternedFollow
<1> QED BY <1>3, <1>10, <1>11, <1>12, FollowThins

(***************************************************************************)
(* Collections.                                                            *)
(***************************************************************************)
LEMMA MarkKeepsGraph ==
  ASSUME NEW h, LayoutInv(h), NamesAreUnique(h), NEW kind, NEW g, g = Mark(h, kind)
  PROVE  SameGraph(h, g)
<1>1. PICK black \in SUBSET Headers(h) : MarkedAs(h, black, g)
  BY MarkEnds
<1>2. g.intern_table = h.intern_table /\ g.allocated = h.allocated
  <2>1. DOMAIN h = HeapFields
    BY DEF LayoutInv, HeapIsTyped
  <2>2. \E some : g = Blackened(h, some)
    BY DEF Mark
  <2> QED BY <2>1, <2>2 DEF Blackened, HeapFields
<1>3. Alike(h, g)
  BY <1>1, <1>2 DEF MarkedAs, SameContents, Alike
<1> QED BY <1>3, AlikeKeepsGraph

LEMMA UnmarkedKeepsGraph ==
  ASSUME NEW h, LayoutInv(h), NamesAreUnique(h), NEW g, g = Unmarked(h)
  PROVE  SameGraph(h, g)
<1>1. /\ SamePlaces(h, g) /\ g.cells = h.cells
      /\ \A s \in Headers(h) : SameContents(h.objects[s], g.objects[s])
  BY UnmarkedKeeps
<1>2. g.intern_table = h.intern_table /\ g.allocated = h.allocated
  <2>1. DOMAIN h = HeapFields
    BY DEF LayoutInv, HeapIsTyped
  <2> QED BY <2>1 DEF Unmarked, HeapFields
<1>3. Alike(h, g)
  BY <1>1, <1>2 DEF SameContents, Alike
<1> QED BY <1>3, AlikeKeepsGraph

LEMMA PruneKeepsGraph ==
  ASSUME NEW h, LayoutInv(h), NamesAreUnique(h), NEW g, g = prune_remembered_set(h)
  PROVE  SameGraph(h, g)
<1>1. SamePlaces(h, g) /\ g.objects = h.objects
  BY PruneKeeps
<1>2. g.intern_table = h.intern_table /\ g.allocated = h.allocated /\ g.cells = h.cells
  <2>1. DOMAIN h = HeapFields
    BY DEF LayoutInv, HeapIsTyped
  <2> QED BY <2>1 DEF prune_remembered_set, HeapFields
<1>3. Alike(h, g)
  BY <1>1, <1>2 DEF Alike
<1> QED BY <1>3, AlikeKeepsGraph

LEMMA PhaseKeepsGraph ==
  ASSUME NEW h, LayoutInv(h), NamesAreUnique(h), NEW g, SameButPhase(h, g), SamePlaces(h, g)
  PROVE  SameGraph(h, g)
<1>1. Alike(h, g)
  BY DEF SameButPhase, Alike
<1> QED BY <1>1, AlikeKeepsGraph

\* What is live in h is what g shows, and nothing of it is young or marked.
Evacuated(h, live, g) ==
  /\ Thins(h, g) /\ NamesIn(g) = {h.objects[s].data : s \in live}
  /\ \A s \in Headers(g) : g.objects[s].age = "Old" /\ ~g.objects[s].marked

LEMMA EvacuateThins ==
  ASSUME NEW h, LayoutInv(h), NamesAreUnique(h), h.phase # "compacting", NEW kind,
         NEW live, live = {s \in Headers(h) : IsLive(h, {}, s, kind)},
         EphemeronsKept(h, live), OperandsMove(h, live),
         StrongResolve(h), StrongKept(h, live), RootsKept(h, live),
         NEW g, g = Evacuate(h, kind)
  PROVE  Evacuated(h, live, g)
<1> DEFINE to == Destinations(h.objects, live)
           c == compact_live_objects(h, live)
           mo == c.objects
           mg == c.generations
           k == InstallMovement(h, mo, mg, ForwardingOf(to, mg))
<1>1. HeapIsTyped(h) /\ RunsFollow(h) /\ live \subseteq Headers(h)
  BY DEF LayoutInv
<1>2. /\ Moves(h, to, Size(h), mo, mg) /\ c.forwarding = ForwardingOf(to, mg) /\ DOMAIN to = live
  <2> DEFINE t == to
             d == c
  <2>1. t = Destinations(h.objects, live) /\ d = compact_live_objects(h, live)
    OBVIOUS
  <2> HIDE DEF t, d
  <2>2. /\ Moves(h, t, Size(h), d.objects, d.generations) /\ d.forwarding = ForwardingOf(t, d.generations)
        /\ Slides(h, live, t)
    BY <1>1, <2>1, SlideMoves
  <2> QED BY <2>2 DEF t, d, Slides
<1>3. g = prune_remembered_set(k)
  BY <1>2 DEF Evacuate
<1>4. \A t \in DOMAIN mo : mo[t] # None => mo[t].marked = FALSE /\ mo[t].age = "Old"
  <2>1. mo = [t \in DOMAIN h.objects |-> IF \E s \in live : to[s] = t
                 THEN Survivor(h.objects[CHOOSE s \in live : to[s] = t]) ELSE None]
    BY DEF compact_live_objects
  <2>2. \A s \in live : h.objects[s] \in Objects
    BY <1>1, HeaderIsObject
  <2>3. ASSUME NEW t \in DOMAIN mo, mo[t] # None PROVE mo[t].marked = FALSE /\ mo[t].age = "Old"
    <3> HIDE DEF mo
    <3>1. \E s \in live : to[s] = t
      BY <2>1, <2>3
    <3> DEFINE s1 == CHOOSE s \in live : to[s] = t
    <3>2. s1 \in live /\ mo[t] = Survivor(h.objects[s1])
      BY <2>1, <2>3, <3>1
    <3> HIDE DEF s1
    <3> QED BY <2>2, <3>2, SurvivorKeeps
  <2> QED BY <2>3
<1>5. k = InstallMovement(h, mo, mg, ForwardingOf(to, mg))
  OBVIOUS
<1> HIDE DEF k, mo, mg, c, to
<1>6. Thins(h, k) /\ Follow(h, to, k)
  BY <1>2, <1>5, MovementThins
<1>7. LayoutInv(k)
  BY <1>2, <1>5, MovementKeeps
<1>8. ASSUME NEW s \in live PROVE ~k.objects[to[s]].marked /\ k.objects[to[s]].age = "Old"
  <2>1. \A t \in DOMAIN to : k.objects[to[t]] = RewrittenObject(h, ForwardingOf(to, mg), mo[to[t]])
    BY <1>2, <1>5, MovedHeap
  <2>2. validate_descriptor_shape(h.objects[s])
    BY <1>1 DEF RunsFollow
  <2> DEFINE q == k.objects[to[s]]
  <2>3. q = RewrittenObject(h, ForwardingOf(to, mg), mo[to[s]])
    BY <1>2, <2>1
  <2> HIDE DEF q
  <2>4. q.marked = mo[to[s]].marked /\ q.age = mo[to[s]].age
    BY <1>1, <1>2, <2>2, <2>3, RewrittenContents
  <2>5. mo[to[s]] # None /\ to[s] \in DOMAIN mo
    BY <1>2, NoneAssumption DEF Moves, SameContents
  <2> QED BY <1>4, <2>4, <2>5 DEF q
<1>9. Headers(k) = {to[s] : s \in live} /\ NamesIn(k) = {h.objects[s].data : s \in live}
  BY <1>2, <1>6 DEF Follow, Shows, ShowsStrong, NamesIn
<1>10. SamePlaces(k, g) /\ g.objects = k.objects
  BY <1>3, <1>7, PruneKeeps
<1>11. SameGraph(k, g)
  <2>1. NamesAreUnique(k)
    BY <1>6 DEF Thins
  <2> QED BY <1>3, <1>7, <2>1, PruneKeepsGraph
<1>12. Thins(h, g)
  BY <1>6, <1>7, <1>11, ThinsOn DEF SameGraph
<1> QED BY <1>8, <1>9, <1>10, <1>11, <1>12 DEF Evacuated, SameGraph, SamePlaces

\* A collection of a heap between two cycles.
LEMMA CollectedThins ==
  ASSUME NEW h, LayoutInv(h), NamesAreUnique(h), h.phase # "compacting", AtRest(h), NEW kind,
         NEW g, g = Evacuate(Mark(h, kind), kind)
  PROVE  Thins(h, g)
<1> DEFINE m == Mark(h, kind)
           live == {s \in Headers(m) : IsLive(m, {}, s, kind)}
<1>1. m = Mark(h, kind) /\ g = Evacuate(m, kind)
  OBVIOUS
<1> HIDE DEF m
<1>2. /\ LayoutInv(m) /\ m.phase = h.phase
      /\ EphemeronsKept(m, live) /\ OperandsMove(m, live)
  BY <1>1, MarkReady
<1>3. StrongResolve(m) /\ RootsAreCurrent(m) /\ StrongKept(m, live) /\ RootsKept(m, live)
  BY <1>1, MarkKeepsReferences DEF AtRest
<1>4. SameGraph(h, m)
  BY <1>1, MarkKeepsGraph
<1>5. NamesAreUnique(m)
  BY <1>4 DEF SameGraph, Thins
<1>6. Evacuated(m, live, g)
  BY <1>1, <1>2, <1>3, <1>5, EvacuateThins
<1> QED BY <1>2, <1>4, <1>6, ThinsOn DEF SameGraph, Evacuated

LEMMA FinalMarksKeepGraph ==
  ASSUME NEW h, LayoutInv(h), NamesAreUnique(h), h.phase = "marking", NEW g, g = FinalMarks(h)
  PROVE  SameGraph(h, g)
<1> DEFINE u == Unmarked(h)
           m == Mark(u, "Major")
<1>1. u = Unmarked(h) /\ m = Mark(u, "Major") /\ g = [m EXCEPT !.worklist = {}]
  BY DEF FinalMarks, finish_incremental_marking_liveness
<1> HIDE DEF u, m
<1>2. LayoutInv(u) /\ SameGraph(h, u) /\ u.phase = "marking"
  BY <1>1, UnmarkedKeeps, UnmarkedKeepsGraph
<1>3. NamesAreUnique(u)
  BY <1>2 DEF SameGraph, Thins
<1>4. LayoutInv(m) /\ SameGraph(u, m) /\ m.phase = "marking"
  <2> DEFINE major == "Major"
             live == {s \in Headers(m) : IsLive(m, {}, s, major)}
  <2>1. m = Mark(u, major)
    BY <1>1
  <2> HIDE DEF major
  <2>2. LayoutInv(m) /\ m.phase = u.phase
    <3> DEFINE held == live
    <3>1. held = {s \in Headers(m) : IsLive(m, {}, s, major)}
      OBVIOUS
    <3> HIDE DEF held
    <3> QED BY <1>2, <2>1, <3>1, MarkReady
  <2>3. SameGraph(u, m)
    BY <1>2, <1>3, <2>1, MarkKeepsGraph
  <2> QED BY <1>2, <2>2, <2>3
<1>5. NamesAreUnique(m)
  BY <1>4 DEF SameGraph, Thins
<1>6. SameButPhase(m, g) /\ g.phase = "marking" /\ g.worklist = {}
  <2>1. DOMAIN m = HeapFields
    BY <1>4 DEF LayoutInv, HeapIsTyped
  <2> QED BY <1>1, <1>4, <2>1 DEF HeapFields, SameButPhase
<1>7. SameGraph(m, g)
  <2>1. SamePlaces(m, g)
    BY <1>4, <1>6, PhaseKeeps
  <2> QED BY <1>4, <1>5, <1>6, <2>1, PhaseKeepsGraph
<1>8. SameGraph(h, m)
  BY <1>2, <1>4, SameGraphOn
<1> QED BY <1>4, <1>7, <1>8, SameGraphOn

LEMMA FinishMarkingThins ==
  ASSUME NEW h, LayoutInv(h), NamesAreUnique(h), h.phase = "marking",
         StrongResolve(h), RootsAreCurrent(h), NEW g, g = finish_incremental_marking_impl(h)
  PROVE  Thins(h, g)
<1> DEFINE m == FinalMarks(h)
           e == Evacuate(m, "Major")
           live == {s \in Headers(m) : IsLive(m, {}, s, "Major")}
<1>1. m = FinalMarks(h) /\ e = Evacuate(m, "Major") /\ g = [e EXCEPT !.phase = "idle"]
  BY DEF FinalMarks, finish_incremental_marking_impl
<1> HIDE DEF m, e
<1>2. /\ LayoutInv(m) /\ m.phase = "marking" /\ m.worklist = {}
      /\ EphemeronsKept(m, live) /\ OperandsMove(m, live)
  BY <1>1, FinalMarksReady
<1>3. StrongResolve(m) /\ StrongKept(m, live) /\ RootsKept(m, live)
  BY <1>1, FinalMarksKeepReferences
<1>4. SameGraph(h, m)
  BY <1>1, FinalMarksKeepGraph
<1>5. NamesAreUnique(m)
  BY <1>4 DEF SameGraph, Thins
<1>6. LayoutInv(e) /\ e.phase = "marking" /\ e.worklist = {} /\ Thins(m, e)
  <2> DEFINE major == "Major"
  <2>1. e = Evacuate(m, major) /\ live = {s \in Headers(m) : IsLive(m, {}, s, major)}
    BY <1>1
  <2> HIDE DEF major, live
  <2>2. LayoutInv(e) /\ e.phase = "marking" /\ e.worklist = {}
    BY <1>2, <2>1, EvacuateKeeps
  <2>3. Evacuated(m, live, e)
    BY <1>2, <1>3, <1>5, <2>1, EvacuateThins
  <2> QED BY <2>2, <2>3 DEF Evacuated
<1>7. SameButPhase(e, g) /\ g.phase = "idle" /\ g.worklist = {}
  <2>1. DOMAIN e = HeapFields
    BY <1>6 DEF LayoutInv, HeapIsTyped
  <2> QED BY <1>1, <1>6, <2>1 DEF HeapFields, SameButPhase
<1>8. SamePlaces(e, g)
  BY <1>6, <1>7, PhaseKeeps
<1>9. Thins(e, g)
  <2>1. NamesAreUnique(e)
    BY <1>6 DEF Thins
  <2> QED BY <1>6, <1>7, <1>8, <2>1, PhaseKeepsGraph DEF SameGraph
<1>10. Thins(h, e)
  BY <1>2, <1>4, <1>6, ThinsOn DEF SameGraph
<1> QED BY <1>6, <1>9, <1>10, ThinsOn

(***************************************************************************)
(* The start of an incremental compaction.                                 *)
(***************************************************************************)
\* A weak target or a key is cleared when it is swept.
LEMMA ClearedSoftShows ==
  ASSUME NEW h, LayoutInv(h), NEW live, live \subseteq Headers(h),
         \A s \in Headers(h) : h.objects[s].marked <=> s \in live,
         NEW s \in live, NEW gone,
         \A t \in Headers(h) : h.objects[t].data \in gone <=> t \notin live,
         Nil \notin gone, EphemeronsKept(h, live),
         NEW o, o = h.objects[s], NEW soft, soft = ClearedSoft(h, o)
  PROVE  /\ Loses(h, s, gone) => soft = IF o.kind = "WeakRef" THEN <<Nil>> ELSE <<Nil, Nil>>
         /\ ~Loses(h, s, gone) =>
              /\ soft = o.soft
              /\ \A i \in DOMAIN o.soft : is_object(o.soft[i]) => checked_slot(h, o.soft[i]) \in live
<1>1. o \in Objects /\ validate_descriptor_shape(o) /\ \A i \in DOMAIN o.soft : o.soft[i] \in Values
  BY ObjectValues
<1>2. o.soft \in Seq(Values)
  BY <1>1, ObjectFields
<1>3. \A i \in DOMAIN o.soft : is_object(o.soft[i]) =>
        /\ o.soft[i] \in Ids /\ checked_slot(h, o.soft[i]) \in Headers(h)
        /\ ObjectOf(h, o.soft[i]) = h.objects[checked_slot(h, o.soft[i])]
        /\ NameIn(h, o.soft[i]) = h.objects[checked_slot(h, o.soft[i])].data
  <2> SUFFICES ASSUME NEW i \in DOMAIN o.soft, is_object(o.soft[i])
               PROVE  /\ o.soft[i] \in Ids /\ checked_slot(h, o.soft[i]) \in Headers(h)
                      /\ ObjectOf(h, o.soft[i]) = h.objects[checked_slot(h, o.soft[i])]
                      /\ NameIn(h, o.soft[i]) = h.objects[checked_slot(h, o.soft[i])].data
    OBVIOUS
  <2>1. o.soft[i] \in Ids /\ Resolves(h, o.soft[i])
    BY <1>1, ValueIsId DEF LayoutInv, RegistriesName, SoftReferences
  <2> QED BY <2>1, ResolvedSlot, NameOfReference
<1> DEFINE dead == is_object(o.soft[1]) /\ ~ObjectOf(h, o.soft[1]).marked
<1>4. 1 \in DOMAIN o.soft /\ o.kind \in {"WeakRef", "Ephemeron"} => (dead <=> Loses(h, s, gone))
  <2> SUFFICES ASSUME 1 \in DOMAIN o.soft, o.kind \in {"WeakRef", "Ephemeron"}
               PROVE  dead <=> NameIn(h, o.soft[1]) \in gone
    BY DEF Loses
  <2>1. CASE is_object(o.soft[1])
    BY <1>3, <2>1
  <2>2. CASE ~is_object(o.soft[1])
    BY <2>2, NameOfNil DEF is_object
  <2> QED BY <2>1, <2>2
<1>5. CASE o.kind = "WeakRef"
  <2>1. Len(o.soft) = 1
    BY <1>1, <1>5 DEF validate_descriptor_shape
  <2>2. DOMAIN o.soft = {1}
    BY <1>2, <2>1
  <2>3. soft = IF dead THEN <<Nil>> ELSE o.soft
    BY <1>5 DEF ClearedSoft
  <2>4. ~dead /\ is_object(o.soft[1]) => checked_slot(h, o.soft[1]) \in live
    BY <1>3, <2>2
  <2> QED BY <1>4, <1>5, <2>2, <2>3, <2>4
<1>6. CASE o.kind = "Ephemeron"
  <2>1. Len(o.soft) = 2 /\ (o.soft[1] = Nil => o.soft[2] = Nil)
    BY <1>1, <1>6 DEF validate_descriptor_shape, EphemeronAndBuilderShape
  <2>2. DOMAIN o.soft = {1, 2}
    BY <1>2, <2>1
  <2>3. soft = IF dead THEN <<Nil, Nil>> ELSE o.soft
    BY <1>6 DEF ClearedSoft
  <2>4. ~dead /\ is_object(o.soft[1]) => checked_slot(h, o.soft[1]) \in live
    BY <1>3, <2>2
  <2>5. ~dead /\ is_object(o.soft[2]) => checked_slot(h, o.soft[2]) \in live
    BY <1>6, <2>1, <2>4 DEF EphemeronsKept, is_object
  <2> QED BY <1>4, <1>6, <2>2, <2>3, <2>4, <2>5
<1>7. CASE o.kind \notin {"WeakRef", "Ephemeron"}
  <2>1. o.soft = <<>> /\ soft = o.soft
    BY <1>1, <1>7 DEF validate_descriptor_shape, ClearedSoft
  <2> QED BY <1>7, <2>1 DEF Loses
<1> QED BY <1>5, <1>6, <1>7

LEMMA PrepareThins ==
  ASSUME NEW h, LayoutInv(h), NamesAreUnique(h), h.phase # "compacting", h.worklist = {},
         NEW live, live = {s \in Headers(h) : h.objects[s].marked}, EphemeronsKept(h, live),
         StrongResolve(h), StrongKept(h, live), RootsKept(h, live),
         NEW g, g = prepare_incremental_compaction_from_marked(h)
  PROVE  Thins(h, g)
<1>1. LayoutInv(g) /\ PreparedAs(h, live, g) /\ Headers(g) = live
  BY PrepareKeeps
<1>2. \A v \in Ids : checked_slot(h, v) \in live => Physical(g, v) /\ slot_from(v) = checked_slot(h, v)
  <2> SUFFICES ASSUME NEW v \in Ids, checked_slot(h, v) \in live
               PROVE  Physical(g, v) /\ slot_from(v) = checked_slot(h, v)
    OBVIOUS
  <2>1. Physical(h, v) /\ slot_from(v) = checked_slot(h, v)
    <3>1. checked_slot(h, v) # NoSlot /\ is_object(v)
      BY HeaderIsObject, IdsAreReferences DEF LayoutInv
    <3>2. Physical(h, v)
      BY <3>1, StillResolves DEF Resolves
    <3> QED BY <3>2, PhysicalIsId
  <2>2. g.generations = h.generations
    BY <1>1 DEF PreparedAs
  <2> QED BY <1>1, <2>1, <2>2 DEF Physical, Headers
<1>3. \A v \in Ids : checked_slot(h, v) \in live => Resolves(g, v) /\ checked_slot(g, v) = checked_slot(h, v)
  BY <1>1, <1>2, CurrentResolves
<1>4. ASSUME NEW s \in live
      PROVE  /\ ClearedAs(h, live, s, g.objects[s]) /\ s \in Headers(h)
             /\ g.objects[s].soft = ClearedSoft(h, h.objects[s])
  <2> DEFINE q == g.objects[s]
  <2>1. q = [h.objects[s] EXCEPT !.marked = FALSE, !.soft = ClearedSoft(h, h.objects[s])]
        /\ s \in DOMAIN g.objects /\ s \in Headers(h)
    BY <1>1 DEF PreparedAs, Headers
  <2> HIDE DEF q
  <2>2. ClearedAs(h, live, s, q)
    BY <2>1, ClearedKeeps
  <2>3. h.objects[s] \in Objects
    BY <2>1, ObjectValues
  <2>4. q.soft = ClearedSoft(h, h.objects[s])
    BY <2>1, <2>3 DEF Objects
  <2> QED BY <2>1, <2>2, <2>4 DEF q
<1>5. ASSUME NEW v \in Values, is_object(v) => checked_slot(h, v) \in live PROVE SameName(h, v, g, v)
  <2>1. CASE is_object(v)
    <3>1. v \in Ids /\ checked_slot(h, v) \in live /\ live \subseteq Headers(h)
      BY <1>5, <2>1, ValueIsId
    <3>2. Resolves(h, v) /\ Resolves(g, v) /\ checked_slot(g, v) = checked_slot(h, v)
      BY <1>3, <2>1, <3>1, HeaderIsObject DEF Resolves, LayoutInv
    <3>3. g.objects[checked_slot(h, v)].data = h.objects[checked_slot(h, v)].data
      BY <1>4, <3>1 DEF ClearedAs
    <3> QED BY <2>1, <3>2, <3>3 DEF SameName, NameIn, ObjectOf, is_object
  <2>2. CASE ~is_object(v)
    BY <2>2 DEF SameName, NameIn, is_object
  <2> QED BY <2>1, <2>2
<1>6. NamesIn(g) = {h.objects[s].data : s \in live}
  <2>1. \A s \in live : g.objects[s].data = h.objects[s].data
    BY <1>4 DEF ClearedAs
  <2> QED BY ONLY <1>1, <2>1 DEF NamesIn
<1>7. \A s \in Headers(h) : h.objects[s].data \in Gone(GraphIn(h), g) <=> s \notin live
  BY <1>6 DEF NamesAreUnique, NamesIn, Gone, GraphIn
<1>8. Nil \notin Gone(GraphIn(h), g)
  BY NamesAreNumbers DEF Gone, GraphIn
<1> DEFINE to == [s \in live |-> s]
<1>9. ASSUME NEW s \in live PROVE Shows(h, s, g, s)
  <2> DEFINE o == h.objects[s]
             gone == Gone(GraphIn(h), g)
             soft == ClearedSoft(h, o)
  <2>1. ClearedAs(h, live, s, g.objects[s]) /\ g.objects[s].soft = soft /\ s \in Headers(h)
    BY <1>4
  <2>2. \A i \in DOMAIN o.strong : o.strong[i] \in Values
    BY <2>1, ObjectValues
  <2>3. \A i \in DOMAIN o.soft : o.soft[i] \in Values
    BY <2>1, ObjectValues
  <2>4. ShowsStrong(h, s, g, s)
    <3>1. \A i \in DOMAIN o.strong : is_object(o.strong[i]) => checked_slot(h, o.strong[i]) \in live
      BY DEF StrongKept, visit_reference_fields
    <3>2. g.objects[s].strong = o.strong
      BY <2>1 DEF ClearedAs
    <3>3. \A i \in DOMAIN o.strong : SameName(h, o.strong[i], g, g.objects[s].strong[i])
      BY <1>5, <2>2, <3>1, <3>2
    <3> QED BY <2>1, <3>2, <3>3 DEF ShowsStrong, ClearedAs
  <2>5. o = h.objects[s] /\ soft = ClearedSoft(h, o) /\ live \subseteq Headers(h)
        /\ \A t \in Headers(h) : h.objects[t].marked <=> t \in live
    OBVIOUS
  <2> HIDE DEF o, soft, gone
  <2>6. /\ Loses(h, s, gone) => soft = IF o.kind = "WeakRef" THEN <<Nil>> ELSE <<Nil, Nil>>
        /\ ~Loses(h, s, gone) =>
             /\ soft = o.soft
             /\ \A i \in DOMAIN o.soft : is_object(o.soft[i]) => checked_slot(h, o.soft[i]) \in live
    BY <1>7, <1>8, <2>5, ClearedSoftShows DEF gone
  <2>7. ~Loses(h, s, gone) => SoftStays(h, s, g, s)
    BY <1>5, <2>1, <2>3, <2>5, <2>6 DEF SoftStays
  <2> QED BY <2>1, <2>4, <2>5, <2>6, <2>7 DEF Shows, SoftGoes, gone
<1>10. Follow(h, to, g)
  BY <1>1, <1>9 DEF Follow
<1>11. g.cells = h.cells /\ g.allocated = h.allocated /\ g.intern_table = MarkedIds(h, h.intern_table)
  BY <1>1 DEF PreparedAs
<1>12. SameRoots(h, g) /\ SameRawCells(h, g)
  <2>1. \A c \in Registered : h.cells[c] \in Values /\ (is_object(h.cells[c]) => checked_slot(h, h.cells[c]) \in live)
    BY RootCells DEF RootsKept
  <2> QED BY <1>5, <1>11, <2>1 DEF SameRoots, SameRawCells
<1>13. InternedIn(g) = InternedIn(h) \ Gone(GraphIn(h), g)
  <2>1. PICK K : K \subseteq Headers(h) /\ h.intern_table = {IdAt(h, s) : s \in K} /\ CanonicalAt(h, K)
    BY CanonicalSlots
  <2>2. \A s \in K : ObjectOf(h, IdAt(h, s)) = h.objects[s]
    BY <2>1, IdOfBase DEF LayoutInv, ObjectOf
  <2>3. g.intern_table = {IdAt(h, s) : s \in K \cap live}
    BY <1>11, <2>1, <2>2 DEF MarkedIds
  <2>4. \A s \in live : ObjectOf(g, IdAt(h, s)) = g.objects[s]
    <3> SUFFICES ASSUME NEW s \in live PROVE checked_slot(g, IdAt(h, s)) = s
      BY DEF ObjectOf
    <3>1. IdAt(h, s) \in Ids /\ checked_slot(h, IdAt(h, s)) = s
      BY IdOfBase DEF LayoutInv
    <3> QED BY <1>3, <3>1
  <2>5. InternedIn(g) = {g.objects[s].data : s \in K \cap live}
    BY <2>3, <2>4 DEF InternedIn
  <2>6. DOMAIN to = live /\ \A s \in live : to[s] = s
    OBVIOUS
  <2> HIDE DEF to
  <2>7. CanonicalMoved(g, to, K)
    BY <2>5, <2>6 DEF CanonicalMoved
  <2> QED BY <1>10, <2>1, <2>7, InternedFollow
<1> HIDE DEF to
<1> QED BY <1>10, <1>11, <1>12, <1>13, FollowThins

LEMMA StartCompactionThins ==
  ASSUME NEW h, LayoutInv(h), NamesAreUnique(h), h.phase = "idle", AtRest(h),
         NEW g, g = prepare_incremental_compaction(h)
  PROVE  Thins(h, g)
<1> DEFINE major == "Major"
           m == Mark(h, major)
           live == {s \in Headers(m) : IsLive(m, {}, s, major)}
<1>1. m = Mark(h, major) /\ g = prepare_incremental_compaction_from_marked(m)
  BY DEF prepare_incremental_compaction
<1>2. live = {s \in Headers(m) : m.objects[s].marked} /\ major # "Minor"
  BY DEF IsLive
<1>3. live = {s \in Headers(m) : IsLive(m, {}, s, major)}
  OBVIOUS
<1> HIDE DEF major, m, live
<1>4. LayoutInv(m) /\ m.phase = h.phase /\ EphemeronsKept(m, live)
  BY <1>1, <1>3, MarkReady
<1>5. m.worklist = {} /\ m.phase # "compacting"
  BY <1>4 DEF LayoutInv, PhaseIsClean
<1>6. StrongResolve(m) /\ StrongKept(m, live) /\ RootsKept(m, live)
  BY <1>1, <1>2, <1>3, MarkKeepsReferences DEF AtRest
<1>7. SameGraph(h, m)
  BY <1>1, MarkKeepsGraph
<1>8. Thins(m, g)
  BY <1>1, <1>2, <1>4, <1>5, <1>6, <1>7, PrepareThins DEF SameGraph, Thins
<1> QED BY <1>4, <1>7, <1>8, ThinsOn DEF SameGraph

LEMMA MarkedToCompactionThins ==
  ASSUME NEW h, LayoutInv(h), NamesAreUnique(h), h.phase = "marking",
         StrongResolve(h), RootsAreCurrent(h),
         NEW g, g = finish_incremental_marking_to_incremental_compaction(h)
  PROVE  Thins(h, g)
<1> DEFINE m == FinalMarks(h)
           live == {s \in Headers(m) : IsLive(m, {}, s, "Major")}
<1>1. m = FinalMarks(h) /\ g = prepare_incremental_compaction_from_marked(m)
  BY DEF finish_incremental_marking_to_incremental_compaction, FinalMarks
<1>2. live = {s \in Headers(m) : m.objects[s].marked}
  BY DEF IsLive
<1>3. live = {s \in Headers(m) : IsLive(m, {}, s, "Major")}
  OBVIOUS
<1> HIDE DEF m, live
<1>4. LayoutInv(m) /\ m.phase = "marking" /\ m.worklist = {} /\ EphemeronsKept(m, live)
  BY <1>1, <1>3, FinalMarksReady
<1>5. StrongResolve(m) /\ StrongKept(m, live) /\ RootsKept(m, live)
  BY ONLY <1>1, <1>3, LayoutInv(h), h.phase = "marking", StrongResolve(h), RootsAreCurrent(h),
          FinalMarksKeepReferences
<1>6. SameGraph(h, m)
  BY <1>1, FinalMarksKeepGraph
<1>7. Thins(m, g)
  BY <1>1, <1>2, <1>4, <1>5, <1>6, PrepareThins DEF SameGraph, Thins
<1> QED BY <1>4, <1>6, <1>7, ThinsOn DEF SameGraph

(***************************************************************************)
(* Relocations and the end of a compaction.                                *)
(***************************************************************************)
\* Every object goes on at to[s], and what refers to it goes along.
Renames(h, to, g) ==
  /\ DOMAIN to = Headers(h) /\ Headers(g) = {to[s] : s \in Headers(h)}
  /\ \A s, t \in Headers(h) : to[s] = to[t] => s = t
  /\ \A s \in Headers(h) : ShowsStrong(h, s, g, to[s]) /\ SoftStays(h, s, g, to[s])

LEMMA RenamingKeepsGraph ==
  ASSUME NEW h, LayoutInv(h), NamesAreUnique(h), NEW to, NEW g, Renames(h, to, g),
         SameRoots(h, g), SameRawCells(h, g), g.allocated = h.allocated,
         InternedIn(g) = InternedIn(h)
  PROVE  SameGraph(h, g)
<1>1. \A s \in Headers(h) : g.objects[to[s]].data = h.objects[s].data
  BY DEF Renames, ShowsStrong
<1>2. NamesIn(g) = NamesIn(h)
  BY <1>1 DEF NamesIn, Renames
<1>3. Gone(GraphIn(h), g) = {}
  BY <1>2 DEF Gone, GraphIn
<1>4. \A s \in Headers(h) : Shows(h, s, g, to[s])
  BY <1>3 DEF Renames, Shows, Loses
<1>5. Follow(h, to, g)
  BY <1>4 DEF Renames, Follow
<1>6. InternedIn(g) = InternedIn(h) \ Gone(GraphIn(h), g)
  BY <1>3
<1> QED BY <1>2, <1>5, <1>6, FollowThins DEF SameGraph

\* Both names of a reference that resolves.
LEMMA RelocatedName ==
  ASSUME NEW h, LayoutInv(h), h.phase = "compacting", NEW g, Relocated(h, g),
         NEW v \in Values, is_object(v) => Resolves(h, v)
  PROVE  /\ SameName(h, v, g, v)
         /\ SameName(h, v, g, canonicalize_incremental_compaction_read(g, v))
<1> DEFINE w == canonicalize_incremental_compaction_read(g, v)
<1>1. CASE is_object(v)
  <2>1. v \in Ids /\ Resolves(h, v) /\ w = canonicalize_incremental_compaction_read(g, v)
    BY <1>1, ValueIsId
  <2> HIDE DEF w
  <2>2. Becomes(h, v, g, v) /\ Becomes(h, v, g, w)
    BY <2>1, RelocatedReference
  <2> QED BY <2>1, <2>2, BecomingKeepsName DEF w
<1>2. CASE ~is_object(v)
  BY <1>2 DEF SameName, NameIn, is_object, canonicalize_incremental_compaction_read
<1> QED BY <1>1, <1>2

LEMMA RelocateKeepsGraph ==
  ASSUME NEW h, LayoutInv(h), NamesAreUnique(h), h.phase = "compacting", h.cursor < Len(h.plan),
         AtRest(h), NEW g, g = RelocateNext(h)
  PROVE  SameGraph(h, g)
<1> DEFINE k == h.cursor + 1
<1>1. /\ HeapIsTyped(h) /\ RunsFollow(h) /\ PlanIsCurrent(h) /\ Named(h) /\ DOMAIN h = HeapFields
  BY PlanNames DEF LayoutInv, PhaseIsClean, HeapIsTyped
<1>2. k = h.cursor + 1
  OBVIOUS
<1> HIDE DEF k
<1>3. RelocatedAs(h, k, g) /\ g.cursor = k /\ g.plan = h.plan
  BY <1>1, <1>2, RelocatedIs DEF RelocatedAs
<1>4. Relocated(h, g) /\ EntryMoves(h, k, g)
  BY <1>2, <1>3, RelocationPlaces
<1>5. /\ HeapIsTyped(g) /\ RunsFollow(g) /\ PlanIsCurrent(g) /\ Named(g)
      /\ Headers(g) = {Base(g, i) : i \in DOMAIN h.plan}
      /\ Headers(h) = {Base(h, i) : i \in DOMAIN h.plan}
  BY <1>1, <1>3, <1>4, PlanNames DEF Relocated, PlanIsCurrent
<1> DEFINE to == [s \in Headers(h) |-> Base(g, CHOOSE i \in DOMAIN h.plan : Base(h, i) = s)]
<1>6. \A i \in DOMAIN h.plan : Base(h, i) \in Headers(h) /\ to[Base(h, i)] = Base(g, i)
  <2>1. \A i, j \in DOMAIN h.plan : Base(h, i) = Base(h, j) => i = j
    BY <1>1, SourcesDiffer
  <2> QED BY <1>5, <2>1
<1>7. \A s \in Headers(h) : \E i \in DOMAIN h.plan : s = Base(h, i)
  BY <1>5
<1>8. \A i, j \in DOMAIN h.plan : Base(g, i) = Base(g, j) => i = j
  BY <1>3, <1>5, SourcesDiffer
<1>9. DOMAIN to = Headers(h)
  OBVIOUS
<1> HIDE DEF to
<1>10. \A v \in Values : (is_object(v) => Resolves(h, v)) =>
         SameName(h, v, g, v) /\ SameName(h, v, g, canonicalize_incremental_compaction_read(g, v))
  BY <1>4, RelocatedName
<1>11. Renames(h, to, g)
  <2>1. ASSUME NEW s \in Headers(h) PROVE ShowsStrong(h, s, g, to[s]) /\ SoftStays(h, s, g, to[s])
    <3>1. PICK i \in DOMAIN h.plan : s = Base(h, i) /\ to[s] = Base(g, i)
      BY <1>6, <1>7
    <3>2. SameContents(h.objects[s], g.objects[to[s]])
      BY <1>4, <3>1 DEF Relocated
    <3>3. /\ \A j \in DOMAIN h.objects[s].strong : h.objects[s].strong[j] \in Values
          /\ \A j \in DOMAIN h.objects[s].soft : h.objects[s].soft[j] \in Values
      BY ObjectValues
    <3>4. \A j \in DOMAIN h.objects[s].strong :
            is_object(h.objects[s].strong[j]) => Resolves(h, h.objects[s].strong[j])
      BY DEF AtRest, StrongResolve, visit_reference_fields
    <3>5. \A j \in DOMAIN h.objects[s].soft :
            is_object(h.objects[s].soft[j]) => Resolves(h, h.objects[s].soft[j])
      BY DEF LayoutInv, RegistriesName, SoftReferences
    <3> QED BY <1>10, <3>2, <3>3, <3>4, <3>5 DEF SameContents, ShowsStrong, SoftStays
  <2>2. Headers(g) = {to[s] : s \in Headers(h)}
    BY <1>5, <1>6, <1>7
  <2>3. \A s, t \in Headers(h) : to[s] = to[t] => s = t
    BY <1>6, <1>7, <1>8
  <2> QED BY <1>9, <2>1, <2>2, <2>3 DEF Renames
<1>12. SameRoots(h, g) /\ SameRawCells(h, g)
  <2>1. ASSUME NEW c \in Registered PROVE SameName(h, h.cells[c], g, g.cells[c])
    <3>1. c \in Cells /\ h.cells[c] \in Values /\ (is_object(h.cells[c]) => h.cells[c] \in Ids)
      BY RootCells DEF Registered
    <3>2. g.cells[c] = canonicalize_incremental_compaction_read(g, h.cells[c])
      BY <1>3, <3>1 DEF RelocatedAs, Registered
    <3>3. is_object(h.cells[c]) => Resolves(h, h.cells[c])
      BY <1>1, <3>1, CurrentResolves DEF AtRest, RootsAreCurrent, Registered
    <3> QED BY <1>10, <3>1, <3>2, <3>3
  <2>2. \A c \in RawCells : g.cells[c] = h.cells[c]
    BY <1>3, CellsAssumption DEF RelocatedAs
  <2> QED BY <2>1, <2>2 DEF SameRoots, SameRawCells
<1>13. InternedIn(g) = InternedIn(h)
  <2>1. \A id \in h.intern_table : id \in Ids /\ Resolves(h, id)
    <3>1. \A s \in Headers(h) : Resolves(h, IdAt(h, s))
      BY IdOfBase DEF LayoutInv
    <3> QED BY <3>1 DEF LayoutInv, HeapIsTyped, RegistriesName, OfKind
  <2> DEFINE forwarded(id) == IF id = h.plan[k].source_id THEN h.plan[k].destination_id ELSE id
  <2>2. ASSUME NEW id \in h.intern_table
        PROVE  ObjectOf(g, forwarded(id)).data = ObjectOf(h, id).data
    <3>1. PICK i \in DOMAIN h.plan : NamesEntry(h, i, id)
      BY <1>1, <2>1, <2>2 DEF Named
    <3>2. NamesEntry(g, i, id)
      BY <1>2, <1>3, <1>4, <3>1, RelocationNames
    <3>3. id \in Ids /\ checked_slot(h, id) = Base(h, i) /\ checked_slot(g, id) = Base(g, i)
      BY <1>1, <1>3, <1>5, <2>1, <2>2, <3>1, <3>2 DEF Named
    <3>4. g.objects[Base(g, i)].data = h.objects[Base(h, i)].data
      BY <1>4 DEF Relocated, SameContents
    <3>5. CASE id # h.plan[k].source_id
      BY <3>3, <3>4, <3>5 DEF ObjectOf
    <3>6. CASE id = h.plan[k].source_id
      <4>1. k \in DOMAIN h.plan /\ Name(h, k) = id /\ Name(g, k) = h.plan[k].destination_id
        BY <1>4, <3>6 DEF EntryMoves
      <4>2. NamesEntry(h, k, id) /\ NamesEntry(g, k, h.plan[k].destination_id)
        BY <4>1 DEF NamesEntry
      <4>3. h.plan[k].destination_id \in Ids
        BY <1>3, <1>5, <4>1 DEF Named
      <4>4. checked_slot(h, id) = Base(h, k) /\ checked_slot(g, h.plan[k].destination_id) = Base(g, k)
        BY <1>1, <1>3, <1>5, <3>3, <4>1, <4>2, <4>3 DEF Named
      <4>5. g.objects[Base(g, k)].data = h.objects[Base(h, k)].data
        BY <1>4, <4>1 DEF Relocated, SameContents
      <4> QED BY <3>6, <4>4, <4>5 DEF ObjectOf
    <3> QED BY <3>5, <3>6
  <2>3. g.intern_table = {forwarded(id) : id \in h.intern_table}
    BY <1>3 DEF RelocatedAs, ForwardedOwners
  <2> HIDE DEF forwarded
  <2> QED BY <2>2, <2>3 DEF InternedIn
<1> QED BY <1>3, <1>11, <1>12, <1>13, RenamingKeepsGraph DEF RelocatedAs

LEMMA SameHeapSameGraph ==
  ASSUME NEW h, LayoutInv(h), NamesAreUnique(h)
  PROVE  SameGraph(h, h)
<1>1. Alike(h, h)
  BY DEF Alike, SamePlaces, LayoutInv
<1> QED BY <1>1, AlikeKeepsGraph

LEMMA RelocateAllKeepsGraph ==
  ASSUME NEW h, LayoutInv(h), NamesAreUnique(h), h.phase = "compacting", AtRest(h),
         NEW g, g = RelocateAll(h)
  PROVE  SameGraph(h, g)
<1> DEFINE a == h.cursor
           n == Len(h.plan)
           after == CHOOSE f : RelocatesUpTo(h, n, f)
<1>1. g = after[n]
  BY DEF RelocateAll, RelocatesUpTo
<1>2. n \in Nat /\ a \in 0 .. n
  <2>1. h.plan \in Seq(Relocations) /\ a \in 0 .. n
    BY DEF LayoutInv, HeapIsTyped
  <2> HIDE DEF Relocations
  <2> QED BY <2>1
<1>3. RelocatesUpTo(h, n, after)
  BY <1>2, RelocationsExist
<1> HIDE DEF after
<1> DEFINE Going(m) == /\ LayoutInv(m) /\ m.phase = "compacting" /\ m.plan = h.plan /\ AtRest(m)
                       /\ SameGraph(h, m)
           T == {k \in 0 .. n - a : Going(after[a + k]) /\ after[a + k].cursor = a + k}
<1>4. 0 \in T
  <2>1. after[a + 0] = h
    BY <1>2, <1>3 DEF RelocatesUpTo
  <2> QED BY <1>2, <2>1, SameHeapSameGraph
<1>5. ASSUME NEW k \in 0 .. n - a, k < n - a, k \in T PROVE k + 1 \in T
  <2> DEFINE m == after[a + k]
             p == after[a + (k + 1)]
  <2>1. Going(m) /\ m.cursor = a + k /\ a + k < n
    BY <1>2, <1>5
  <2>2. p = RelocateNext(m)
    <3>1. a + (k + 1) \in a .. n /\ a + (k + 1) # a /\ (a + (k + 1)) - 1 = a + k
      BY <1>2, <1>5
    <3> QED BY <1>3, <3>1 DEF RelocatesUpTo
  <2> HIDE DEF m, p
  <2>3. /\ LayoutInv(m) /\ m.phase = "compacting" /\ m.plan = h.plan /\ m.cursor < Len(m.plan)
        /\ AtRest(m) /\ SameGraph(h, m)
    BY <2>1
  <2>4. LayoutInv(p) /\ p.phase = "compacting" /\ p.plan = m.plan /\ p.cursor = m.cursor + 1
    BY <2>2, <2>3, RelocateKeeps
  <2>5. AtRest(p)
    BY <2>2, <2>3, RelocateKeepsReferences
  <2>6. SameGraph(h, p)
    <3>1. NamesAreUnique(m)
      BY <2>3 DEF SameGraph, Thins
    <3>2. SameGraph(m, p)
      BY <2>2, <2>3, <3>1, RelocateKeepsGraph
    <3> QED BY <2>3, <3>2, SameGraphOn
  <2>7. p.cursor = a + (k + 1) /\ k + 1 \in 0 .. n - a
    BY <1>2, <1>5, <2>1, <2>4
  <2> QED BY <2>3, <2>4, <2>5, <2>6, <2>7 DEF p
<1>6. n - a \in T
  <2>1. n - a \in Nat
    BY <1>2
  <2> HIDE DEF T, a, n
  <2> QED BY <1>4, <1>5, <2>1, CountingUp
<1>7. a + (n - a) = n
  BY <1>2
<1> QED BY <1>1, <1>6, <1>7

LEMMA FinalizeKeepsGraph ==
  ASSUME NEW h, LayoutInv(h), NamesAreUnique(h), h.phase = "compacting", h.cursor = Len(h.plan),
         AtRest(h), NEW g, g = finalize_incremental_compaction(h)
  PROVE  SameGraph(h, g)
<1> DEFINE read(v) == canonicalize_incremental_compaction_read(h, v)
<1>1. /\ HeapIsTyped(h) /\ RunsFollow(h) /\ PlanIsCurrent(h) /\ Named(h) /\ DOMAIN h = HeapFields
      /\ LayoutInv(g) /\ g.phase = "idle" /\ Headers(h) \subseteq DOMAIN h.objects
  BY PlanNames, FinalizeKeeps DEF LayoutInv, PhaseIsClean, HeapIsTyped, Headers
<1>2. PICK ids : FinalizedAs(h, ids, g)
  BY <1>1, FinalizedIs
<1>3. /\ DOMAIN g.objects = DOMAIN h.objects
      /\ \A s \in DOMAIN h.objects :
           g.objects[s] = IF h.objects[s] = None THEN None ELSE CanonicalFields(h, h.objects[s])
  BY <1>2 DEF FinalizedAs, CanonicalObjects
<1>4. ASSUME NEW s \in Headers(h)
      PROVE  /\ SameShape(h.objects[s], g.objects[s]) /\ g.objects[s] # None
             /\ g.objects[s].strong = [i \in DOMAIN h.objects[s].strong |-> read(h.objects[s].strong[i])]
             /\ g.objects[s].soft = [i \in DOMAIN h.objects[s].soft |-> read(h.objects[s].soft[i])]
  <2> DEFINE o == h.objects[s]
             q == g.objects[s]
  <2>1. o \in Objects /\ validate_descriptor_shape(o) /\ q = CanonicalFields(h, o)
    BY <1>1, <1>3, HeaderIsObject DEF RunsFollow, Headers
  <2> HIDE DEF o, q
  <2>2. CanonicalAs(h, o, q)
    BY <1>1, <2>1, CanonicalFieldsKeep
  <2>3. q.strong = [i \in DOMAIN o.strong |-> read(o.strong[i])]
        /\ q.soft = [i \in DOMAIN o.soft |-> read(o.soft[i])]
    BY <2>1 DEF CanonicalFields, Objects
  <2> QED BY <2>2, <2>3, NoneAssumption DEF o, q, CanonicalAs
<1>5. Headers(g) = Headers(h)
  BY <1>3, <1>4 DEF Headers
<1>6. g.generations = h.generations
  BY <1>2 DEF FinalizedAs
<1>7. \A s \in Headers(h) : checked_slot(g, IdAt(h, s)) = s /\ Resolves(g, IdAt(h, s))
  <2>1. \A s \in Headers(g) : checked_slot(g, IdAt(g, s)) = s /\ Resolves(g, IdAt(g, s))
    BY <1>1, IdOfBase DEF LayoutInv
  <2> QED BY <1>5, <1>6, <2>1 DEF IdAt
<1>8. ASSUME NEW v \in Values, is_object(v) => Resolves(h, v) PROVE SameName(h, v, g, read(v))
  <2>1. CASE is_object(v)
    <3>1. v \in Ids /\ Resolves(h, v)
      BY <1>8, <2>1, ValueIsId
    <3>2. PICK i \in DOMAIN h.plan :
            /\ read(v) = Name(h, i) /\ checked_slot(h, v) = Base(h, i)
            /\ Name(h, i) = IdAt(h, Base(h, i)) /\ Base(h, i) \in Headers(h) /\ Name(h, i) \in Ids
      BY <1>1, <3>1 DEF Named
    <3>3. checked_slot(g, read(v)) = Base(h, i) /\ Resolves(g, read(v)) /\ read(v) \in Ids
      BY <1>7, <3>2
    <3>4. g.objects[Base(h, i)].data = h.objects[Base(h, i)].data
      BY <1>4, <3>2 DEF SameShape
    <3>5. read(v) # Nil /\ v # Nil
      BY <3>1, <3>3, IdsAreReferences
    <3> QED BY <3>1, <3>2, <3>3, <3>4, <3>5 DEF SameName, NameIn, ObjectOf
  <2>2. CASE ~is_object(v)
    BY <2>2 DEF SameName, NameIn, is_object, canonicalize_incremental_compaction_read
  <2> QED BY <2>1, <2>2
<1> HIDE DEF read
<1> DEFINE to == [s \in Headers(h) |-> s]
<1>9. Renames(h, to, g)
  <2>1. ASSUME NEW s \in Headers(h) PROVE ShowsStrong(h, s, g, to[s]) /\ SoftStays(h, s, g, to[s])
    <3>1. /\ \A j \in DOMAIN h.objects[s].strong : h.objects[s].strong[j] \in Values
          /\ \A j \in DOMAIN h.objects[s].soft : h.objects[s].soft[j] \in Values
      BY ObjectValues
    <3>2. \A j \in DOMAIN h.objects[s].strong :
            is_object(h.objects[s].strong[j]) => Resolves(h, h.objects[s].strong[j])
      BY DEF AtRest, StrongResolve, visit_reference_fields
    <3>3. \A j \in DOMAIN h.objects[s].soft :
            is_object(h.objects[s].soft[j]) => Resolves(h, h.objects[s].soft[j])
      BY DEF LayoutInv, RegistriesName, SoftReferences
    <3>4. \A j \in DOMAIN h.objects[s].strong :
            SameName(h, h.objects[s].strong[j], g, read(h.objects[s].strong[j]))
      BY <1>8, <3>1, <3>2
    <3>5. \A j \in DOMAIN h.objects[s].soft :
            SameName(h, h.objects[s].soft[j], g, read(h.objects[s].soft[j]))
      BY <1>8, <3>1, <3>3
    <3>6. to[s] = s
      OBVIOUS
    <3> HIDE DEF to
    <3>7. ShowsStrong(h, s, g, s)
      <4>1. DOMAIN g.objects[s].strong = DOMAIN h.objects[s].strong
            /\ \A j \in DOMAIN h.objects[s].strong : g.objects[s].strong[j] = read(h.objects[s].strong[j])
        BY ONLY <1>4
      <4>2. SameShape(h.objects[s], g.objects[s])
        BY <1>4
      <4>3. \A j \in DOMAIN h.objects[s].strong :
              SameName(h, h.objects[s].strong[j], g, g.objects[s].strong[j])
        BY ONLY <3>4, <4>1
      <4> QED BY ONLY <4>1, <4>2, <4>3 DEF SameShape, ShowsStrong
    <3>8. SoftStays(h, s, g, s)
      BY <1>4, <3>5 DEF SoftStays
    <3> QED BY <3>6, <3>7, <3>8
  <2> QED BY <1>5, <2>1 DEF Renames
<1>10. SameRoots(h, g) /\ SameRawCells(h, g)
  <2>1. ASSUME NEW c \in Registered PROVE SameName(h, h.cells[c], g, g.cells[c])
    <3>1. c \in Cells /\ h.cells[c] \in Values /\ (is_object(h.cells[c]) => h.cells[c] \in Ids)
      BY RootCells DEF Registered
    <3>2. g.cells[c] = read(h.cells[c])
      BY <1>2, <3>1 DEF FinalizedAs, Registered, read
    <3>3. is_object(h.cells[c]) => Resolves(h, h.cells[c])
      BY <1>1, <3>1, CurrentResolves DEF AtRest, RootsAreCurrent, Registered
    <3> QED BY <1>8, <3>1, <3>2, <3>3
  <2>2. \A c \in RawCells : g.cells[c] = h.cells[c]
    BY <1>2, CellsAssumption DEF FinalizedAs
  <2> QED BY <2>1, <2>2 DEF SameRoots, SameRawCells
<1>11. InternedIn(g) = InternedIn(h)
  <2>1. PICK K : K \subseteq Headers(h) /\ h.intern_table = {IdAt(h, s) : s \in K} /\ CanonicalAt(h, K)
    BY CanonicalSlots
  <2>2. \A s \in K : ObjectOf(g, IdAt(h, s)).data = ObjectOf(h, IdAt(h, s)).data
    <3>1. \A s \in K : checked_slot(h, IdAt(h, s)) = s
      BY <2>1, IdOfBase DEF LayoutInv
    <3> QED BY <1>4, <1>7, <2>1, <3>1 DEF ObjectOf, SameShape
  <2>3. g.intern_table = h.intern_table
    BY <1>2 DEF FinalizedAs
  <2>4. \A id \in h.intern_table : ObjectOf(g, id).data = ObjectOf(h, id).data
    BY <2>1, <2>2
  <2> QED BY <2>3, <2>4 DEF InternedIn
<1> HIDE DEF to
<1> QED BY <1>2, <1>9, <1>10, <1>11, RenamingKeepsGraph DEF FinalizedAs

LEMMA FinishCompactionKeepsGraph ==
  ASSUME NEW h, LayoutInv(h), NamesAreUnique(h), h.phase = "compacting", AtRest(h),
         NEW g, g = finish_incremental_compaction_impl(h)
  PROVE  SameGraph(h, g)
<1> DEFINE m == RelocateAll(h)
<1>1. m = RelocateAll(h) /\ g = finalize_incremental_compaction(m)
  BY DEF finish_incremental_compaction_impl
<1> HIDE DEF m
<1>2. Onward(h, m) /\ m.cursor = Len(m.plan) /\ AtRest(m) /\ SameGraph(h, m)
  BY <1>1, RelocateAllKeeps, RelocateAllKeepsReferences, RelocateAllKeepsGraph
<1>3. LayoutInv(m) /\ m.phase = "compacting" /\ NamesAreUnique(m)
  BY <1>2 DEF Onward, SameGraph, Thins
<1>4. SameGraph(m, g)
  BY <1>1, <1>2, <1>3, FinalizeKeepsGraph
<1> QED BY <1>2, <1>3, <1>4, SameGraphOn

(***************************************************************************)
(* Collections that finish the active cycle first.                         *)
(***************************************************************************)
LEMMA CompactionFinishedKeepsGraph ==
  ASSUME NEW h, LayoutInv(h), NamesAreUnique(h), ReferenceInv(h), NEW g, g = CompactionFinished(h)
  PROVE  SameGraph(h, g)
<1>1. CASE h.phase = "compacting"
  <2>1. g = finish_incremental_compaction_impl(h) /\ AtRest(h)
    BY <1>1, ReferencesByPhase DEF CompactionFinished
  <2> QED BY <1>1, <2>1, FinishCompactionKeepsGraph
<1>2. CASE h.phase # "compacting"
  BY <1>2, SameHeapSameGraph DEF CompactionFinished
<1> QED BY <1>1, <1>2

LEMMA CollectThins ==
  ASSUME NEW h, LayoutInv(h), NamesAreUnique(h), ReferenceInv(h), NEW kind,
         NEW g, g = collect_impl(h, kind)
  PROVE  Thins(h, g)
<1> DEFINE done == CompactionFinished(h)
           still == FinishActiveCycle(h)
<1>1. done = CompactionFinished(h) /\ still = FinishActiveCycle(h) /\ g = Evacuate(Mark(still, kind), kind)
  BY DEF collect_impl
<1>2. still = IF done.phase = "marking" THEN finish_incremental_marking_impl(done) ELSE done
  BY DEF FinishActiveCycle, CompactionFinished
<1> HIDE DEF still, done
<1>3. LayoutInv(done) /\ ReferenceInv(done) /\ SameGraph(h, done)
  BY <1>1, CompactionFinishedKeeps, CompactionFinishedKeepsReferences, CompactionFinishedKeepsGraph
<1>4. LayoutInv(still) /\ still.phase = "idle"
  BY <1>1, FinishActiveCycleKeeps
<1>5. NamesAreUnique(done)
  BY <1>3 DEF SameGraph, Thins
<1>6. AtRest(still) /\ Thins(h, still)
  <2>1. CASE done.phase = "marking"
    <3>1. StrongResolve(done) /\ RootsAreCurrent(done) /\ still = finish_incremental_marking_impl(done)
      BY <1>2, <1>3, <2>1, ReferencesByPhase
    <3>2. AtRest(still) /\ Thins(done, still)
      BY <1>3, <1>5, <2>1, <3>1, FinishMarkingKeepsReferences, FinishMarkingThins
    <3> QED BY <1>3, <3>2, ThinsOn DEF SameGraph
  <2>2. CASE done.phase # "marking"
    BY <1>2, <1>3, <2>2, ReferencesByPhase DEF SameGraph
  <2> QED BY <2>1, <2>2
<1>7. NamesAreUnique(still)
  BY <1>6 DEF Thins
<1>8. Thins(still, g)
  <2>1. still.phase # "compacting"
    BY <1>4
  <2> QED BY <1>1, <1>4, <1>6, <1>7, <2>1, CollectedThins
<1> QED BY <1>4, <1>6, <1>8, ThinsOn

\* Operands are roots for the time of the method.
LEMMA RootedKeepsGraph ==
  ASSUME NEW h, LayoutInv(h), NamesAreUnique(h), NEW roots \in Seq(Values),
         NEW g, g = [h EXCEPT !.extra = roots]
  PROVE  /\ SameGraph(h, g) /\ LayoutInv(g) /\ NamesAreUnique(g) /\ g.extra = roots
         /\ \A v \in Values : NameIn(g, v) = NameIn(h, v)
<1>1. LayoutInv(g) /\ SamePlaces(h, g) /\ SameButOperands(h, g) /\ g.extra = roots /\ g.cells = h.cells
  BY RootedKeeps
<1>2. Alike(h, g)
  BY <1>1 DEF SameButOperands, Alike
<1>3. SameGraph(h, g) /\ \A v \in Values : NameIn(g, v) = NameIn(h, v)
  BY <1>2, AlikeKeepsGraph
<1> QED BY <1>1, <1>3 DEF SameGraph, Thins

\* The operands go on naming what they named.
OperandsGoAlong(h, g) ==
  /\ Len(g.extra) = Len(h.extra)
  /\ \A i \in DOMAIN h.extra : SameName(h, h.extra[i], g, g.extra[i])

LEMMA CarriedOperands ==
  ASSUME NEW h, NEW g, Carries(h, g), OperandsResolve(h)
  PROVE  OperandsGoAlong(h, g)
BY BecomingKeepsName DEF Carries, OperandsGoAlong, OperandsResolve

LEMMA CollectWithRootsThins ==
  ASSUME NEW h, LayoutInv(h), NamesAreUnique(h), ReferenceInv(h), NEW roots \in Seq(Values),
         NEW kind, NEW g, g = collect_with_extra_roots(h, roots, kind)
  PROVE  Thins(h, g)
<1> DEFINE r == [h EXCEPT !.extra = roots]
<1>1. r = [h EXCEPT !.extra = roots] /\ g = collect_impl(r, kind)
  BY DEF collect_with_extra_roots
<1> HIDE DEF r
<1>2. LayoutInv(r) /\ NamesAreUnique(r) /\ SameGraph(h, r)
  BY <1>1, RootedKeepsGraph
<1>3. ReferenceInv(r)
  BY <1>1, RootedKeepsReferences
<1>4. Thins(r, g)
  BY <1>1, <1>2, <1>3, CollectThins
<1> QED BY <1>2, <1>4, ThinsOn DEF SameGraph

=============================================================================
