--------------------------- MODULE GcShadowProofs ---------------------------
(***************************************************************************)
(* An incremental compaction, however its steps and the stores of the      *)
(* mutator are interleaved, ends where an atomic slide of its snapshot     *)
(* ends.                                                                   *)
(***************************************************************************)
EXTENDS GcReferenceProofs

(***************************************************************************)
(* The names of the snapshot.                                              *)
(***************************************************************************)
\* An entry has one name in the snapshot, moved or not.
LEMMA SourceOfEntry ==
  ASSUME NEW h, HeapIsTyped(h), RunsFollow(h), PlanIsCurrent(h), NEW i \in DOMAIN h.plan
  PROVE  /\ normalize_incremental_compaction_shadow_value(h, h.plan[i].source_id) = h.plan[i].source_id
         /\ normalize_incremental_compaction_shadow_value(h, h.plan[i].destination_id)
              = h.plan[i].source_id
<1> DEFINE entries == {h.plan[j] : j \in DOMAIN h.plan}
           d == h.plan[i].destination_id
           v == h.plan[i].source_id
           found == CHOOSE e \in entries : e.destination_id = d
<1>1. v # Nil /\ d # Nil
  BY PlanEntry, IdsAreReferences
<1>2. h.plan[i] \in entries
  OBVIOUS
<1>3. normalize_incremental_compaction_shadow_value(h, v) = v
  BY <1>2 DEF normalize_incremental_compaction_shadow_value
<1>4. CASE \E e \in entries : e.source_id = d
  <2>1. PICK j \in DOMAIN h.plan : h.plan[j].source_id = d
    BY <1>4
  <2>2. v = d
    BY <2>1 DEF PlanIsCurrent, PlanSlides
  <2> QED BY <1>3, <2>2
<1>5. CASE ~ \E e \in entries : e.source_id = d
  <2>1. normalize_incremental_compaction_shadow_value(h, d) = found.source_id
    BY <1>1, <1>2, <1>5 DEF normalize_incremental_compaction_shadow_value, is_object
  <2>2. found \in entries /\ found.destination_id = d
    BY <1>2
  <2>3. PICK j \in DOMAIN h.plan : found = h.plan[j]
    BY <2>2
  <2>4. j = i
    BY <2>2, <2>3, SourcesDiffer
  <2> QED BY <1>3, <2>1, <2>3, <2>4
<1> QED BY <1>3, <1>4, <1>5

LEMMA SourceOfReference ==
  ASSUME NEW h, HeapIsTyped(h), RunsFollow(h), PlanIsCurrent(h), NEW i \in DOMAIN h.plan,
         NEW v, NamesEntry(h, i, v)
  PROVE  normalize_incremental_compaction_shadow_value(h, v) = h.plan[i].source_id
BY SourceOfEntry DEF NamesEntry, Name

LEMMA SourceIsValue ==
  ASSUME NEW h, HeapIsTyped(h), NEW v \in Values
  PROVE  normalize_incremental_compaction_shadow_value(h, v) \in Values
<1> DEFINE entries == {h.plan[j] : j \in DOMAIN h.plan}
           found == CHOOSE e \in entries : e.destination_id = v
<1>1. ASSUME \E e \in entries : e.destination_id = v PROVE found.source_id \in Values
  <2>1. found \in entries
    BY <1>1
  <2>2. PICK j \in DOMAIN h.plan : found = h.plan[j]
    BY <2>1
  <2> QED BY <2>2, PlanEntry DEF Values
<1> QED BY <1>1 DEF normalize_incremental_compaction_shadow_value

\* The names are those of the plan, whatever else changes.
LEMMA SourceByPlan ==
  ASSUME NEW h, NEW g, g.plan = h.plan
  PROVE  /\ \A v : normalize_incremental_compaction_shadow_value(g, v)
                     = normalize_incremental_compaction_shadow_value(h, v)
         /\ \A values : SourceNames(g, values) = SourceNames(h, values)
         /\ \A ids : SourceIds(g, ids) = SourceIds(h, ids)
         /\ \A i : Source(g, i) = Source(h, i) /\ Destination(g, i) = Destination(h, i)
         /\ Sources(g) = Sources(h)
<1>1. \A v : normalize_incremental_compaction_shadow_value(g, v)
               = normalize_incremental_compaction_shadow_value(h, v)
  BY DEF normalize_incremental_compaction_shadow_value
<1>2. \A i : Source(g, i) = Source(h, i) /\ Destination(g, i) = Destination(h, i)
  BY DEF Source, Destination
<1>3. \A values : SourceNames(g, values) = SourceNames(h, values)
  BY <1>1 DEF SourceNames
<1>4. \A ids : SourceIds(g, ids) = SourceIds(h, ids)
  BY <1>1 DEF SourceIds
<1>5. Sources(g) = Sources(h)
  BY <1>2 DEF Sources
<1> QED BY <1>1, <1>2, <1>3, <1>4, <1>5

LEMMA SourceNamesAreValues ==
  ASSUME NEW h, HeapIsTyped(h), NEW values \in Seq(Values)
  PROVE  SourceNames(h, values) \in Seq(Values) /\ DOMAIN SourceNames(h, values) = DOMAIN values
<1>1. values \in [1 .. Len(values) -> Values] /\ Len(values) \in Nat
  BY LenProperties
<1>2. \A i \in 1 .. Len(values) : normalize_incremental_compaction_shadow_value(h, values[i]) \in Values
  BY <1>1, SourceIsValue
<1>3. SourceNames(h, values) \in [1 .. Len(values) -> Values]
  BY <1>1, <1>2 DEF SourceNames
<1> QED BY <1>1, <1>3, SeqDef

(***************************************************************************)
(* The slide of the snapshot.                                              *)
(***************************************************************************)
\* Where survivors go depends on their widths alone.
SameWidths(n, a, b, live) ==
  /\ n \in Nat /\ DOMAIN a = 0 .. n - 1 /\ DOMAIN b = 0 .. n - 1 /\ live \subseteq 0 .. n - 1
  /\ \A s \in live : storage_slot_count(a[s]) = storage_slot_count(b[s])

LEMMA SameDestinations ==
  ASSUME NEW n, NEW a, NEW b, NEW live, SameWidths(n, a, b, live)
  PROVE  Destinations(a, live) = Destinations(b, live)
<1> USE DEF SameWidths
<1> DEFINE m == Cardinality(DOMAIN a)
           InA(x) == x = [s \in 0 .. m |->
             IF s = 0 THEN 0
             ELSE x[s - 1] + (IF s - 1 \in live THEN storage_slot_count(a[s - 1]) ELSE 0)]
           InB(x) == x = [s \in 0 .. m |->
             IF s = 0 THEN 0
             ELSE x[s - 1] + (IF s - 1 \in live THEN storage_slot_count(b[s - 1]) ELSE 0)]
           f == CHOOSE x : InA(x)
           g == CHOOSE x : InB(x)
<1>1. m = n
  BY FS_Interval, SMT
<1>2. Destinations(a, live) = [s \in live |-> f[s]]
  BY DEF Destinations
<1>3. Destinations(b, live) = [s \in live |-> g[s]]
  <2>1. DOMAIN a = DOMAIN b
    OBVIOUS
  <2> QED BY <2>1 DEF Destinations
<1>4. CursorIs(f, a, live, n) /\ CursorIs(g, b, live, n)
  <2>1. (\E x : CursorIs(x, a, live, n)) /\ \E x : CursorIs(x, b, live, n)
    BY CursorExists
  <2>2. \A x : (CursorIs(x, a, live, n) <=> InA(x)) /\ (CursorIs(x, b, live, n) <=> InB(x))
    BY <1>1 DEF CursorIs
  <2> HIDE DEF m, InA, InB
  <2>3. InA(f)
    BY <2>1, <2>2
  <2>4. InB(g)
    BY <2>1, <2>2
  <2> QED BY <2>2, <2>3, <2>4
<1> HIDE DEF m, InA, InB, f, g
<1>5. \A s \in 0 .. n : f[s] = g[s]
  <2> DEFINE T == {s \in 0 .. n : f[s] = g[s]}
  <2>1. 0 \in T
    BY <1>4, CursorSteps
  <2>2. ASSUME NEW s \in 0 .. n, s < n, s \in T PROVE s + 1 \in T
    <3>1. /\ f[s + 1] = f[s] + (IF s \in live THEN storage_slot_count(a[s]) ELSE 0)
          /\ g[s + 1] = g[s] + (IF s \in live THEN storage_slot_count(b[s]) ELSE 0)
      BY <1>4, <2>2, CursorSteps
    <3> QED BY <2>2, <3>1
  <2> HIDE DEF T
  <2>3. \A s \in 0 .. n : s \in T
    BY <2>1, <2>2, CountingUp
  <2> QED BY <2>3 DEF T
<1> QED BY <1>2, <1>3, <1>5

\* The entries of a plan, one for each survivor.
LEMMA PlannedSlide ==
  ASSUME NEW h, HeapIsTyped(h), RunsFollow(h), NEW live, live \subseteq Headers(h),
         NEW to, to = Destinations(h.objects, live),
         NEW mg, mg = MovedGenerations(h.generations, to),
         NEW p, p = CompactionPlan(h, live)
  PROVE  /\ \A i \in DOMAIN p :
              LET from == slot_from(p[i].source_id)
              IN  /\ from \in live
                  /\ p[i] = [source_id      |-> make_object_id(from, h.generations[from]),
                             destination_id |-> make_object_id(to[from], mg[to[from]])]
         /\ live = {slot_from(p[i].source_id) : i \in DOMAIN p}
<1> DEFINE gens == [s \in live |-> mg[to[s]]]
<1>1. p = PlanEntries(h, live, to, gens)
  BY DEF CompactionPlan
<1>2. \A s \in live : gens[s] = mg[to[s]]
  OBVIOUS
<1> HIDE DEF gens
<1>3. Slides(h, live, to)
  BY DestinationsSlide
<1>4. \A s \in live : to[s] \in Nat /\ gens[s] \in Nat
  <2>1. Minted(h, live, to, mg)
    BY <1>3, MovedGenerationsAre
  <2> QED BY <1>2, <1>3, <2>1 DEF Slides, Minted
<1>5. ListsUpTo(p, h, live, to, gens, Size(h))
  BY <1>1, <1>4, PlanLists
<1>6. \A s \in live : LET e == EntryOf(h, to, gens, s) IN
        /\ slot_from(e.source_id) = s
        /\ e = [source_id |-> make_object_id(s, h.generations[s]),
                destination_id |-> make_object_id(to[s], mg[to[s]])]
  BY <1>2 DEF EntryOf, IdAt, make_object_id, slot_from
<1>7. \A i \in DOMAIN p : \E s \in live : p[i] = EntryOf(h, to, gens, s)
  BY <1>5 DEF ListsUpTo
<1>8. \A s \in live : \E i \in DOMAIN p : p[i] = EntryOf(h, to, gens, s)
  <2>1. \A s \in live : s < Size(h)
    BY HeaderIsObject
  <2> QED BY <1>5, <2>1 DEF ListsUpTo
<1>9. ASSUME NEW i \in DOMAIN p
      PROVE  LET from == slot_from(p[i].source_id)
             IN  /\ from \in live
                 /\ p[i] = [source_id      |-> make_object_id(from, h.generations[from]),
                            destination_id |-> make_object_id(to[from], mg[to[from]])]
  <2>1. PICK s \in live : p[i] = EntryOf(h, to, gens, s)
    BY <1>7
  <2> QED BY <1>6, <2>1
<1>10. ASSUME NEW s \in live PROVE \E i \in DOMAIN p : slot_from(p[i].source_id) = s
  <2>1. PICK i \in DOMAIN p : p[i] = EntryOf(h, to, gens, s)
    BY <1>8
  <2> QED BY <1>6, <2>1
<1> QED BY <1>9, <1>10

\* While nothing has moved, the names are the ids.
LEMMA SourceAtStart ==
  ASSUME NEW h, LayoutInv(h), h.phase = "compacting", h.cursor = 0
  PROVE  /\ \A v \in Ids : Resolves(h, v) => normalize_incremental_compaction_shadow_value(h, v) = v
         /\ \A ids : ids \subseteq Ids /\ (\A id \in ids : Resolves(h, id)) => SourceIds(h, ids) = ids
         /\ \A values \in Seq(Values) :
              (\A i \in DOMAIN values : is_object(values[i]) => Resolves(h, values[i]))
                => SourceNames(h, values) = values
<1>1. HeapIsTyped(h) /\ RunsFollow(h) /\ PlanIsCurrent(h)
  BY DEF LayoutInv, PhaseIsClean
<1>2. ASSUME NEW v \in Ids, Resolves(h, v)
      PROVE  normalize_incremental_compaction_shadow_value(h, v) = v
  <2>1. PICK i \in DOMAIN h.plan : v = Name(h, i) \/ (i <= h.cursor /\ v = h.plan[i].source_id)
    BY <1>1, <1>2, ResolvedByPlan
  <2>2. v = h.plan[i].source_id
    BY <1>1, <2>1, PlanEntry DEF Name
  <2> QED BY <1>1, <2>2, SourceOfEntry
<1>3. ASSUME NEW values \in Seq(Values),
             \A i \in DOMAIN values : is_object(values[i]) => Resolves(h, values[i])
      PROVE  SourceNames(h, values) = values
  <2>1. values \in [1 .. Len(values) -> Values] /\ DOMAIN values = 1 .. Len(values)
    BY LenProperties
  <2>2. ASSUME NEW i \in DOMAIN values
        PROVE  normalize_incremental_compaction_shadow_value(h, values[i]) = values[i]
    <3>1. CASE is_object(values[i])
      BY <1>2, <1>3, <2>1, <3>1 DEF Values, is_object
    <3>2. CASE ~is_object(values[i])
      BY <3>2 DEF normalize_incremental_compaction_shadow_value
    <3> QED BY <3>1, <3>2
  <2>3. SourceNames(h, values) = [i \in DOMAIN values |-> values[i]]
    BY <2>2 DEF SourceNames
  <2> QED BY <2>1, <2>3
<1>4. ASSUME NEW ids, ids \subseteq Ids, \A id \in ids : Resolves(h, id)
      PROVE  SourceIds(h, ids) = ids
  BY <1>2, <1>4 DEF SourceIds
<1> QED BY <1>2, <1>3, <1>4

\* What a survivor refers to resolves.
LEMMA ContentsResolve ==
  ASSUME NEW h, LayoutInv(h), StrongResolve(h), NEW s \in Headers(h)
  PROVE  LET o == h.objects[s]
         IN  /\ o \in Objects /\ o.strong \in Seq(Values) /\ o.soft \in Seq(Values)
             /\ \A i \in DOMAIN o.strong : is_object(o.strong[i]) => Resolves(h, o.strong[i])
             /\ \A i \in DOMAIN o.soft : is_object(o.soft[i]) => Resolves(h, o.soft[i])
<1> DEFINE o == h.objects[s]
<1>1. o \in Objects
  BY HeaderIsObject DEF LayoutInv
<1>2. o.strong \in Seq(Values) /\ o.soft \in Seq(Values)
  BY <1>1, ObjectFields
<1>3. \A v \in visit_reference_fields(o) : Resolves(h, v)
  BY DEF StrongResolve
<1>4. \A v \in SoftReferences(o) : Resolves(h, v)
  BY DEF LayoutInv, RegistriesName
<1> QED BY <1>1, <1>2, <1>3, <1>4 DEF visit_reference_fields, SoftReferences

\* Registered ids are ids that resolve.
LEMMA RegisteredResolve ==
  ASSUME NEW h, LayoutInv(h)
  PROVE  /\ h.weak_refs \subseteq Ids /\ h.intern_table \subseteq Ids /\ h.ephemerons \subseteq Ids
         /\ \A id \in h.weak_refs \cup h.intern_table \cup h.ephemerons :
              \E s \in Headers(h) : id = IdAt(h, s)
         /\ \A id \in h.weak_refs \cup h.intern_table \cup h.ephemerons : Resolves(h, id)
<1>1. h.weak_refs \subseteq Ids /\ h.intern_table \subseteq Ids /\ h.ephemerons \subseteq Ids
  BY DEF LayoutInv, HeapIsTyped
<1>2. \A id \in h.weak_refs \cup h.intern_table \cup h.ephemerons :
        \E s \in Headers(h) : id = IdAt(h, s)
  BY DEF LayoutInv, RegistriesName, OfKind
<1>3. \A s \in Headers(h) : Resolves(h, IdAt(h, s))
  BY IdOfBase DEF LayoutInv
<1> QED BY <1>1, <1>2, <1>3

\* The snapshot that a compaction starts from.
LEMMA SnapshotIs ==
  ASSUME NEW h, DOMAIN h = HeapFields, NEW g, g = prepare_incremental_compaction_from_marked(h)
  PROVE  g.shadow = [objects |-> g.objects, generations |-> g.generations,
                     weak_refs |-> g.weak_refs, intern_table |-> g.intern_table,
                     ephemerons |-> g.ephemerons]
BY DEF prepare_incremental_compaction_from_marked, HeapFields

LEMMA PrepareShadows ==
  ASSUME NEW h, LayoutInv(h), h.phase # "compacting", h.worklist = {},
         NEW live, live = {s \in Headers(h) : h.objects[s].marked}, EphemeronsKept(h, live),
         NEW g, g = prepare_incremental_compaction_from_marked(h), StrongResolve(g)
  PROVE  ShadowInv(g)
<1>1. LayoutInv(g) /\ g.phase = "compacting" /\ PreparedAs(h, live, g) /\ Headers(g) = live
  BY PrepareKeeps
<1>2. /\ HeapIsTyped(h) /\ RunsFollow(h) /\ DOMAIN h = HeapFields /\ live \subseteq Headers(h)
      /\ HeapIsTyped(g)
  BY <1>1 DEF LayoutInv, HeapIsTyped
<1> DEFINE s == g.shadow
<1>3. /\ s.objects = g.objects /\ s.generations = g.generations /\ s.weak_refs = g.weak_refs
      /\ s.intern_table = g.intern_table /\ s.ephemerons = g.ephemerons
      /\ DOMAIN s = {"objects", "generations", "weak_refs", "intern_table", "ephemerons"}
  <2>1. g.shadow = [objects |-> g.objects, generations |-> g.generations,
                    weak_refs |-> g.weak_refs, intern_table |-> g.intern_table,
                    ephemerons |-> g.ephemerons]
    BY <1>2, SnapshotIs
  <2> QED BY <2>1
<1> HIDE DEF s
<1>4. /\ g.plan = CompactionPlan(h, live) /\ g.cursor = 0 /\ g.generations = h.generations
      /\ DOMAIN g.objects = DOMAIN h.objects
  BY <1>1 DEF PreparedAs
<1> DEFINE to == Destinations(h.objects, live)
           mg == MovedGenerations(h.generations, to)
<1>5. /\ \A i \in DOMAIN g.plan :
           LET from == slot_from(g.plan[i].source_id)
           IN  /\ from \in live
               /\ g.plan[i] = [source_id      |-> make_object_id(from, h.generations[from]),
                               destination_id |-> make_object_id(to[from], mg[to[from]])]
      /\ live = {slot_from(g.plan[i].source_id) : i \in DOMAIN g.plan}
  <2> DEFINE t == to
             m == mg
             p == g.plan
  <2>1. t = Destinations(h.objects, live) /\ m = MovedGenerations(h.generations, t)
        /\ p = CompactionPlan(h, live)
    BY <1>4
  <2> HIDE DEF t, m, p
  <2>2. /\ \A i \in DOMAIN p :
             LET from == slot_from(p[i].source_id)
             IN  /\ from \in live
                 /\ p[i] = [source_id      |-> make_object_id(from, h.generations[from]),
                            destination_id |-> make_object_id(t[from], m[t[from]])]
        /\ live = {slot_from(p[i].source_id) : i \in DOMAIN p}
    <3>1. HeapIsTyped(h) /\ RunsFollow(h) /\ live \subseteq Headers(h)
      BY <1>2
    <3> QED BY ONLY <2>1, <3>1, PlannedSlide
  <2> QED BY <2>2 DEF t, m, p
<1>6. Sources(g) = live
  BY <1>5 DEF Sources, Source
<1>7. Destinations(g.objects, live) = to
  <2>1. ASSUME NEW x \in live
        PROVE  storage_slot_count(g.objects[x]) = storage_slot_count(h.objects[x])
    <3> DEFINE q == g.objects[x]
    <3>1. x \in Headers(h) /\ q = [h.objects[x] EXCEPT !.marked = FALSE,
                                                       !.soft = ClearedSoft(h, h.objects[x])]
      BY <1>1, <1>2 DEF PreparedAs, Headers
    <3> HIDE DEF q
    <3>2. ClearedAs(h, live, x, q)
      BY <3>1, ClearedKeeps
    <3> QED BY <3>2 DEF q, ClearedAs, Width
  <2>2. DOMAIN h.objects = 0 .. Size(h) - 1 /\ Size(h) \in Nat /\ live \subseteq 0 .. Size(h) - 1
    BY <1>2, HeaderIsObject
  <2> HIDE DEF to
  <2>3. Destinations(g.objects, live) = Destinations(h.objects, live)
    <3>1. SameWidths(Size(h), g.objects, h.objects, live)
      BY <1>4, <2>1, <2>2 DEF SameWidths
    <3> QED BY <3>1, SameDestinations
  <2> QED BY <2>3 DEF to
<1>8. SnapshotIsPlanned(g, s)
  <2>1. MovedGenerations(s.generations, Destinations(s.objects, Sources(g))) = mg
    BY <1>3, <1>4, <1>6, <1>7
  <2>2. Destinations(s.objects, Sources(g)) = to
    BY <1>3, <1>6, <1>7
  <2> HIDE DEF to, mg
  <2>3. \A i \in DOMAIN g.plan : Source(g, i) = slot_from(g.plan[i].source_id)
    BY DEF Source
  <2>4. \A i \in DOMAIN g.plan :
          LET from == Source(g, i)
          IN  g.plan[i] = [source_id      |-> make_object_id(from, s.generations[from]),
                           destination_id |-> make_object_id(to[from], mg[to[from]])]
    <3>1. s.generations = h.generations
      BY <1>3, <1>4
    <3> HIDE DEF s
    <3> QED BY ONLY <1>5, <2>3, <3>1
  <2> QED BY <2>1, <2>2, <2>4 DEF SnapshotIsPlanned
<1> HIDE DEF to, mg
<1>9. ASSUME NEW i \in DOMAIN g.plan
      PROVE  Mirrors(g, g.objects[Base(g, i)], s.objects[Source(g, i)])
  <2> DEFINE x == Source(g, i)
             o == g.objects[x]
  <2>1. Base(g, i) = x
    BY <1>2, <1>4, PlanEntry DEF Base
  <2>2. x \in Headers(g)
    BY <1>1, <1>6 DEF Sources
  <2>3. SourceNames(g, o.strong) = o.strong /\ SourceNames(g, o.soft) = o.soft
    <3> HIDE DEF x
    <3> QED BY <1>1, <1>4, <2>2, ContentsResolve, SourceAtStart
  <2> QED BY <1>3, <2>1, <2>3 DEF Mirrors
<1>10. \A ids \in {g.weak_refs, g.intern_table, g.ephemerons} : SourceIds(g, ids) = ids
  <2> SUFFICES ASSUME NEW ids \in {g.weak_refs, g.intern_table, g.ephemerons}
               PROVE  ids \subseteq Ids /\ \A id \in ids : Resolves(g, id)
    BY <1>1, <1>4, SourceAtStart
  <2> QED BY <1>1, RegisteredResolve
<1>11. SnapshotMirrors(g, s)
  <2>1. s.objects \in [DOMAIN g.objects -> Objects \cup {None}] /\ s.generations \in [DOMAIN g.objects -> Nat]
    BY <1>2, <1>3, HeaderIsObject DEF HeapIsTyped
  <2>2. \A t \in DOMAIN g.objects : s.objects[t] # None <=> t \in Sources(g)
    BY <1>1, <1>3, <1>6 DEF Headers
  <2> QED BY <1>3, <1>9, <1>10, <2>1, <2>2 DEF SnapshotMirrors
<1>12. MovedAreOld(g)
  BY <1>4 DEF MovedAreOld
<1> QED BY <1>8, <1>11, <1>12 DEF ShadowInv, s

LEMMA PlannedByPlan ==
  ASSUME NEW h, NEW g, g.plan = h.plan, NEW s, SnapshotIsPlanned(h, s)
  PROVE  SnapshotIsPlanned(g, s)
<1>1. Sources(g) = Sources(h) /\ \A i : Source(g, i) = Source(h, i)
  BY SourceByPlan
<1> QED BY <1>1 DEF SnapshotIsPlanned

LEMMA SourceIsSlot ==
  ASSUME NEW h, HeapIsTyped(h), RunsFollow(h), PlanIsCurrent(h), NEW i \in DOMAIN h.plan
  PROVE  Source(h, i) \in DOMAIN h.objects
<1>1. /\ 0 <= Destination(h, i) /\ Destination(h, i) <= Source(h, i)
      /\ Source(h, i) + Width(h, Base(h, i)) <= Size(h)
  BY DEF PlanIsCurrent, PlanSlides
<1>2. Base(h, i) \in Headers(h)
  BY MovedResolves
<1>3. Width(h, Base(h, i)) \in Nat \ {0} /\ Size(h) \in Nat /\ DOMAIN h.objects = 0 .. Size(h) - 1
  BY <1>2, HeaderIsObject
<1>4. Source(h, i) \in Int /\ Destination(h, i) \in Int
  BY PlanEntry
<1> QED BY <1>1, <1>3, <1>4

LEMMA PlannedSource ==
  ASSUME NEW h, NEW s, SnapshotIsPlanned(h, s), NEW i \in DOMAIN h.plan
  PROVE  h.plan[i].source_id = make_object_id(Source(h, i), s.generations[Source(h, i)])
<1> DEFINE to == Destinations(s.objects, Sources(h))
           gens == MovedGenerations(s.generations, to)
           e == h.plan[i]
           v == make_object_id(Source(h, i), s.generations[Source(h, i)])
           w == make_object_id(to[Source(h, i)], gens[to[Source(h, i)]])
<1>1. e = [source_id |-> v, destination_id |-> w]
  BY DEF SnapshotIsPlanned
<1> HIDE DEF e, v, w
<1>2. e.source_id = v
  BY <1>1
<1> QED BY <1>2 DEF e, v

(***************************************************************************)
(* Relocations.                                                            *)
(***************************************************************************)
\* The owners that are forwarded keep their names in the snapshot.
LEMMA ForwardedSources ==
  ASSUME NEW h, HeapIsTyped(h), RunsFollow(h), PlanIsCurrent(h), NEW k \in DOMAIN h.plan, NEW ids
  PROVE  SourceIds(h, ForwardedOwners(h, k, ids)) = SourceIds(h, ids)
<1> DEFINE N(v) == normalize_incremental_compaction_shadow_value(h, v)
           F(id) == IF id = h.plan[k].source_id THEN h.plan[k].destination_id ELSE id
<1>1. \A id : N(F(id)) = N(id)
  BY SourceOfEntry
<1>2. ForwardedOwners(h, k, ids) = {F(id) : id \in ids}
  BY DEF ForwardedOwners
<1>3. SourceIds(h, ForwardedOwners(h, k, ids)) = {N(x) : x \in ForwardedOwners(h, k, ids)}
  BY DEF SourceIds
<1>4. SourceIds(h, ids) = {N(id) : id \in ids}
  BY DEF SourceIds
<1> HIDE DEF N, F
<1> QED BY <1>1, <1>2, <1>3, <1>4

LEMMA RelocateShadows ==
  ASSUME NEW h, LayoutInv(h), h.phase = "compacting", h.cursor < Len(h.plan), ShadowInv(h),
         NEW g, g = RelocateNext(h)
  PROVE  ShadowInv(g)
<1> DEFINE k == h.cursor + 1
           s == h.shadow
<1>1. RelocatedAs(h, k, g) /\ Relocated(h, g) /\ EntryMoves(h, k, g)
  <2>1. DOMAIN h = HeapFields /\ k = h.cursor + 1
    BY DEF LayoutInv, HeapIsTyped
  <2> HIDE DEF k
  <2>2. RelocatedAs(h, k, g)
    BY <2>1, RelocatedIs
  <2> QED BY <2>1, <2>2, RelocationPlaces
<1>2. RelocatedObjects(h, k, g)
  <2>1. k = h.cursor + 1
    OBVIOUS
  <2> HIDE DEF k
  <2> QED BY <1>1, <2>1, RelocationObjects
<1>3. /\ HeapIsTyped(h) /\ RunsFollow(h) /\ PlanIsCurrent(h)
      /\ SnapshotIsPlanned(h, s) /\ SnapshotMirrors(h, s) /\ MovedAreOld(h)
  BY DEF LayoutInv, PhaseIsClean, ShadowInv
<1>4. /\ g.plan = h.plan /\ g.shadow = s /\ g.cursor = k /\ DOMAIN g.objects = DOMAIN h.objects
      /\ k \in DOMAIN h.plan /\ h.cursor \in Nat /\ k = h.cursor + 1
      /\ DOMAIN h.plan = 1 .. Len(h.plan)
  <2>1. k \in DOMAIN h.plan
    BY <1>1 DEF EntryMoves
  <2> QED BY <1>1, <1>3, <2>1, PlanEntry DEF RelocatedAs
<1> HIDE DEF k, s
<1>5. /\ \A values : SourceNames(g, values) = SourceNames(h, values)
      /\ \A ids : SourceIds(g, ids) = SourceIds(h, ids)
      /\ \A i : Source(g, i) = Source(h, i) /\ Destination(g, i) = Destination(h, i)
      /\ Sources(g) = Sources(h)
  BY <1>4, SourceByPlan
<1>6. SnapshotIsPlanned(g, s)
  BY <1>3, <1>4, PlannedByPlan
<1>7. ASSUME NEW i \in DOMAIN g.plan
      PROVE  Mirrors(g, g.objects[Base(g, i)], s.objects[Source(g, i)])
  <2>1. Mirrors(h, h.objects[Base(h, i)], s.objects[Source(h, i)])
    BY <1>3, <1>4 DEF SnapshotMirrors
  <2>2. SameContents(h.objects[Base(h, i)], g.objects[Base(g, i)])
    BY <1>1, <1>4 DEF Relocated
  <2> QED BY <1>5, <2>1, <2>2 DEF Mirrors, SameContents
<1>8. ASSUME NEW t \in DOMAIN g.objects, \A i \in 1 .. g.cursor : Destination(g, i) # t
      PROVE  g.generations[t] = s.generations[t]
  <2>1. t # Destination(h, k) /\ \A i \in 1 .. h.cursor : Destination(h, i) # t
    BY <1>4, <1>5, <1>8
  <2>2. h.generations[t] = s.generations[t]
    BY <1>3, <1>4, <2>1 DEF SnapshotMirrors
  <2>3. t \in DOMAIN h.generations
    BY <1>3, <1>4, HeaderIsObject
  <2> QED BY <1>1, <2>1, <2>2, <2>3 DEF RelocatedAs
<1>9. /\ s.weak_refs = SourceIds(g, g.weak_refs) /\ s.intern_table = SourceIds(g, g.intern_table)
      /\ s.ephemerons = SourceIds(g, g.ephemerons)
  <2>1. /\ g.weak_refs = ForwardedOwners(h, k, h.weak_refs)
        /\ g.intern_table = ForwardedOwners(h, k, h.intern_table)
        /\ g.ephemerons = ForwardedOwners(h, k, h.ephemerons)
    BY <1>1 DEF RelocatedAs
  <2>2. \A ids : SourceIds(h, ForwardedOwners(h, k, ids)) = SourceIds(h, ids)
    BY <1>3, <1>4, ForwardedSources
  <2> QED BY <1>3, <1>5, <2>1, <2>2 DEF SnapshotMirrors
<1>10. SnapshotMirrors(g, s)
  BY <1>3, <1>4, <1>5, <1>7, <1>8, <1>9 DEF SnapshotMirrors
<1>11. ASSUME NEW i \in 1 .. g.cursor PROVE g.objects[Destination(g, i)].age = "Old"
  <2>1. i \in DOMAIN h.plan /\ Base(g, i) = Destination(g, i)
    BY <1>4, <1>11, LenProperties DEF Base
  <2>2. CASE i = k
    <3>1. Base(h, k) \in Headers(h)
      BY <1>3, <1>4, MovedResolves
    <3>2. h.objects[Base(h, k)] \in Objects
      BY <1>3, <3>1, HeaderIsObject
    <3> QED BY <1>2, <1>4, <2>1, <2>2, <3>2, SurvivorKeeps DEF RelocatedObjects
  <2>3. CASE i # k
    <3>1. i \in 1 .. h.cursor /\ Base(h, i) = Destination(h, i)
      BY <1>4, <1>11, <2>3 DEF Base
    <3> QED BY <1>2, <1>3, <1>5, <2>1, <2>3, <3>1 DEF RelocatedObjects, MovedAreOld
  <2> QED BY <2>2, <2>3
<1> QED BY <1>4, <1>6, <1>10, <1>11 DEF ShadowInv, MovedAreOld

LEMMA RelocateAllShadows ==
  ASSUME NEW h, LayoutInv(h), h.phase = "compacting", ShadowInv(h), NEW g, g = RelocateAll(h)
  PROVE  ShadowInv(g) /\ g.shadow = h.shadow
<1> DEFINE a == h.cursor
           n == Len(h.plan)
           after == CHOOSE f : RelocatesUpTo(h, n, f)
<1>1. g = after[n]
  BY DEF RelocateAll, RelocatesUpTo
<1>2. n \in Nat /\ a \in 0 .. n
  <2>1. h.plan \in Seq(Relocations) /\ a \in 0 .. n
    BY DEF LayoutInv, HeapIsTyped
  <2> HIDE DEF Relocations
  <2> QED BY <2>1
<1>3. RelocatesUpTo(h, n, after)
  BY <1>2, RelocationsExist
<1> HIDE DEF after
<1> DEFINE Going(m) == /\ LayoutInv(m) /\ m.phase = "compacting" /\ m.plan = h.plan
                       /\ ShadowInv(m) /\ m.shadow = h.shadow
           T == {k \in 0 .. n - a : Going(after[a + k]) /\ after[a + k].cursor = a + k}
<1>4. 0 \in T
  <2>1. after[a + 0] = h
    BY <1>2, <1>3 DEF RelocatesUpTo
  <2> QED BY <1>2, <2>1
<1>5. ASSUME NEW k \in 0 .. n - a, k < n - a, k \in T PROVE k + 1 \in T
  <2> DEFINE m == after[a + k]
             p == after[a + (k + 1)]
  <2>1. Going(m) /\ m.cursor = a + k /\ a + k < n
    BY <1>2, <1>5
  <2>2. p = RelocateNext(m)
    <3>1. a + (k + 1) \in a .. n /\ a + (k + 1) # a /\ (a + (k + 1)) - 1 = a + k
      BY <1>2, <1>5
    <3> QED BY <1>3, <3>1 DEF RelocatesUpTo
  <2> HIDE DEF m, p
  <2>3. /\ LayoutInv(m) /\ m.phase = "compacting" /\ m.plan = h.plan /\ m.cursor < Len(m.plan)
        /\ ShadowInv(m) /\ m.shadow = h.shadow
    BY <2>1
  <2>4. LayoutInv(p) /\ p.phase = "compacting" /\ p.plan = m.plan /\ p.cursor = m.cursor + 1
    BY <2>2, <2>3, RelocateKeeps
  <2>5. ShadowInv(p)
    BY <2>2, <2>3, RelocateShadows
  <2>6. p.shadow = m.shadow
    <3>1. \E x : RelocatedAs(m, x, p)
      BY <2>2, <2>3, RelocatedIs DEF LayoutInv, HeapIsTyped
    <3> QED BY <3>1 DEF RelocatedAs
  <2>7. p.cursor = a + (k + 1) /\ k + 1 \in 0 .. n - a
    BY <1>2, <1>5, <2>1, <2>4
  <2> QED BY <2>3, <2>4, <2>5, <2>6, <2>7 DEF p
<1>6. n - a \in T
  <2>1. n - a \in Nat
    BY <1>2
  <2> HIDE DEF T, a, n
  <2> QED BY <1>4, <1>5, <2>1, CountingUp
<1>7. a + (n - a) = n
  BY <1>2
<1> QED BY <1>1, <1>6, <1>7

(***************************************************************************)
(* The end of the cycle.  Everything has moved, and h is what the slide of *)
(* its snapshot makes of the heap k that the snapshot shows.               *)
(***************************************************************************)
Completed(h) ==
  /\ LayoutInv(h) /\ StrongResolve(h) /\ MarksAreClear(h) /\ ShadowInv(h)
  /\ h.phase = "compacting" /\ h.cursor = Len(h.plan)

LEMMA CompletedIs ==
  ASSUME NEW h, Completed(h)
  PROVE  /\ HeapIsTyped(h) /\ RunsFollow(h) /\ PlanIsCurrent(h) /\ Named(h)
         /\ SnapshotIsPlanned(h, h.shadow) /\ SnapshotMirrors(h, h.shadow) /\ MovedAreOld(h)
         /\ \A i \in DOMAIN h.plan : /\ i \in 1 .. h.cursor /\ i <= h.cursor
                                     /\ Base(h, i) = Destination(h, i)
                                     /\ Name(h, i) = h.plan[i].destination_id
         /\ DOMAIN h.plan = 1 .. h.cursor
<1>1. HeapIsTyped(h) /\ RunsFollow(h) /\ PlanIsCurrent(h)
  BY DEF Completed, LayoutInv, PhaseIsClean
<1>2. \A i \in DOMAIN h.plan : DOMAIN h.plan = 1 .. Len(h.plan) /\ i \in Nat \ {0} /\ h.cursor \in Nat
  BY <1>1, PlanEntry
<1>3. DOMAIN h.plan = 1 .. h.cursor
  <2>1. h.plan \in Seq(Relocations)
    BY <1>1 DEF HeapIsTyped
  <2> HIDE DEF Relocations
  <2> QED BY <2>1, LenProperties DEF Completed
<1>4. \A i \in DOMAIN h.plan : i \in 1 .. h.cursor /\ i <= h.cursor
  BY <1>2, <1>3
<1> QED BY <1>1, <1>3, <1>4, PlanNames DEF Completed, ShadowInv, Base, Name

\* k is a heap that the snapshot s shows.
Shown(s, k) ==
  /\ DOMAIN k = HeapFields /\ k.objects = s.objects /\ k.generations = s.generations
  /\ k.weak_refs = s.weak_refs /\ k.intern_table = s.intern_table /\ k.ephemerons = s.ephemerons
  /\ k.cursor = 0

\* The slide c of the snapshot.
SlidAs(h, s, c) ==
  /\ DOMAIN c.objects = DOMAIN h.objects /\ DOMAIN c.forwarding = Sources(h)
  /\ \A i \in DOMAIN h.plan :
       /\ c.forwarding[Source(h, i)] = h.plan[i].destination_id
       /\ c.objects[Destination(h, i)] = Survivor(s.objects[Source(h, i)])
  /\ \A t \in DOMAIN h.objects :
       (\A i \in DOMAIN h.plan : Destination(h, i) # t) => c.objects[t] = None
  /\ c.generations = h.generations

LEMMA SlideOfSnapshot ==
  ASSUME NEW h, Completed(h), NEW s, s = h.shadow, NEW k, Shown(s, k),
         NEW c, c = compact_live_objects(k, Headers(k))
  PROVE  SlidAs(h, s, c)
<1>1. /\ HeapIsTyped(h) /\ RunsFollow(h) /\ PlanIsCurrent(h) /\ Named(h)
      /\ SnapshotIsPlanned(h, s) /\ SnapshotMirrors(h, s)
      /\ \A i \in DOMAIN h.plan : /\ i \in 1 .. h.cursor
                                  /\ Base(h, i) = Destination(h, i)
                                  /\ Name(h, i) = h.plan[i].destination_id
      /\ DOMAIN h.plan = 1 .. h.cursor
  BY CompletedIs
<1> DEFINE live == Sources(h)
           to == Destinations(s.objects, live)
           mg == MovedGenerations(s.generations, to)
<1>2. Headers(k) = live
  <2>1. \A i \in DOMAIN h.plan : Source(h, i) \in DOMAIN h.objects
    BY <1>1, SourceIsSlot
  <2>2. k.objects = s.objects /\ DOMAIN s.objects = DOMAIN h.objects
        /\ \A t \in DOMAIN h.objects : s.objects[t] # None <=> t \in Sources(h)
    BY <1>1 DEF Shown, SnapshotMirrors
  <2> QED BY <2>1, <2>2 DEF Headers, Sources
<1>3. /\ c.objects = [t \in DOMAIN s.objects |->
                        IF \E x \in live : to[x] = t
                        THEN Survivor(s.objects[CHOOSE x \in live : to[x] = t])
                        ELSE None]
      /\ c.generations = mg
      /\ c.forwarding = [x \in live |-> make_object_id(to[x], mg[to[x]])]
  BY <1>2 DEF compact_live_objects, Shown
<1>4. \A i \in DOMAIN h.plan :
        h.plan[i] = [source_id      |-> make_object_id(Source(h, i), s.generations[Source(h, i)]),
                     destination_id |-> make_object_id(to[Source(h, i)], mg[to[Source(h, i)]])]
  BY <1>1 DEF SnapshotIsPlanned
<1>5. mg = [t \in DOMAIN s.generations |->
              IF \E x \in DOMAIN to : to[x] = t /\ x # t THEN generation_for_new_base(s.generations[t])
              ELSE s.generations[t]]
  BY DEF MovedGenerations
<1>6. DOMAIN to = live
  BY DEF Destinations
<1> HIDE DEF to, mg
<1>7. \A i \in DOMAIN h.plan :
        /\ Source(h, i) \in live /\ to[Source(h, i)] = Destination(h, i)
        /\ mg[to[Source(h, i)]] = generation_from(h.plan[i].destination_id)
        /\ make_object_id(to[Source(h, i)], mg[to[Source(h, i)]]) = h.plan[i].destination_id
  <2> SUFFICES ASSUME NEW i \in DOMAIN h.plan
               PROVE  /\ Source(h, i) \in live /\ to[Source(h, i)] = Destination(h, i)
                      /\ mg[to[Source(h, i)]] = generation_from(h.plan[i].destination_id)
                      /\ make_object_id(to[Source(h, i)], mg[to[Source(h, i)]])
                           = h.plan[i].destination_id
    OBVIOUS
  <2>1. h.plan[i].destination_id = make_object_id(to[Source(h, i)], mg[to[Source(h, i)]])
    <3> DEFINE e == h.plan[i]
               v == make_object_id(Source(h, i), s.generations[Source(h, i)])
               w == make_object_id(to[Source(h, i)], mg[to[Source(h, i)]])
    <3>1. e = [source_id |-> v, destination_id |-> w]
      BY <1>4
    <3> HIDE DEF e, v, w
    <3>2. e.destination_id = w
      BY <3>1
    <3> QED BY <3>2 DEF e, w
  <2>2. Source(h, i) \in live
    BY DEF Sources
  <2> QED BY <2>1, <2>2 DEF make_object_id, Destination, slot_from, generation_from
<1>8. \A x \in live : \E i \in DOMAIN h.plan : x = Source(h, i)
  BY DEF Sources
<1>9. DOMAIN s.objects = DOMAIN h.objects /\ DOMAIN s.generations = DOMAIN h.objects
  BY <1>1 DEF SnapshotMirrors
<1> HIDE DEF live
<1>10. ASSUME NEW i \in DOMAIN h.plan
       PROVE  /\ Destination(h, i) \in DOMAIN h.objects
              /\ c.objects[Destination(h, i)] = Survivor(s.objects[Source(h, i)])
  <2> DEFINE x == CHOOSE x \in live : to[x] = Destination(h, i)
  <2>1. x \in live /\ to[x] = Destination(h, i)
    BY <1>7
  <2> HIDE DEF x
  <2>2. PICK j \in DOMAIN h.plan : x = Source(h, j)
    BY <1>8, <2>1
  <2>3. Destination(h, j) = Destination(h, i)
    BY <1>7, <2>1, <2>2
  <2>4. j = i
    BY <1>1, <2>3, SourcesDiffer
  <2>5. Destination(h, i) \in DOMAIN h.objects
    BY <1>1 DEF Named, Headers
  <2>6. x = Source(h, i) /\ Destination(h, i) \in DOMAIN s.objects
        /\ \E z \in live : to[z] = Destination(h, i)
    BY <1>9, <2>1, <2>2, <2>4, <2>5
  <2>7. c.objects[Destination(h, i)] = Survivor(s.objects[x])
    BY <1>3, <2>6 DEF x
  <2> QED BY <2>5, <2>6, <2>7
<1>11. ASSUME NEW t \in DOMAIN h.objects, \A i \in DOMAIN h.plan : Destination(h, i) # t
       PROVE  c.objects[t] = None
  <2>1. ~ \E x \in live : to[x] = t
    BY <1>7, <1>8, <1>11
  <2> QED BY <1>3, <1>9, <2>1
<1>12. mg = h.generations
  <2>1. DOMAIN h.generations = DOMAIN h.objects
    BY <1>1, HeaderIsObject
  <2>2. ASSUME NEW t \in DOMAIN h.objects PROVE h.generations[t] = mg[t]
    <3>1. CASE \E i \in DOMAIN h.plan : Destination(h, i) = t
      <4>1. PICK i \in DOMAIN h.plan : Destination(h, i) = t
        BY <3>1
      <4>2. IdAt(h, t) = h.plan[i].destination_id
        BY <1>1, <4>1 DEF PlanIsCurrent
      <4>3. h.generations[t] = generation_from(h.plan[i].destination_id)
        BY <4>2 DEF IdAt, make_object_id, generation_from
      <4> QED BY <1>7, <4>1, <4>3
    <3>2. CASE \A i \in DOMAIN h.plan : Destination(h, i) # t
      <4>1. h.generations[t] = s.generations[t]
        BY <1>1, <3>2 DEF SnapshotMirrors
      <4>2. ~ \E x \in DOMAIN to : to[x] = t /\ x # t
        BY <1>6, <1>7, <1>8, <3>2
      <4> QED BY <1>5, <1>9, <4>1, <4>2
    <3> QED BY <3>1, <3>2
  <2>3. h.generations \in [DOMAIN h.objects -> Nat]
    BY <1>1, <2>1 DEF HeapIsTyped
  <2> QED BY <1>5, <1>9, <2>2, <2>3
<1> QED BY <1>3, <1>7, <1>9, <1>10, <1>11, <1>12 DEF SlidAs, live

\* A reference ends as the id of the place that the slide gives its object.
LEMMA SlidReference ==
  ASSUME NEW h, Completed(h), NEW s, s = h.shadow, NEW k, Shown(s, k), NEW c, SlidAs(h, s, c),
         NEW v \in Ids, Resolves(h, v),
         NEW n, n = normalize_incremental_compaction_shadow_value(h, v)
  PROVE  /\ is_object(n) /\ Forwarded(k, c.forwarding, n)
         /\ rewrite_value(k, c.forwarding, n) = canonicalize_incremental_compaction_read(h, v)
         /\ \E i \in DOMAIN h.plan :
              canonicalize_incremental_compaction_read(h, v) = Name(h, i) /\ Resolves(h, Name(h, i))
<1>1. /\ HeapIsTyped(h) /\ RunsFollow(h) /\ PlanIsCurrent(h) /\ Named(h)
      /\ SnapshotIsPlanned(h, s) /\ SnapshotMirrors(h, s)
      /\ \A i \in DOMAIN h.plan : Name(h, i) = h.plan[i].destination_id
  BY CompletedIs
<1>2. PICK i \in DOMAIN h.plan : NamesEntry(h, i, v)
  BY <1>1 DEF Named
<1>3. canonicalize_incremental_compaction_read(h, v) = h.plan[i].destination_id
  BY <1>1, <1>2 DEF Named
<1>4. n = h.plan[i].source_id
  BY <1>1, <1>2, SourceOfReference
<1>5. n \in Ids /\ is_object(n)
  BY <1>1, <1>4, PlanEntry, IdsAreReferences
<1>6. checked_slot(k, n) = Source(h, i)
  <2>1. n = make_object_id(Source(h, i), s.generations[Source(h, i)])
    BY <1>1, <1>4, PlannedSource
  <2>2. slot_from(n) = Source(h, i) /\ generation_from(n) = s.generations[Source(h, i)]
    BY <2>1 DEF make_object_id, slot_from, generation_from
  <2>3. generation_from(n) > 0 /\ generation_from(n) \in Nat
    BY <1>1, <1>4, <1>5, IdParts DEF PlanIsCurrent, PlanSlides
  <2>4. Source(h, i) \in Sources(h)
    BY DEF Sources
  <2>5. Source(h, i) \in DOMAIN h.objects
    BY <1>1, SourceIsSlot
  <2>6. s.objects[Source(h, i)] # None /\ DOMAIN s.objects = DOMAIN h.objects
    BY <1>1, <2>4, <2>5 DEF SnapshotMirrors
  <2>7. Physical(k, n)
    BY <2>2, <2>3, <2>5, <2>6 DEF Physical, Shown
  <2> QED BY <2>2, <2>7 DEF checked_slot
<1>7. Source(h, i) \in DOMAIN c.forwarding /\ c.forwarding[Source(h, i)] = h.plan[i].destination_id
  BY DEF SlidAs, Sources
<1>8. Resolves(h, Name(h, i))
  BY <1>1, MovedResolves
<1> QED BY <1>1, <1>3, <1>5, <1>6, <1>7, <1>8 DEF Forwarded, rewrite_value

SlideEnds(h, s, k, c) == Completed(h) /\ s = h.shadow /\ Shown(s, k) /\ SlidAs(h, s, c)

\* A value as the slide leaves it, from its name in the snapshot.
LEMMA SlidValue ==
  ASSUME NEW h, NEW s, NEW k, NEW c, SlideEnds(h, s, k, c),
         NEW v \in Values, is_object(v) => Resolves(h, v),
         NEW n, n = normalize_incremental_compaction_shadow_value(h, v)
  PROVE  /\ is_object(n) <=> is_object(v)
         /\ is_object(v) => Forwarded(k, c.forwarding, n)
         /\ rewrite_value(k, c.forwarding, n) = canonicalize_incremental_compaction_read(h, v)
<1>1. CASE is_object(v)
  <2>1. v \in Ids /\ Resolves(h, v)
    BY <1>1 DEF Values, is_object
  <2> QED BY <1>1, <2>1, SlidReference DEF SlideEnds
<1>2. CASE ~ is_object(v)
  <2>1. n = v
    BY <1>2 DEF normalize_incremental_compaction_shadow_value
  <2> QED BY <1>2, <2>1 DEF rewrite_value, canonicalize_incremental_compaction_read
<1> QED BY <1>1, <1>2

CanonicalNames(h, values) ==
  [i \in DOMAIN values |-> canonicalize_incremental_compaction_read(h, values[i])]

LEMMA SlidValues ==
  ASSUME NEW h, NEW s, NEW k, NEW c, SlideEnds(h, s, k, c),
         NEW values \in Seq(Values), \A i \in DOMAIN values : is_object(values[i]) => Resolves(h, values[i]),
         NEW names, names = SourceNames(h, values)
  PROVE  /\ [i \in DOMAIN names |-> rewrite_value(k, c.forwarding, names[i])] = CanonicalNames(h, values)
         /\ DOMAIN names = DOMAIN values
         /\ \A i \in DOMAIN values :
              /\ is_object(names[i]) <=> is_object(values[i])
              /\ is_object(values[i]) => Forwarded(k, c.forwarding, names[i])
              /\ rewrite_value(k, c.forwarding, names[i])
                   = canonicalize_incremental_compaction_read(h, values[i])
<1>1. DOMAIN names = DOMAIN values
  BY DEF SourceNames
<1>2. ASSUME NEW i \in DOMAIN values
      PROVE  /\ is_object(names[i]) <=> is_object(values[i])
             /\ is_object(values[i]) => Forwarded(k, c.forwarding, names[i])
             /\ rewrite_value(k, c.forwarding, names[i])
                  = canonicalize_incremental_compaction_read(h, values[i])
  <2> DEFINE v == values[i]
             n == names[i]
  <2>1. v \in Values
    <3>1. values \in [1 .. Len(values) -> Values]
      BY LenProperties
    <3> QED BY <3>1
  <2>2. n = normalize_incremental_compaction_shadow_value(h, v) /\ (is_object(v) => Resolves(h, v))
    BY DEF SourceNames
  <2> HIDE DEF v, n, SlideEnds
  <2>3. /\ is_object(n) <=> is_object(v)
        /\ is_object(v) => Forwarded(k, c.forwarding, n)
        /\ rewrite_value(k, c.forwarding, n) = canonicalize_incremental_compaction_read(h, v)
    BY ONLY SlideEnds(h, s, k, c), <2>1, <2>2, SlidValue
  <2> QED BY <2>3 DEF v, n
<1> QED BY <1>1, <1>2 DEF CanonicalNames

\* Every weak target and every key lives, so nothing is cleared.
LEMMA SlidSoft ==
  ASSUME NEW h, NEW s, NEW k, NEW c, SlideEnds(h, s, k, c),
         NEW o, validate_descriptor_shape(o), o.soft \in Seq(Values),
         \A i \in DOMAIN o.soft : is_object(o.soft[i]) => Resolves(h, o.soft[i]),
         NEW q, q.kind = o.kind, q.soft = SourceNames(h, o.soft)
  PROVE  SoftAfterMove(k, c.forwarding, q) = CanonicalNames(h, o.soft)
<1> DEFINE f == c.forwarding
           w == o.soft
           C(v) == canonicalize_incremental_compaction_read(h, v)
<1>1. /\ DOMAIN q.soft = DOMAIN w
      /\ \A i \in DOMAIN w :
           /\ is_object(q.soft[i]) <=> is_object(w[i])
           /\ is_object(w[i]) => Forwarded(k, f, q.soft[i])
           /\ rewrite_value(k, f, q.soft[i]) = C(w[i])
  <2> DEFINE names == q.soft
  <2>1. names = SourceNames(h, w) /\ w \in Seq(Values)
        /\ \A i \in DOMAIN w : is_object(w[i]) => Resolves(h, w[i])
    OBVIOUS
  <2> HIDE DEF w, names
  <2>2. /\ DOMAIN names = DOMAIN w
        /\ \A i \in DOMAIN w :
             /\ is_object(names[i]) <=> is_object(w[i])
             /\ is_object(w[i]) => Forwarded(k, c.forwarding, names[i])
             /\ rewrite_value(k, c.forwarding, names[i])
                  = canonicalize_incremental_compaction_read(h, w[i])
    BY ONLY SlideEnds(h, s, k, c), <2>1, SlidValues
  <2> QED BY <2>2 DEF names
<1>2. \A v : ~ is_object(v) => v = Nil /\ C(v) = Nil /\ ~ Forwarded(k, f, v) /\ rewrite_value(k, f, v) = Nil
  BY DEF is_object, canonicalize_incremental_compaction_read, Forwarded, rewrite_value
<1>3. CanonicalNames(h, w) = [i \in DOMAIN w |-> C(w[i])]
  BY DEF CanonicalNames
<1>4. w \in Seq(Values)
  OBVIOUS
<1> HIDE DEF C, f, w
<1>5. CASE o.kind = "WeakRef"
  <2>1. Len(w) = 1
    BY <1>5 DEF validate_descriptor_shape, w
  <2>2. DOMAIN w = {1}
    BY <1>4, <2>1, LenProperties
  <2>3. CanonicalNames(h, w) = <<C(w[1])>>
    BY <1>3, <2>2
  <2>4. SoftAfterMove(k, f, q) = <<C(w[1])>>
    BY <1>1, <1>2, <1>5, <2>2 DEF SoftAfterMove
  <2> QED BY <2>3, <2>4 DEF f, w
<1>6. CASE o.kind = "Ephemeron"
  <2>1. Len(w) = 2 /\ (w[1] = Nil => w[2] = Nil)
    BY <1>6 DEF validate_descriptor_shape, EphemeronAndBuilderShape, w
  <2>2. DOMAIN w = {1, 2}
    BY <1>4, <2>1, LenProperties
  <2>3. CanonicalNames(h, w) = <<C(w[1]), C(w[2])>>
    BY <1>3, <2>2
  <2>4. SoftAfterMove(k, f, q) = <<C(w[1]), C(w[2])>>
    BY <1>1, <1>2, <1>6, <2>1, <2>2 DEF SoftAfterMove, is_object
  <2> QED BY <2>3, <2>4 DEF f, w
<1>7. CASE o.kind \notin {"WeakRef", "Ephemeron"}
  <2>1. w = <<>>
    BY <1>7 DEF validate_descriptor_shape, w
  <2>2. SourceNames(h, w) = <<>> /\ CanonicalNames(h, w) = <<>>
    BY <2>1 DEF SourceNames, CanonicalNames
  <2>3. SoftAfterMove(k, f, q) = q.soft
    BY <1>7 DEF SoftAfterMove
  <2> QED BY <2>2, <2>3 DEF f, w
<1> QED BY <1>5, <1>6, <1>7

WithSlots(o, a, b) == [o EXCEPT !.strong = a, !.soft = b]

LEMMA SameButReferences ==
  ASSUME NEW o \in Objects, NEW p \in Objects, p.kind = o.kind, p.length = o.length, p.data = o.data,
         p.text = o.text, p.marked = o.marked, p.age = o.age, NEW a, NEW b
  PROVE  WithSlots(p, a, b) = WithSlots(o, a, b)
<1> DEFINE F == {"kind", "length", "data", "age", "marked", "strong", "soft", "text"}
           q == [p EXCEPT !.strong = a, !.soft = b]
           r == [o EXCEPT !.strong = a, !.soft = b]
<1>1. DOMAIN p = F /\ DOMAIN o = F
  BY DEF Objects
<1>2. /\ q.kind = p.kind /\ q.length = p.length /\ q.data = p.data /\ q.text = p.text
      /\ q.marked = p.marked /\ q.age = p.age /\ q.strong = a /\ q.soft = b
      /\ q = [f \in F |-> q[f]]
  BY ONLY <1>1
<1>3. /\ r.kind = o.kind /\ r.length = o.length /\ r.data = o.data /\ r.text = o.text
      /\ r.marked = o.marked /\ r.age = o.age /\ r.strong = a /\ r.soft = b
      /\ r = [f \in F |-> r[f]]
  BY ONLY <1>1
<1> HIDE DEF q, r
<1>4. \A f \in F : q[f] = r[f]
  BY <1>2, <1>3
<1> HIDE DEF F
<1>5. q = r
  BY <1>2, <1>3, <1>4
<1> QED BY <1>5 DEF q, r, WithSlots

LEMMA RewrittenAlike ==
  ASSUME NEW h, NEW s, NEW k, NEW c, SlideEnds(h, s, k, c),
         NEW i \in DOMAIN h.plan,
         NEW o, o = h.objects[Base(h, i)], NEW p, p = Survivor(s.objects[Source(h, i)])
  PROVE  RewrittenObject(k, c.forwarding, p) = CanonicalFields(h, o) /\ p # None
<1> DEFINE f == c.forwarding
           q == s.objects[Source(h, i)]
<1>1. /\ HeapIsTyped(h) /\ RunsFollow(h) /\ PlanIsCurrent(h) /\ MovedAreOld(h)
      /\ Mirrors(h, o, q) /\ i \in 1 .. h.cursor /\ Base(h, i) = Destination(h, i)
      /\ SnapshotMirrors(h, s)
  BY CompletedIs DEF SnapshotMirrors, SlideEnds
<1>2. Base(h, i) \in Headers(h)
  BY <1>1, MovedResolves
<1>3. /\ o \in Objects /\ o.strong \in Seq(Values) /\ o.soft \in Seq(Values)
      /\ \A j \in DOMAIN o.strong : is_object(o.strong[j]) => Resolves(h, o.strong[j])
      /\ \A j \in DOMAIN o.soft : is_object(o.soft[j]) => Resolves(h, o.soft[j])
  <2>1. LayoutInv(h) /\ StrongResolve(h)
    BY DEF Completed, SlideEnds
  <2>2. o = h.objects[Base(h, i)] /\ Base(h, i) \in Headers(h)
    BY <1>2
  <2> QED BY ONLY <2>1, <2>2, ContentsResolve
<1>4. o.marked = FALSE /\ o.age = "Old"
  <2>1. ~ o.marked /\ o.age = "Old"
    BY <1>1, <1>2 DEF SlideEnds, Completed, MarksAreClear, MovedAreOld
  <2> QED BY <1>3, <2>1, ObjectFields
<1>5. q \in Objects
  <2>1. Source(h, i) \in Sources(h)
    BY DEF Sources
  <2>2. Source(h, i) \in DOMAIN h.objects
    BY <1>1, SourceIsSlot
  <2> QED BY <1>1, <2>1, <2>2 DEF SnapshotMirrors
<1>6. /\ p \in Objects /\ p.kind = o.kind /\ p.length = o.length /\ p.data = o.data /\ p.text = o.text
      /\ p.strong = SourceNames(h, o.strong) /\ p.soft = SourceNames(h, o.soft)
      /\ p.marked = FALSE /\ p.age = "Old"
  <2>1. SameContents(q, p) /\ p.age = "Old" /\ p.marked = FALSE
    BY <1>5, SurvivorKeeps
  <2>2. p \in Objects
    BY <1>5 DEF Survivor, Objects
  <2> QED BY <1>1, <2>1, <2>2 DEF Mirrors, SameContents
<1> HIDE DEF q
<1>7. [j \in DOMAIN p.strong |-> rewrite_value(k, f, p.strong[j])] = CanonicalNames(h, o.strong)
  <2> DEFINE w == o.strong
             names == p.strong
  <2>1. names = SourceNames(h, w) /\ w \in Seq(Values)
        /\ \A j \in DOMAIN w : is_object(w[j]) => Resolves(h, w[j])
    BY <1>3, <1>6
  <2> HIDE DEF w, names
  <2>2. [j \in DOMAIN names |-> rewrite_value(k, c.forwarding, names[j])] = CanonicalNames(h, w)
    BY ONLY SlideEnds(h, s, k, c), <2>1, SlidValues
  <2> QED BY <2>2 DEF w, names
<1>8. SoftAfterMove(k, f, p) = CanonicalNames(h, o.soft)
  <2>1. validate_descriptor_shape(o)
    BY <1>1, <1>2 DEF RunsFollow
  <2>2. /\ o.soft \in Seq(Values) /\ p.kind = o.kind /\ p.soft = SourceNames(h, o.soft)
        /\ \A j \in DOMAIN o.soft : is_object(o.soft[j]) => Resolves(h, o.soft[j])
    BY <1>3, <1>6
  <2> QED BY ONLY SlideEnds(h, s, k, c), <2>1, <2>2, SlidSoft
<1> DEFINE a == CanonicalNames(h, o.strong)
           b == CanonicalNames(h, o.soft)
<1>9. RewrittenObject(k, f, p) = WithSlots(p, a, b)
  BY <1>7, <1>8 DEF RewrittenObject, WithSlots
<1>10. CanonicalFields(h, o) = WithSlots(o, a, b)
  BY DEF CanonicalFields, CanonicalNames, WithSlots
<1> HIDE DEF a, b, f
<1>11. WithSlots(p, a, b) = WithSlots(o, a, b)
  <2>1. /\ o \in Objects /\ p \in Objects /\ p.kind = o.kind /\ p.length = o.length /\ p.data = o.data
        /\ p.text = o.text /\ p.marked = o.marked /\ p.age = o.age
    BY <1>3, <1>4, <1>6
  <2> QED BY ONLY <2>1, SameButReferences
<1>12. p # None
  BY <1>6, NoneAssumption
<1> QED BY <1>9, <1>10, <1>11, <1>12 DEF f

\* A registry has the current ids again.
LEMMA SlidRegistry ==
  ASSUME NEW h, NEW s, NEW k, NEW c, SlideEnds(h, s, k, c),
         NEW ids, ids \subseteq Ids, \A id \in ids : \E t \in Headers(h) : id = IdAt(h, t),
         NEW names, names = SourceIds(h, ids)
  PROVE  RewrittenRegistry(k, c.forwarding, names) = ids
<1> DEFINE N(id) == normalize_incremental_compaction_shadow_value(h, id)
           W(x) == rewrite_value(k, c.forwarding, x)
           G(x) == Forwarded(k, c.forwarding, x)
<1>1. HeapIsTyped(h) /\ RunsFollow(h) /\ PlanIsCurrent(h)
  BY CompletedIs DEF SlideEnds
<1>2. ASSUME NEW id \in ids PROVE G(N(id)) /\ W(N(id)) = id
  <2>1. PICK t \in Headers(h) : id = IdAt(h, t)
    OBVIOUS
  <2>2. PICK i \in DOMAIN h.plan : t = Base(h, i)
    BY <1>1, <2>1 DEF PlanIsCurrent
  <2>3. id = Name(h, i)
    BY <1>1, <2>1, <2>2 DEF PlanIsCurrent
  <2>4. Resolves(h, id) /\ canonicalize_incremental_compaction_read(h, id) = id
    BY <1>1, <2>3, MovedResolves
  <2>5. id \in Values /\ is_object(id)
    BY IdsAreReferences DEF Values
  <2>6. /\ is_object(id) => Forwarded(k, c.forwarding, N(id))
        /\ rewrite_value(k, c.forwarding, N(id)) = canonicalize_incremental_compaction_read(h, id)
    <3> DEFINE n == N(id)
    <3>1. n = normalize_incremental_compaction_shadow_value(h, id) /\ id \in Values
          /\ (is_object(id) => Resolves(h, id))
      BY <2>4, <2>5
    <3> HIDE DEF n, N, W, G
    <3>2. /\ is_object(id) => Forwarded(k, c.forwarding, n)
          /\ rewrite_value(k, c.forwarding, n) = canonicalize_incremental_compaction_read(h, id)
      BY ONLY SlideEnds(h, s, k, c), <3>1, SlidValue
    <3> QED BY <3>2 DEF n
  <2> QED BY <2>4, <2>5, <2>6
<1>3. names = {N(id) : id \in ids}
  BY DEF SourceIds
<1>4. RewrittenRegistry(k, c.forwarding, names) = {W(x) : x \in {y \in names : G(y)}}
  BY DEF RewrittenRegistry
<1> DEFINE kept == {y \in names : G(y)}
<1> HIDE DEF N, W, G
<1>5. \A y \in names : \E id \in ids : y = N(id)
  BY <1>3
<1>6. \A id \in ids : N(id) \in names
  BY <1>3
<1>7. \A y : y \in kept <=> y \in names
  BY <1>2, <1>5
<1>8. RewrittenRegistry(k, c.forwarding, names) = {W(x) : x \in kept}
  BY <1>4
<1> HIDE DEF kept
<1>9. \A y : y \in {W(x) : x \in kept} <=> y \in ids
  BY <1>2, <1>5, <1>6, <1>7
<1> QED BY <1>8, <1>9

\* What the differential check compares.
Matches(d, e) ==
  /\ d.objects = e.objects /\ d.generations = e.generations /\ d.weak_refs = e.weak_refs
  /\ d.intern_table = e.intern_table /\ d.ephemerons = e.ephemerons

LEMMA FinalMatches ==
  ASSUME NEW h, NEW s, NEW k, NEW c, SlideEnds(h, s, k, c),
         NEW d, d = finalize_incremental_compaction(h),
         NEW e, e = InstallMovement(k, c.objects, c.generations, c.forwarding)
  PROVE  Matches(d, e)
<1> DEFINE f == c.forwarding
<1>1. /\ HeapIsTyped(h) /\ RunsFollow(h) /\ PlanIsCurrent(h) /\ LayoutInv(h)
      /\ \A i \in DOMAIN h.plan : Base(h, i) = Destination(h, i)
      /\ SnapshotMirrors(h, s)
  BY CompletedIs DEF SlideEnds, Completed
<1>2. PICK ids : FinalizedAs(h, ids, d)
  <2>1. DOMAIN h = HeapFields
    BY <1>1 DEF HeapIsTyped
  <2> QED BY <2>1, FinalizedIs
<1>3. InstalledAs(k, c.objects, c.generations, f, e)
  <2>1. DOMAIN k = HeapFields
    BY DEF SlideEnds, Shown
  <2> QED BY <2>1, Installed
<1>4. /\ DOMAIN c.objects = DOMAIN h.objects /\ c.generations = h.generations
      /\ \A i \in DOMAIN h.plan : c.objects[Destination(h, i)] = Survivor(s.objects[Source(h, i)])
      /\ \A t \in DOMAIN h.objects :
           (\A i \in DOMAIN h.plan : Destination(h, i) # t) => c.objects[t] = None
  BY DEF SlideEnds, SlidAs
<1>5. d.generations = e.generations
  BY <1>2, <1>3, <1>4 DEF FinalizedAs, InstalledAs
<1>6. /\ k.weak_refs = SourceIds(h, h.weak_refs) /\ k.intern_table = SourceIds(h, h.intern_table)
      /\ k.ephemerons = SourceIds(h, h.ephemerons)
  BY <1>1 DEF SlideEnds, Shown, SnapshotMirrors
<1>7. /\ RewrittenRegistry(k, f, k.weak_refs) = h.weak_refs
      /\ RewrittenRegistry(k, f, k.intern_table) = h.intern_table
      /\ RewrittenRegistry(k, f, k.ephemerons) = h.ephemerons
  <2>1. /\ h.weak_refs \subseteq Ids /\ h.intern_table \subseteq Ids /\ h.ephemerons \subseteq Ids
        /\ \A id \in h.weak_refs \cup h.intern_table \cup h.ephemerons :
             \E t \in Headers(h) : id = IdAt(h, t)
    BY <1>1, RegisteredResolve
  <2>2. \A ids_1 : /\ ids_1 \subseteq Ids /\ \A id \in ids_1 : \E t \in Headers(h) : id = IdAt(h, t)
                   => RewrittenRegistry(k, f, SourceIds(h, ids_1)) = ids_1
    BY SlidRegistry
  <2> QED BY <1>6, <2>1, <2>2
<1>8. /\ d.weak_refs = e.weak_refs /\ d.intern_table = e.intern_table /\ d.ephemerons = e.ephemerons
  BY <1>2, <1>3, <1>7 DEF FinalizedAs, InstalledAs
<1>9. ASSUME NEW t \in DOMAIN h.objects
      PROVE  (IF h.objects[t] = None THEN None ELSE CanonicalFields(h, h.objects[t]))
               = IF c.objects[t] = None THEN None ELSE RewrittenObject(k, f, c.objects[t])
  <2>1. CASE \E i \in DOMAIN h.plan : Destination(h, i) = t
    <3>1. PICK i \in DOMAIN h.plan : Destination(h, i) = t
      BY <2>1
    <3> DEFINE o == h.objects[Base(h, i)]
               p == Survivor(s.objects[Source(h, i)])
    <3>2. o = h.objects[t] /\ p = c.objects[t]
      BY <1>1, <1>4, <3>1
    <3>3. o # None
      <4>1. Base(h, i) \in Headers(h)
        BY <1>1, MovedResolves
      <4> QED BY <4>1 DEF Headers
    <3>4. p # None /\ RewrittenObject(k, f, p) = CanonicalFields(h, o)
      <4>1. o = h.objects[Base(h, i)] /\ p = Survivor(s.objects[Source(h, i)])
        OBVIOUS
      <4> HIDE DEF o, p
      <4> QED BY ONLY SlideEnds(h, s, k, c), i \in DOMAIN h.plan, <4>1, RewrittenAlike
    <3> HIDE DEF o, p
    <3> QED BY <3>2, <3>3, <3>4
  <2>2. CASE \A i \in DOMAIN h.plan : Destination(h, i) # t
    <3>1. t \notin Headers(h)
      BY <1>1, <2>2 DEF PlanIsCurrent
    <3>2. h.objects[t] = None
      BY <3>1 DEF Headers
    <3> QED BY <1>4, <2>2, <3>2
  <2> QED BY <2>1, <2>2
<1>10. d.objects = e.objects
  <2>1. d.objects = [t \in DOMAIN h.objects |->
                       IF h.objects[t] = None THEN None ELSE CanonicalFields(h, h.objects[t])]
    BY <1>2 DEF FinalizedAs, CanonicalObjects
  <2>2. e.objects = [t \in DOMAIN h.objects |->
                       IF c.objects[t] = None THEN None ELSE RewrittenObject(k, f, c.objects[t])]
    BY <1>3, <1>4 DEF InstalledAs
  <2> HIDE DEF f
  <2> QED BY <1>9, <2>1, <2>2
<1> QED BY <1>5, <1>8, <1>10 DEF Matches

LEMMA FinishMatches ==
  ASSUME NEW m, LayoutInv(m), ReferenceInv(m), ShadowInv(m), m.phase = "compacting",
         NEW d, d = finish_incremental_compaction_impl(m),
         NEW k, Shown(m.shadow, k), NEW c, c = compact_live_objects(k, Headers(k)),
         NEW e, e = InstallMovement(k, c.objects, c.generations, c.forwarding)
  PROVE  Matches(d, e)
<1> DEFINE h == RelocateAll(m)
<1>1. h = RelocateAll(m) /\ d = finalize_incremental_compaction(h)
  BY DEF finish_incremental_compaction_impl
<1> HIDE DEF h
<1>2. LayoutInv(h) /\ h.phase = "compacting" /\ h.cursor = Len(h.plan)
  BY <1>1, RelocateAllKeeps DEF Onward
<1>3. ShadowInv(h) /\ h.shadow = m.shadow
  BY <1>1, RelocateAllShadows
<1>4. AtRest(h)
  <2>1. m.phase # "marking"
    OBVIOUS
  <2>2. AtRest(m)
    BY <2>1, AtRestIsSound
  <2> QED BY <1>1, <2>2, RelocateAllKeepsReferences
<1>5. Completed(h)
  BY <1>2, <1>3, <1>4 DEF Completed, AtRest
<1> DEFINE s == h.shadow
<1>6. Shown(s, k)
  BY <1>3
<1>7. SlidAs(h, s, c)
  BY <1>5, <1>6, SlideOfSnapshot
<1>8. SlideEnds(h, s, k, c)
  BY <1>5, <1>6, <1>7 DEF SlideEnds
<1> HIDE DEF s
<1> QED BY <1>1, <1>8, FinalMatches

LEMMA SnapshotIsShown ==
  ASSUME NEW h, DOMAIN h = HeapFields, NEW s,
         NEW k, k = [h EXCEPT !.objects = s.objects, !.generations = s.generations,
                              !.weak_refs = s.weak_refs, !.intern_table = s.intern_table,
                              !.ephemerons = s.ephemerons, !.plan = <<>>, !.cursor = 0,
                              !.remembered_set = {}, !.cells = [c \in Cells |-> Nil]]
  PROVE  Shown(s, k)
BY DEF Shown, HeapFields

LEMMA ShadowsMatch ==
  ASSUME GcInv, GcShadowInv
  PROVE  CompactionMatchesAtomic
<1> SUFFICES ASSUME phase = "compacting"
             PROVE  Matches(finish_incremental_compaction_impl(heap), AtomicSlide(shadow))
  BY DEF CompactionMatchesAtomic, Matches
<1> DEFINE h == heap
           k == [heap EXCEPT !.objects = shadow.objects, !.generations = shadow.generations,
                             !.weak_refs = shadow.weak_refs, !.intern_table = shadow.intern_table,
                             !.ephemerons = shadow.ephemerons, !.plan = <<>>, !.cursor = 0,
                             !.remembered_set = {}, !.cells = [c \in Cells |-> Nil]]
           c == compact_live_objects(k, Headers(k))
           e == InstallMovement(k, c.objects, c.generations, c.forwarding)
           d == finish_incremental_compaction_impl(h)
<1>1. LayoutInv(h) /\ ReferenceInv(h) /\ ShadowInv(h)
  BY DEF GcInv, GcLayoutInv, GcReferenceInv, GcShadowInv
<1>2. h.phase = "compacting" /\ h.shadow = shadow
  BY DEF heap
<1>3. Shown(shadow, k)
  <2>1. DOMAIN h = HeapFields /\ h = heap
    BY <1>1 DEF LayoutInv, HeapIsTyped
  <2> HIDE DEF h, d
  <2> QED BY <2>1, SnapshotIsShown
<1>4. AtomicSlide(shadow) = e
  BY DEF AtomicSlide
<1>5. c = compact_live_objects(k, Headers(k)) /\ e = InstallMovement(k, c.objects, c.generations, c.forwarding)
      /\ d = finish_incremental_compaction_impl(h) /\ h = heap
  OBVIOUS
<1> HIDE DEF h, k, c, e, d
<1>6. Matches(d, e)
  <2>1. Shown(h.shadow, k)
    BY <1>2, <1>3
  <2> QED BY ONLY <1>1, <1>2, <1>5, <2>1, FinishMatches
<1> QED BY <1>4, <1>5, <1>6

(***************************************************************************)
(* Stores.  What a store does to the owner it does to its twin in the      *)
(* snapshot, in the names of the snapshot.                                 *)
(***************************************************************************)
\* What the mutator's bookkeeping leaves alone.
SameCycle(h, g) ==
  /\ g.objects = h.objects /\ g.generations = h.generations /\ g.plan = h.plan
  /\ g.cursor = h.cursor /\ g.shadow = h.shadow /\ g.phase = h.phase
  /\ g.weak_refs = h.weak_refs /\ g.intern_table = h.intern_table /\ g.ephemerons = h.ephemerons

LEMMA SameCycleShadows ==
  ASSUME NEW h, ShadowInv(h), NEW g, SameCycle(h, g)
  PROVE  ShadowInv(g)
<1> DEFINE s == h.shadow
<1>1. s = h.shadow /\ s = g.shadow
  BY DEF SameCycle
<1> HIDE DEF s
<1>2. CASE h.phase # "compacting"
  BY <1>2 DEF ShadowInv, SameCycle
<1>3. CASE h.phase = "compacting"
  <2>1. SnapshotIsPlanned(h, s) /\ SnapshotMirrors(h, s) /\ MovedAreOld(h)
    BY <1>1, <1>3 DEF ShadowInv
  <2>2. /\ \A values : SourceNames(g, values) = SourceNames(h, values)
        /\ \A ids : SourceIds(g, ids) = SourceIds(h, ids)
        /\ \A i : Source(g, i) = Source(h, i) /\ Destination(g, i) = Destination(h, i)
        /\ Sources(g) = Sources(h)
    BY SourceByPlan DEF SameCycle
  <2>3. SnapshotIsPlanned(g, s)
    BY <2>1, PlannedByPlan DEF SameCycle
  <2>4. \A i : Base(g, i) = Base(h, i)
    BY <2>2 DEF Base, SameCycle
  <2>5. \A o, q : Mirrors(g, o, q) <=> Mirrors(h, o, q)
    BY <2>2 DEF Mirrors
  <2>6. SnapshotMirrors(g, s)
    BY <2>1, <2>2, <2>4, <2>5 DEF SnapshotMirrors, SameCycle
  <2>7. MovedAreOld(g)
    BY <2>1, <2>2 DEF MovedAreOld, SameCycle
  <2> QED BY <1>1, <2>3, <2>6, <2>7 DEF ShadowInv
<1> QED BY <1>2, <1>3

LEMMA BarriersLeave ==
  ASSUME NEW h, DOMAIN h = HeapFields, NEW owner, NEW shaded, NEW published,
         NEW b, b = Barriers(h, owner, shaded, published)
  PROVE  SameCycle(h, b)
<1> DEFINE k == incremental_write_barrier_before_publish(h, owner, shaded)
<1>1. SameCycle(h, k) /\ DOMAIN k = HeapFields
  BY DEF incremental_write_barrier_before_publish, SameCycle, HeapFields
<1>2. b = record_write_barrier_if_needed(k, owner, published)
  BY DEF Barriers
<1> HIDE DEF k
<1>3. SameCycle(k, b)
  BY <1>1, <1>2 DEF record_write_barrier_if_needed, record_remembered_object, SameCycle, HeapFields
<1> QED BY <1>1, <1>3 DEF SameCycle

\* The owner of a store and its twin are the same survivor.
LEMMA TwinIs ==
  ASSUME NEW h, LayoutInv(h), h.phase = "compacting", ShadowInv(h),
         NEW owner \in Ids, Resolves(h, owner)
  PROVE  \E j \in DOMAIN h.plan :
           /\ checked_slot(h, owner) = Base(h, j)
           /\ incremental_compaction_shadow_slot(h, owner) = Source(h, j)
           /\ Base(h, j) \in Headers(h) /\ h.objects[Base(h, j)] \in Objects
           /\ Source(h, j) \in DOMAIN h.shadow.objects
           /\ h.shadow.objects[Source(h, j)] \in Objects
           /\ Mirrors(h, h.objects[Base(h, j)], h.shadow.objects[Source(h, j)])
<1>1. HeapIsTyped(h) /\ RunsFollow(h) /\ PlanIsCurrent(h) /\ Named(h) /\ SnapshotMirrors(h, h.shadow)
  BY PlanNames DEF LayoutInv, PhaseIsClean, ShadowInv
<1>2. PICK j \in DOMAIN h.plan : NamesEntry(h, j, owner)
  BY <1>1 DEF Named
<1>3. checked_slot(h, owner) = Base(h, j) /\ Base(h, j) \in Headers(h)
  BY <1>1, <1>2 DEF Named
<1>4. incremental_compaction_shadow_slot(h, owner) = Source(h, j)
  <2>1. normalize_incremental_compaction_shadow_value(h, owner) = h.plan[j].source_id
    BY <1>1, <1>2, SourceOfReference
  <2> QED BY <2>1 DEF incremental_compaction_shadow_slot, Source
<1>5. Source(h, j) \in DOMAIN h.objects /\ Source(h, j) \in Sources(h)
  BY <1>1, SourceIsSlot DEF Sources
<1>6. h.objects[Base(h, j)] \in Objects
  BY <1>1, <1>3, HeaderIsObject
<1>7. h.shadow.objects[Source(h, j)] \in Objects /\ Source(h, j) \in DOMAIN h.shadow.objects
      /\ Mirrors(h, h.objects[Base(h, j)], h.shadow.objects[Source(h, j)])
  BY <1>1, <1>5 DEF SnapshotMirrors
<1> QED BY <1>3, <1>4, <1>5, <1>6, <1>7

\* The fields of the heap with q stored at slot, and p at twin in the snapshot.
StoredFields(h, slot, q, twin, p, g) ==
  /\ g.objects = [h.objects EXCEPT ![slot] = q]
  /\ g.shadow.objects = [h.shadow.objects EXCEPT ![twin] = p]
  /\ DOMAIN g.shadow = DOMAIN h.shadow /\ g.shadow.generations = h.shadow.generations
  /\ g.shadow.weak_refs = h.shadow.weak_refs
  /\ g.shadow.intern_table = h.shadow.intern_table
  /\ g.shadow.ephemerons = h.shadow.ephemerons
  /\ g.generations = h.generations /\ g.plan = h.plan /\ g.cursor = h.cursor
  /\ g.phase = h.phase /\ g.weak_refs = h.weak_refs
  /\ g.intern_table = h.intern_table /\ g.ephemerons = h.ephemerons

LEMMA StoredIs ==
  ASSUME NEW h, DOMAIN h = HeapFields, h.phase = "compacting",
         DOMAIN h.shadow = {"objects", "generations", "weak_refs", "intern_table", "ephemerons"},
         NEW slot, NEW q, NEW twin, NEW p, NEW g, g = StoredIn(h, slot, q, twin, p)
  PROVE  StoredFields(h, slot, q, twin, p, g)
<1> DEFINE done == [h EXCEPT !.objects[slot] = q]
           a == [done.shadow.objects EXCEPT ![twin] = p]
           s == [done.shadow EXCEPT !.objects = a]
<1>1. /\ DOMAIN done = HeapFields /\ done.objects = [h.objects EXCEPT ![slot] = q]
      /\ done.shadow = h.shadow
      /\ done.generations = h.generations /\ done.plan = h.plan /\ done.cursor = h.cursor
      /\ done.phase = h.phase /\ done.weak_refs = h.weak_refs
      /\ done.intern_table = h.intern_table /\ done.ephemerons = h.ephemerons
  BY DEF HeapFields
<1>2. g = [done EXCEPT !.shadow = s]
  BY DEF StoredIn
<1> HIDE DEF done
<1>3. a = [h.shadow.objects EXCEPT ![twin] = p]
  BY <1>1
<1> HIDE DEF a
<1>4. /\ s.objects = a /\ DOMAIN s = DOMAIN h.shadow /\ s.generations = h.shadow.generations
      /\ s.weak_refs = h.shadow.weak_refs /\ s.intern_table = h.shadow.intern_table
      /\ s.ephemerons = h.shadow.ephemerons
  BY <1>1
<1> HIDE DEF s
<1>5. /\ g.shadow = s /\ g.objects = done.objects
      /\ g.generations = done.generations /\ g.plan = done.plan /\ g.cursor = done.cursor
      /\ g.phase = done.phase /\ g.weak_refs = done.weak_refs
      /\ g.intern_table = done.intern_table /\ g.ephemerons = done.ephemerons
  BY <1>1, <1>2 DEF HeapFields
<1> QED BY <1>1, <1>3, <1>4, <1>5 DEF StoredFields

LEMMA StoredShadows ==
  ASSUME NEW h, LayoutInv(h), h.phase = "compacting", ShadowInv(h),
         NEW owner \in Ids, Resolves(h, owner), NEW slot, slot = checked_slot(h, owner),
         NEW twin, twin = incremental_compaction_shadow_slot(h, owner),
         NEW q \in Objects, q.kind = h.objects[slot].kind, q.length = h.objects[slot].length,
         q.age = h.objects[slot].age,
         NEW p \in Objects, Mirrors(h, q, p), NEW g, g = StoredIn(h, slot, q, twin, p)
  PROVE  ShadowInv(g)
<1> DEFINE s == h.shadow
           w == g.shadow
<1>1. PICK j \in DOMAIN h.plan :
        /\ slot = Base(h, j) /\ twin = Source(h, j) /\ slot \in Headers(h) /\ h.objects[slot] \in Objects
        /\ twin \in DOMAIN s.objects /\ s.objects[twin] \in Objects
        /\ Mirrors(h, h.objects[slot], s.objects[twin])
  BY TwinIs
<1>2. HeapIsTyped(h) /\ RunsFollow(h) /\ PlanIsCurrent(h)
      /\ SnapshotIsPlanned(h, s) /\ SnapshotMirrors(h, s) /\ MovedAreOld(h)
  BY DEF LayoutInv, PhaseIsClean, ShadowInv
<1>3. /\ g.objects = [h.objects EXCEPT ![slot] = q]
      /\ w.objects = [s.objects EXCEPT ![twin] = p]
      /\ DOMAIN w = DOMAIN s /\ w.generations = s.generations /\ w.weak_refs = s.weak_refs
      /\ w.intern_table = s.intern_table /\ w.ephemerons = s.ephemerons
      /\ g.generations = h.generations /\ g.plan = h.plan /\ g.cursor = h.cursor
      /\ g.phase = h.phase /\ g.weak_refs = h.weak_refs
      /\ g.intern_table = h.intern_table /\ g.ephemerons = h.ephemerons
  <2>1. DOMAIN h = HeapFields
        /\ DOMAIN h.shadow = {"objects", "generations", "weak_refs", "intern_table", "ephemerons"}
    BY <1>2 DEF HeapIsTyped, SnapshotMirrors
  <2>2. StoredFields(h, slot, q, twin, p, g)
    BY <2>1, StoredIs
  <2> QED BY <2>2 DEF StoredFields
<1> HIDE DEF s, w
<1>4. /\ \A values : SourceNames(g, values) = SourceNames(h, values)
      /\ \A ids : SourceIds(g, ids) = SourceIds(h, ids)
      /\ \A i : Source(g, i) = Source(h, i) /\ Destination(g, i) = Destination(h, i)
      /\ Sources(g) = Sources(h)
  BY <1>3, SourceByPlan
<1>5. \A i : Base(g, i) = Base(h, i)
  BY <1>3, <1>4 DEF Base
<1>6. \A o, r : Mirrors(g, o, r) <=> Mirrors(h, o, r)
  BY <1>4 DEF Mirrors
<1>7. /\ DOMAIN h.objects = 0 .. Size(h) - 1 /\ Size(h) \in Nat
      /\ DOMAIN s.objects = DOMAIN h.objects
      /\ DOMAIN g.objects = DOMAIN h.objects /\ DOMAIN w.objects = DOMAIN h.objects
  BY <1>2, <1>3, HeaderIsObject DEF SnapshotMirrors
<1>8. SnapshotIsPlanned(g, w)
  <2>1. Destinations(w.objects, Sources(h)) = Destinations(s.objects, Sources(h))
    <3> DEFINE live == Sources(h)
    <3>1. live \subseteq 0 .. Size(h) - 1
      BY <1>2, <1>7, SourceIsSlot DEF Sources
    <3>2. ASSUME NEW x \in live
          PROVE  storage_slot_count(w.objects[x]) = storage_slot_count(s.objects[x])
      <4>1. CASE x # twin
        BY <1>3, <4>1
      <4>2. CASE x = twin
        <5>1. w.objects[x] = p
          BY <1>1, <1>3, <4>2
        <5>2. p.kind = s.objects[x].kind /\ p.length = s.objects[x].length
          BY <1>1, <4>2 DEF Mirrors
        <5> QED BY <5>1, <5>2 DEF storage_slot_count
      <4> QED BY <4>1, <4>2
    <3> DEFINE n == Size(h)
               a == w.objects
               b == s.objects
    <3>3. SameWidths(n, a, b, live)
      BY <1>7, <3>1, <3>2 DEF SameWidths
    <3> HIDE DEF live, n, a, b
    <3>4. Destinations(a, live) = Destinations(b, live)
      BY ONLY <3>3, SameDestinations
    <3> QED BY <3>4 DEF live, a, b
  <2>2. SnapshotIsPlanned(h, w)
    BY <1>2, <1>3, <2>1 DEF SnapshotIsPlanned
  <2> QED BY <1>3, <2>2, PlannedByPlan
<1>9. ASSUME NEW i \in DOMAIN g.plan
      PROVE  Mirrors(g, g.objects[Base(g, i)], w.objects[Source(g, i)])
  <2>1. CASE i = j
    <3>1. g.objects[slot] = q /\ w.objects[twin] = p
      BY <1>1, <1>3 DEF Headers
    <3> QED BY <1>1, <1>4, <1>5, <1>6, <2>1, <3>1
  <2>2. CASE i # j
    <3>1. Base(h, i) # slot /\ Source(h, i) # twin
      BY <1>1, <1>2, <1>3, <2>2, SourcesDiffer
    <3>2. g.objects[Base(h, i)] = h.objects[Base(h, i)] /\ w.objects[Source(h, i)] = s.objects[Source(h, i)]
      BY <1>3, <3>1
    <3>3. Mirrors(h, h.objects[Base(h, i)], s.objects[Source(h, i)])
      BY <1>2, <1>3 DEF SnapshotMirrors
    <3> QED BY <1>4, <1>5, <1>6, <3>2, <3>3
  <2> QED BY <2>1, <2>2
<1>10. w.objects \in [DOMAIN g.objects -> Objects \cup {None}]
  <2>1. s.objects \in [DOMAIN h.objects -> Objects \cup {None}]
    BY <1>2 DEF SnapshotMirrors
  <2> DEFINE V == Objects \cup {None}
  <2>2. p \in V
    OBVIOUS
  <2> HIDE DEF V
  <2> QED BY <1>3, <1>7, <2>1, <2>2 DEF V
<1>11. ASSUME NEW t \in DOMAIN g.objects PROVE w.objects[t] # None <=> t \in Sources(g)
  <2>1. w.objects[t] # None <=> s.objects[t] # None
    <3>1. p # None
      BY NoneAssumption
    <3>2. s.objects[twin] # None
      BY <1>1, NoneAssumption
    <3> QED BY <1>3, <1>7, <3>1, <3>2
  <2>2. s.objects[t] # None <=> t \in Sources(h)
    BY <1>2, <1>7 DEF SnapshotMirrors
  <2> QED BY <1>4, <2>1, <2>2
<1>12. SnapshotMirrors(g, w)
  <2>1. /\ DOMAIN s = {"objects", "generations", "weak_refs", "intern_table", "ephemerons"}
        /\ s.generations \in [DOMAIN h.objects -> Nat]
        /\ \A t \in DOMAIN h.objects :
             (\A i \in 1 .. h.cursor : Destination(h, i) # t) => h.generations[t] = s.generations[t]
        /\ s.weak_refs = SourceIds(h, h.weak_refs) /\ s.intern_table = SourceIds(h, h.intern_table)
        /\ s.ephemerons = SourceIds(h, h.ephemerons)
    BY <1>2 DEF SnapshotMirrors
  <2>2. /\ DOMAIN w = {"objects", "generations", "weak_refs", "intern_table", "ephemerons"}
        /\ w.generations \in [DOMAIN g.objects -> Nat]
        /\ w.weak_refs = SourceIds(g, g.weak_refs) /\ w.intern_table = SourceIds(g, g.intern_table)
        /\ w.ephemerons = SourceIds(g, g.ephemerons)
    <3>1. DOMAIN w = {"objects", "generations", "weak_refs", "intern_table", "ephemerons"}
      BY <1>3, <2>1
    <3>2. w.generations \in [DOMAIN g.objects -> Nat]
      BY <1>3, <1>7, <2>1
    <3>3. w.weak_refs = SourceIds(g, g.weak_refs) /\ w.intern_table = SourceIds(g, g.intern_table)
      BY <1>3, <1>4, <2>1
    <3>4. w.ephemerons = SourceIds(g, g.ephemerons)
      BY <1>3, <1>4, <2>1
    <3> QED BY <3>1, <3>2, <3>3, <3>4
  <2>3. \A t \in DOMAIN g.objects :
          (\A i \in 1 .. g.cursor : Destination(g, i) # t) => g.generations[t] = w.generations[t]
    BY <1>3, <1>4, <1>7, <2>1
  <2> QED BY <1>9, <1>10, <1>11, <2>2, <2>3 DEF SnapshotMirrors
<1>13. ASSUME NEW i \in 1 .. g.cursor PROVE g.objects[Destination(g, i)].age = "Old"
  <2>1. h.objects[Destination(h, i)].age = "Old"
    BY <1>2, <1>3 DEF MovedAreOld
  <2>2. CASE Destination(h, i) = slot
    <3>1. g.objects[slot] = q
      BY <1>1, <1>3 DEF Headers
    <3> QED BY <1>4, <2>1, <2>2, <3>1
  <2>3. CASE Destination(h, i) # slot
    BY <1>3, <1>4, <2>1, <2>3
  <2> QED BY <2>2, <2>3
<1> QED BY <1>8, <1>12, <1>13 DEF ShadowInv, MovedAreOld, w

\* The same store for the object o and for its twin t.
Twinned(h, o, q, p) ==
  /\ q \in Objects /\ q.kind = o.kind /\ q.length = o.length /\ q.age = o.age
  /\ p \in Objects /\ Mirrors(h, q, p)

LEMMA StoredNames ==
  ASSUME NEW h, HeapIsTyped(h), NEW values \in Seq(Values), NEW i \in DOMAIN values, NEW v \in Values,
         NEW n, n = normalize_incremental_compaction_shadow_value(h, v),
         NEW names, names = SourceNames(h, values)
  PROVE  /\ [values EXCEPT ![i] = v] \in Seq(Values) /\ [names EXCEPT ![i] = n] \in Seq(Values)
         /\ SourceNames(h, [values EXCEPT ![i] = v]) = [names EXCEPT ![i] = n]
<1>1. names \in Seq(Values) /\ DOMAIN names = DOMAIN values
  BY SourceNamesAreValues
<1>2. n \in Values
  BY SourceIsValue
<1>3. i \in 1 .. Len(values) /\ i \in 1 .. Len(names)
  BY <1>1, LenProperties
<1>4. [values EXCEPT ![i] = v] \in Seq(Values) /\ [names EXCEPT ![i] = n] \in Seq(Values)
  BY <1>1, <1>2, <1>3, ExceptSeq
<1>5. SourceNames(h, [values EXCEPT ![i] = v]) = [names EXCEPT ![i] = n]
  BY DEF SourceNames
<1> QED BY <1>4, <1>5

LEMMA FieldTwinned ==
  ASSUME NEW h, HeapIsTyped(h), NEW o \in Objects, NEW t \in Objects, Mirrors(h, o, t),
         NEW i \in DOMAIN o.strong, NEW v \in Values,
         NEW n, n = normalize_incremental_compaction_shadow_value(h, v),
         NEW q, q = [o EXCEPT !.strong[i] = v], NEW p, p = [t EXCEPT !.strong[i] = n]
  PROVE  Twinned(h, o, q, p)
<1> DEFINE a == [o.strong EXCEPT ![i] = v]
           b == [t.strong EXCEPT ![i] = n]
<1>1. o.strong \in Seq(Values) /\ t.strong = SourceNames(h, o.strong)
  BY ObjectFields DEF Mirrors
<1>2. a \in Seq(Values) /\ b \in Seq(Values) /\ SourceNames(h, a) = b
  BY <1>1, StoredNames
<1>3. q = [o EXCEPT !.strong = a] /\ p = [t EXCEPT !.strong = b]
  OBVIOUS
<1> HIDE DEF a, b
<1>4. /\ q \in Objects /\ q.kind = o.kind /\ q.length = o.length /\ q.age = o.age
      /\ q.data = o.data /\ q.text = o.text /\ q.strong = a /\ q.soft = o.soft
  BY <1>2, <1>3 DEF Objects
<1>5. /\ p \in Objects /\ p.kind = t.kind /\ p.length = t.length
      /\ p.data = t.data /\ p.text = t.text /\ p.strong = b /\ p.soft = t.soft
  BY <1>2, <1>3 DEF Objects
<1> QED BY <1>2, <1>4, <1>5 DEF Twinned, Mirrors

LEMMA SoftTwinned ==
  ASSUME NEW h, HeapIsTyped(h), NEW o \in Objects, NEW t \in Objects, Mirrors(h, o, t),
         NEW i \in DOMAIN o.soft, NEW v \in Values,
         NEW n, n = normalize_incremental_compaction_shadow_value(h, v),
         NEW q, q = [o EXCEPT !.soft[i] = v], NEW p, p = [t EXCEPT !.soft[i] = n]
  PROVE  Twinned(h, o, q, p)
<1> DEFINE a == [o.soft EXCEPT ![i] = v]
           b == [t.soft EXCEPT ![i] = n]
<1>1. o.soft \in Seq(Values) /\ t.soft = SourceNames(h, o.soft)
  BY ObjectFields DEF Mirrors
<1>2. a \in Seq(Values) /\ b \in Seq(Values) /\ SourceNames(h, a) = b
  BY <1>1, StoredNames
<1>3. q = [o EXCEPT !.soft = a] /\ p = [t EXCEPT !.soft = b]
  OBVIOUS
<1> HIDE DEF a, b
<1>4. /\ q \in Objects /\ q.kind = o.kind /\ q.length = o.length /\ q.age = o.age
      /\ q.data = o.data /\ q.text = o.text /\ q.strong = o.strong /\ q.soft = a
  BY <1>2, <1>3 DEF Objects
<1>5. /\ p \in Objects /\ p.kind = t.kind /\ p.length = t.length
      /\ p.data = t.data /\ p.text = t.text /\ p.strong = t.strong /\ p.soft = b
  BY <1>2, <1>3 DEF Objects
<1> QED BY <1>2, <1>4, <1>5 DEF Twinned, Mirrors

LEMMA TextTwinned ==
  ASSUME NEW h, NEW o \in Objects, NEW t \in Objects, Mirrors(h, o, t), NEW text \in Seq(Chunks),
         NEW q, NEW p,
         \/ q = [o EXCEPT !.text = text] /\ p = [t EXCEPT !.text = text]
         \/ /\ q = [o EXCEPT !.text = text, !.length = o.length]
            /\ p = [t EXCEPT !.text = text, !.length = o.length]
  PROVE  Twinned(h, o, q, p)
<1>1. /\ q \in Objects /\ q.kind = o.kind /\ q.length = o.length /\ q.age = o.age
      /\ q.data = o.data /\ q.text = text /\ q.strong = o.strong /\ q.soft = o.soft
  BY DEF Objects
<1>2. /\ p \in Objects /\ p.kind = t.kind /\ p.length = o.length
      /\ p.data = t.data /\ p.text = text /\ p.strong = t.strong /\ p.soft = t.soft
  BY DEF Objects, Mirrors
<1> QED BY <1>1, <1>2 DEF Twinned, Mirrors

\* A store whose twin is stored alike keeps the snapshot true.
LEMMA TwinStored ==
  ASSUME NEW h, LayoutInv(h), ShadowInv(h), NEW owner \in Ids, Resolves(h, owner),
         NEW slot, slot = checked_slot(h, owner),
         NEW twin, twin = incremental_compaction_shadow_slot(h, owner), NEW q, NEW p,
         h.phase = "compacting" => Twinned(h, h.objects[slot], q, p),
         NEW g, g = StoredIn(h, slot, q, twin, p), g.phase = h.phase
  PROVE  ShadowInv(g)
<1>1. CASE h.phase # "compacting"
  BY <1>1 DEF ShadowInv
<1>2. CASE h.phase = "compacting"
  BY <1>2, StoredShadows DEF Twinned
<1> QED BY <1>1, <1>2

LEMMA PublishedShadows ==
  ASSUME NEW h, LayoutInv(h), ShadowInv(h), NEW owner \in Ids, Resolves(h, owner),
         NEW shaded, shaded \subseteq Values, NEW published,
         NEW b, b = Barriers(h, owner, shaded, published),
         NEW slot, slot = checked_slot(b, owner),
         NEW twin, twin = incremental_compaction_shadow_slot(b, owner),
         NEW q, Replaces(h, slot, q), NEW p,
         h.phase = "compacting" => Twinned(b, b.objects[slot], q, p),
         NEW triggered, NEW roots \in Seq(Values),
         NEW g, g = MinorAfterBarrier(StoredIn(b, slot, q, twin, p), triggered, roots)
  PROVE  ShadowInv(g)
<1> DEFINE k == StoredIn(b, slot, q, twin, p)
           minor == "Minor"
<1>1. BarredAs(h, b)
  BY BarriersKeep
<1>2. Replaces(b, slot, q)
  <2>1. /\ \A v : Resolves(b, v) <=> Resolves(h, v)
        /\ Headers(b) = Headers(h) /\ Size(b) = Size(h) /\ b.objects = h.objects /\ b.phase = h.phase
    BY <1>1, SamePlacesResolve DEF BarredAs, SamePlaces, LayoutInv
  <2>2. Width(b, slot) = Width(h, slot)
    BY <2>1 DEF Width
  <2> QED BY <2>1, <2>2 DEF Replaces
<1>3. LayoutInv(b) /\ b.phase = h.phase /\ Resolves(b, owner)
  BY <1>1, SamePlacesResolve DEF BarredAs, LayoutInv
<1>4. ShadowInv(b)
  <2>1. SameCycle(h, b)
    BY BarriersLeave DEF LayoutInv, HeapIsTyped
  <2> QED BY <2>1, SameCycleShadows
<1>5. k = StoredIn(b, slot, q, twin, p) /\ g = MinorAfterBarrier(k, triggered, roots)
  OBVIOUS
<1> HIDE DEF k
<1>6. LayoutInv(k) /\ MutatedAs(b, slot, q, k)
  BY <1>2, <1>3, <1>5, StoredKeeps
<1>7. CASE triggered /\ "barrier" \in k.stress
  <2>1. g = collect_with_extra_roots(k, roots, minor)
    BY <1>5, <1>7 DEF MinorAfterBarrier
  <2> HIDE DEF minor
  <2>2. /\ LayoutInv(g) /\ g.phase = "idle" /\ g.allocated = k.allocated /\ g.stress = k.stress
        /\ Carries([k EXCEPT !.extra = roots], g)
    BY <1>6, <2>1, CollectWithRootsKeeps
  <2> QED BY <2>2 DEF ShadowInv
<1>8. CASE ~(triggered /\ "barrier" \in k.stress)
  <2>1. g = k /\ k.phase = b.phase
    BY <1>5, <1>6, <1>8 DEF MinorAfterBarrier, MutatedAs
  <2>2. b.phase = "compacting" => Twinned(b, b.objects[slot], q, p)
    BY <1>3
  <2> QED BY <1>3, <1>4, <1>5, <2>1, <2>2, TwinStored
<1> QED BY <1>7, <1>8

\* The twin of the owner that a store finds behind its barriers.
FindsTwin(h, b, slot, twin) ==
  /\ HeapIsTyped(b) /\ b.objects[slot] \in Objects /\ b.shadow.objects[twin] \in Objects
  /\ Mirrors(b, b.objects[slot], b.shadow.objects[twin])
  /\ \A v : normalize_incremental_compaction_shadow_value(b, v)
              = normalize_incremental_compaction_shadow_value(h, v)

LEMMA BarredTwin ==
  ASSUME NEW h, LayoutInv(h), ShadowInv(h), NEW owner \in Ids, Resolves(h, owner), h.phase = "compacting",
         NEW shaded, shaded \subseteq Values, NEW published,
         NEW b, b = Barriers(h, owner, shaded, published),
         NEW slot, slot = checked_slot(b, owner),
         NEW twin, twin = incremental_compaction_shadow_slot(b, owner)
  PROVE  FindsTwin(h, b, slot, twin)
<1>1. BarredAs(h, b)
  BY BarriersKeep
<1>2. LayoutInv(b) /\ b.phase = h.phase /\ Resolves(b, owner)
  BY <1>1, SamePlacesResolve DEF BarredAs, LayoutInv
<1>3. SameCycle(h, b)
  BY BarriersLeave DEF LayoutInv, HeapIsTyped
<1>4. ShadowInv(b)
  BY <1>3, SameCycleShadows
<1>5. \A v : normalize_incremental_compaction_shadow_value(b, v)
               = normalize_incremental_compaction_shadow_value(h, v)
  BY <1>3, SourceByPlan DEF SameCycle
<1>6. \E j \in DOMAIN b.plan :
        /\ slot = Base(b, j) /\ twin = Source(b, j)
        /\ b.objects[Base(b, j)] \in Objects /\ b.shadow.objects[Source(b, j)] \in Objects
        /\ Mirrors(b, b.objects[Base(b, j)], b.shadow.objects[Source(b, j)])
  BY <1>2, <1>4, TwinIs
<1> QED BY <1>2, <1>5, <1>6 DEF LayoutInv, FindsTwin

LEMMA StoreFieldShadows ==
  ASSUME NEW h, LayoutInv(h), ShadowInv(h), NEW owner \in Ids, Resolves(h, owner),
         NEW i \in DOMAIN ObjectOf(h, owner).strong, NEW value \in Values,
         NEW g, g = store_field(h, owner, i, value)
  PROVE  ShadowInv(g)
<1> DEFINE v == canonicalize_incremental_compaction_read(h, value)
           n == normalize_incremental_compaction_shadow_value(h, v)
           shaded == {v}
           b == Barriers(h, owner, shaded, shaded)
           slot == checked_slot(b, owner)
           twin == incremental_compaction_shadow_slot(b, owner)
           q == [b.objects[slot] EXCEPT !.strong[i] = v]
           p == [b.shadow.objects[twin] EXCEPT !.strong[i] = n]
           roots == IF ObjectOf(h, owner).kind = "Record" THEN <<owner, v>> ELSE <<>>
           triggered == BarrierTriggered(h, owner, {v})
<1>1. g = MinorAfterBarrier(StoredIn(b, slot, q, twin, p), triggered, roots)
  BY DEF store_field, Mutated, StoredIn
<1>2. v \in Values /\ shaded \subseteq Values
  BY CanonicalReference
<1>3. b = Barriers(h, owner, shaded, shaded) /\ slot = checked_slot(b, owner)
      /\ twin = incremental_compaction_shadow_slot(b, owner)
      /\ q = [b.objects[slot] EXCEPT !.strong[i] = v]
      /\ p = [b.shadow.objects[twin] EXCEPT !.strong[i] = n]
      /\ n = normalize_incremental_compaction_shadow_value(h, v)
  OBVIOUS
<1>4. roots \in Seq(Values)
  BY <1>2, IdsAreReferences
<1> HIDE DEF v, n, shaded, b, slot, twin, q, p, roots, triggered
<1>5. slot = checked_slot(h, owner) /\ b.objects[slot] = ObjectOf(h, owner)
  <2>1. BarredAs(h, b)
    BY <1>2, <1>3, BarriersKeep
  <2> QED BY <1>3, <2>1, BarredObject DEF ObjectOf
<1>6. Replaces(h, slot, q)
  <2>1. checked_slot(h, owner) \in Headers(h)
    BY IdsAreReferences, ResolvedObject
  <2> QED BY <1>2, <1>3, <1>5, <2>1, FieldReplaces DEF ObjectOf
<1>7. h.phase = "compacting" => Twinned(b, b.objects[slot], q, p)
  <2> SUFFICES ASSUME h.phase = "compacting" PROVE Twinned(b, b.objects[slot], q, p)
    OBVIOUS
  <2>1. FindsTwin(h, b, slot, twin)
    BY <1>2, <1>3, BarredTwin
  <2>2. n = normalize_incremental_compaction_shadow_value(b, v) /\ i \in DOMAIN b.objects[slot].strong
    BY <1>3, <1>5, <2>1 DEF FindsTwin
  <2> QED BY <1>2, <1>3, <2>1, <2>2, FieldTwinned DEF FindsTwin
<1> QED BY <1>1, <1>2, <1>3, <1>4, <1>6, <1>7, PublishedShadows

LEMMA StoreEphemeronShadows ==
  ASSUME NEW h, LayoutInv(h), ShadowInv(h), NEW owner \in Ids, Resolves(h, owner),
         ObjectOf(h, owner).kind = "Ephemeron", is_object(ObjectOf(h, owner).soft[1]),
         NEW value \in Values, is_object(value) => Resolves(h, value),
         NEW g, g = store_ephemeron_value(h, owner, value)
  PROVE  ShadowInv(g)
<1> DEFINE v == canonicalize_incremental_compaction_read(h, value)
           n == normalize_incremental_compaction_shadow_value(h, v)
           shaded == {v}
           b == Barriers(h, owner, shaded, shaded)
           slot == checked_slot(b, owner)
           twin == incremental_compaction_shadow_slot(b, owner)
           q == [b.objects[slot] EXCEPT !.soft[2] = v]
           p == [b.shadow.objects[twin] EXCEPT !.soft[2] = n]
           roots == <<owner, v>>
           triggered == BarrierTriggered(h, owner, {v})
<1>1. g = MinorAfterBarrier(StoredIn(b, slot, q, twin, p), triggered, roots)
  BY DEF store_ephemeron_value, Mutated, StoredIn
<1>2. v \in Values /\ (is_object(v) => Resolves(h, v)) /\ shaded \subseteq Values
  BY CanonicalReference
<1>3. b = Barriers(h, owner, shaded, shaded) /\ slot = checked_slot(b, owner)
      /\ twin = incremental_compaction_shadow_slot(b, owner)
      /\ q = [b.objects[slot] EXCEPT !.soft[2] = v]
      /\ p = [b.shadow.objects[twin] EXCEPT !.soft[2] = n]
      /\ n = normalize_incremental_compaction_shadow_value(h, v)
  OBVIOUS
<1>4. roots \in Seq(Values)
  BY <1>2, IdsAreReferences
<1> HIDE DEF v, n, shaded, b, slot, twin, q, p, roots, triggered
<1>5. slot = checked_slot(h, owner) /\ b.objects[slot] = ObjectOf(h, owner)
  <2>1. BarredAs(h, b)
    BY <1>2, <1>3, BarriersKeep
  <2> QED BY <1>3, <2>1, BarredObject DEF ObjectOf
<1>6. Replaces(h, slot, q)
  <2>1. checked_slot(h, owner) \in Headers(h)
    BY IdsAreReferences, ResolvedObject
  <2> QED BY <1>2, <1>3, <1>5, <2>1, EphemeronReplaces DEF ObjectOf
<1>7. h.phase = "compacting" => Twinned(b, b.objects[slot], q, p)
  <2> SUFFICES ASSUME h.phase = "compacting" PROVE Twinned(b, b.objects[slot], q, p)
    OBVIOUS
  <2>1. FindsTwin(h, b, slot, twin)
    BY <1>2, <1>3, BarredTwin
  <2>2. n = normalize_incremental_compaction_shadow_value(b, v) /\ 2 \in DOMAIN b.objects[slot].soft
    <3>1. n = normalize_incremental_compaction_shadow_value(b, v)
      BY <1>3, <2>1 DEF FindsTwin
    <3>2. slot \in Headers(h) /\ b.objects[slot] = h.objects[slot]
      BY <1>5, <1>6 DEF Replaces, ObjectOf
    <3>3. validate_descriptor_shape(b.objects[slot]) /\ b.objects[slot].soft \in Seq(Values)
      BY <2>1, <3>2, ObjectFields DEF FindsTwin, LayoutInv, RunsFollow
    <3>4. Len(b.objects[slot].soft) = 2
      BY <1>5, <3>3 DEF validate_descriptor_shape, EphemeronAndBuilderShape
    <3> QED BY <3>1, <3>3, <3>4, LenProperties
  <2> QED BY <1>2, <1>3, <2>1, <2>2, SoftTwinned DEF FindsTwin
<1> QED BY <1>1, <1>2, <1>3, <1>4, <1>6, <1>7, PublishedShadows

LEMMA UpdateMapShadows ==
  ASSUME NEW h, LayoutInv(h), ShadowInv(h), NEW owner \in Ids, Resolves(h, owner),
         NEW entry, 2 * entry \in DOMAIN ObjectOf(h, owner).strong,
         NEW key \in Values, NEW value \in Values,
         NEW g, g = update_map_entry(h, owner, entry, key, value)
  PROVE  ShadowInv(g)
<1> DEFINE k == canonicalize_incremental_compaction_read(h, key)
           v == canonicalize_incremental_compaction_read(h, value)
           n == normalize_incremental_compaction_shadow_value(h, v)
           shaded == {k, v}
           published == {v}
           b == Barriers(h, owner, shaded, published)
           slot == checked_slot(b, owner)
           twin == incremental_compaction_shadow_slot(b, owner)
           q == [b.objects[slot] EXCEPT !.strong[2 * entry] = v]
           p == [b.shadow.objects[twin] EXCEPT !.strong[2 * entry] = n]
           roots == <<owner, k, v>>
           triggered == BarrierTriggered(h, owner, {v})
<1>1. g = MinorAfterBarrier(StoredIn(b, slot, q, twin, p), triggered, roots)
  BY DEF update_map_entry, Mutated, StoredIn
<1>2. v \in Values /\ k \in Values /\ shaded \subseteq Values
  BY CanonicalReference
<1>3. b = Barriers(h, owner, shaded, published) /\ slot = checked_slot(b, owner)
      /\ twin = incremental_compaction_shadow_slot(b, owner)
      /\ q = [b.objects[slot] EXCEPT !.strong[2 * entry] = v]
      /\ p = [b.shadow.objects[twin] EXCEPT !.strong[2 * entry] = n]
      /\ n = normalize_incremental_compaction_shadow_value(h, v)
  OBVIOUS
<1>4. roots \in Seq(Values)
  BY <1>2, IdsAreReferences
<1> HIDE DEF k, v, n, shaded, published, b, slot, twin, q, p, roots, triggered
<1>5. slot = checked_slot(h, owner) /\ b.objects[slot] = ObjectOf(h, owner)
  <2>1. BarredAs(h, b)
    BY <1>2, <1>3, BarriersKeep
  <2> QED BY <1>3, <2>1, BarredObject DEF ObjectOf
<1>6. Replaces(h, slot, q)
  <2>1. checked_slot(h, owner) \in Headers(h)
    BY IdsAreReferences, ResolvedObject
  <2> QED BY <1>2, <1>3, <1>5, <2>1, FieldReplaces DEF ObjectOf
<1>7. h.phase = "compacting" => Twinned(b, b.objects[slot], q, p)
  <2> SUFFICES ASSUME h.phase = "compacting" PROVE Twinned(b, b.objects[slot], q, p)
    OBVIOUS
  <2>1. FindsTwin(h, b, slot, twin)
    BY <1>2, <1>3, BarredTwin
  <2>2. n = normalize_incremental_compaction_shadow_value(b, v) /\ 2 * entry \in DOMAIN b.objects[slot].strong
    BY <1>3, <1>5, <2>1 DEF FindsTwin
  <2> QED BY <1>2, <1>3, <2>1, <2>2, FieldTwinned DEF FindsTwin
<1> QED BY <1>1, <1>2, <1>3, <1>4, <1>6, <1>7, PublishedShadows

LEMMA StoreScalarsShadows ==
  ASSUME NEW h, LayoutInv(h), ShadowInv(h), NEW owner \in Values, Resolves(h, owner),
         ObjectOf(h, owner).kind \in {"Builder", "ScalarArray"}, NEW text \in Seq(Chunks),
         ObjectOf(h, owner).kind = "Builder" => text = <<>>,
         NEW g, g = store_scalars(h, owner, text)
  PROVE  ShadowInv(g)
<1> DEFINE slot == checked_slot(h, owner)
           twin == incremental_compaction_shadow_slot(h, owner)
           q == [h.objects[slot] EXCEPT !.text = text]
           p == [h.shadow.objects[twin] EXCEPT !.text = text]
<1>1. g = StoredIn(h, slot, q, twin, p)
  BY DEF store_scalars, Mutated, StoredIn
<1>2. Retexted(h, checked_slot(h, owner), text, g)
  BY StoreScalarsKeeps
<1>3. g.phase = h.phase
  BY <1>2 DEF Retexted, MutatedAs
<1>4. owner \in Ids
  BY ResolvedObject
<1>5. /\ slot = checked_slot(h, owner) /\ twin = incremental_compaction_shadow_slot(h, owner)
      /\ q = [h.objects[slot] EXCEPT !.text = text] /\ p = [h.shadow.objects[twin] EXCEPT !.text = text]
  OBVIOUS
<1> HIDE DEF slot, twin, q, p
<1>6. h.phase = "compacting" => Twinned(h, h.objects[slot], q, p)
  <2> SUFFICES ASSUME h.phase = "compacting" PROVE Twinned(h, h.objects[slot], q, p)
    OBVIOUS
  <2>1. PICK j \in DOMAIN h.plan :
          /\ slot = Base(h, j) /\ twin = Source(h, j)
          /\ h.objects[Base(h, j)] \in Objects /\ h.shadow.objects[Source(h, j)] \in Objects
          /\ Mirrors(h, h.objects[Base(h, j)], h.shadow.objects[Source(h, j)])
    BY <1>4, <1>5, TwinIs
  <2> QED BY <1>5, <2>1, TextTwinned
<1> QED BY <1>1, <1>3, <1>4, <1>5, <1>6, TwinStored

LEMMA AppendShadows ==
  ASSUME NEW h, LayoutInv(h), ShadowInv(h), 1 \in DOMAIN h.extra, Resolves(h, h.extra[1]),
         NEW length, length = ObjectOf(h, h.extra[1]).length, NEW text \in Seq(Chunks),
         NEW g, g = Appended(h, text, length), g.phase = h.phase
  PROVE  ShadowInv(g)
<1> DEFINE owner == h.extra[1]
           slot == checked_slot(h, owner)
           twin == incremental_compaction_shadow_slot(h, owner)
           q == [h.objects[slot] EXCEPT !.text = text, !.length = length]
           p == [h.shadow.objects[twin] EXCEPT !.text = text, !.length = length]
<1>1. g = StoredIn(h, slot, q, twin, p)
  BY DEF Appended
<1>2. owner \in Ids
  <2>1. h.extra[1] \in Values
    BY DEF LayoutInv, HeapIsTyped
  <2> QED BY <2>1, ResolvedObject
<1>3. /\ slot = checked_slot(h, owner) /\ twin = incremental_compaction_shadow_slot(h, owner)
      /\ q = [h.objects[slot] EXCEPT !.text = text, !.length = length]
      /\ p = [h.shadow.objects[twin] EXCEPT !.text = text, !.length = length]
      /\ length = h.objects[slot].length /\ Resolves(h, owner)
  BY DEF ObjectOf
<1> HIDE DEF owner, slot, twin, q, p
<1>4. h.phase = "compacting" => Twinned(h, h.objects[slot], q, p)
  <2> SUFFICES ASSUME h.phase = "compacting" PROVE Twinned(h, h.objects[slot], q, p)
    OBVIOUS
  <2>1. PICK j \in DOMAIN h.plan :
          /\ slot = Base(h, j) /\ twin = Source(h, j)
          /\ h.objects[Base(h, j)] \in Objects /\ h.shadow.objects[Source(h, j)] \in Objects
          /\ Mirrors(h, h.objects[Base(h, j)], h.shadow.objects[Source(h, j)])
    BY <1>2, <1>3, TwinIs
  <2> QED BY <1>3, <2>1, TextTwinned
<1> QED BY <1>1, <1>2, <1>3, <1>4, TwinStored


\* Neither growth nor an append changes the phase.
LEMMA GrowthPhase ==
  ASSUME NEW h, DOMAIN h = HeapFields, NEW width, NEW g, g = ensure_growth_storage(h, width)
  PROVE  DOMAIN g = HeapFields /\ g.phase = h.phase
<1>1. \A k, mo, mg, f : k = InstallMovement(h, mo, mg, f) => DOMAIN k = HeapFields /\ k.phase = h.phase
  BY DEF InstallMovement, trace_collection_roots, HeapFields
<1>2. \A k, n : k = Resized(h, n) => DOMAIN k = HeapFields /\ k.phase = h.phase
  BY DEF Resized, HeapFields
<1>3. (\E n : g = Resized(h, n)) \/ g = relocate_for_growth(h, width)
  BY DEF ensure_growth_storage
<1>4. g = relocate_for_growth(h, width) => \E mo, mg, f : g = InstallMovement(h, mo, mg, f)
  BY DEF relocate_for_growth
<1> QED BY <1>1, <1>2, <1>3, <1>4

LEMMA AppendedPhase ==
  ASSUME NEW h, DOMAIN h = HeapFields, NEW text, NEW length, NEW g, g = Appended(h, text, length)
  PROVE  g.phase = h.phase
<1>1. \A slot, q, twin, p, k : k = StoredIn(h, slot, q, twin, p) => k.phase = h.phase
  BY DEF StoredIn, HeapFields
<1> QED BY <1>1 DEF Appended

LEMMA BuilderAppendShadows ==
  ASSUME NEW h, LayoutInv(h), ShadowInv(h), NEW owner \in Values, Resolves(h, owner),
         ObjectOf(h, owner).kind = "Builder", NEW source \in Values, Resolves(h, source),
         NEW g, g = builder_append(h, owner, source)
  PROVE  ShadowInv(g)
<1> DEFINE o == canonicalize_incremental_compaction_read(h, owner)
           v == canonicalize_incremental_compaction_read(h, source)
           start == [h EXCEPT !.extra = <<o, v>>]
           text == AppendedText(start)
           required == kStorageSlotBytes * Len(text)
           capacity == ObjectOf(start, start.extra[1]).length
           ready == CompactionFinished(start)
           larger == builder_capacity_for_required(capacity, required)
           width == 1 + Slots(larger)
           grown == ensure_growth_storage(ready, width)
<1>1. g = IF required > capacity THEN Appended(grown, AppendedText(grown), larger)
          ELSE Appended(start, AppendedText(start), capacity)
  BY DEF builder_append, Mutated, StoredIn, Appended, AppendedText
<1>2. o \in Values /\ Resolves(h, o) /\ v \in Values /\ Resolves(h, v)
  BY CanonicalReference
<1> HIDE DEF o, v
<1> DEFINE operands == <<o, v>>
<1>3. operands \in Seq(Values) /\ start = [h EXCEPT !.extra = operands]
  BY <1>2
<1>a. operands[1] = o /\ operands[2] = v /\ Len(operands) = 2
  OBVIOUS
<1> HIDE DEF operands
<1>4. /\ text = AppendedText(start) /\ capacity = ObjectOf(start, start.extra[1]).length
      /\ ready = CompactionFinished(start) /\ grown = ensure_growth_storage(ready, width)
  OBVIOUS
<1> HIDE DEF start, text, required, capacity, ready, larger, width, grown
<1>5. /\ LayoutInv(start) /\ SamePlaces(h, start) /\ SameButOperands(h, start)
      /\ start.extra = operands
  BY <1>3, RootedKeeps
<1>6. SameCycle(h, start)
  BY <1>5 DEF SamePlaces, SameButOperands, SameCycle
<1>7. ShadowInv(start)
  BY <1>6, SameCycleShadows
<1>8. CASE required > capacity
  <2>1. LayoutInv(ready) /\ ready.phase # "compacting"
    BY <1>4, <1>5, CompactionFinishedKeeps
  <2>2. DOMAIN grown = HeapFields /\ grown.phase = ready.phase
    BY <1>4, <2>1, GrowthPhase DEF LayoutInv, HeapIsTyped
  <2>3. g.phase = grown.phase
    BY <1>1, <1>8, <2>2, AppendedPhase
  <2> QED BY <2>1, <2>2, <2>3 DEF ShadowInv
<1>9. CASE ~(required > capacity)
  <2>1. g = Appended(start, text, capacity)
    BY <1>1, <1>4, <1>9
  <2>2. DOMAIN operands = 1 .. 2
    BY <1>3, <1>a, LenProperties
  <2>3. 1 \in DOMAIN start.extra /\ 2 \in DOMAIN start.extra /\ start.extra[1] = o /\ start.extra[2] = v
    BY <1>5, <1>a, <2>2
  <2>4. Resolves(start, o) /\ Resolves(start, v)
    BY <1>2, <1>5, SamePlacesResolve DEF LayoutInv
  <2>5. text \in Seq(Chunks)
    <3>1. ObjectOf(start, o) \in Objects /\ ObjectOf(start, v) \in Objects
      BY <1>2, <1>5, <2>4, ResolvedObject
    <3>2. ObjectOf(start, o).text \in Seq(Chunks) /\ ObjectOf(start, v).text \in Seq(Chunks)
      BY <3>1, ObjectFields
    <3> QED BY <1>4, <2>3, <3>2, ConcatProperties DEF AppendedText
  <2>6. g.phase = start.phase
    BY <1>5, <2>1, AppendedPhase DEF LayoutInv, HeapIsTyped
  <2> QED BY <1>4, <1>5, <1>7, <2>1, <2>3, <2>4, <2>5, <2>6, AppendShadows
<1> QED BY <1>8, <1>9

\* Where no compaction is active there is no snapshot to keep.
LEMMA StoredShows ==
  ASSUME NEW h, LayoutInv(h), h.phase # "compacting", NEW owner \in Ids, Resolves(h, owner),
         NEW shaded, NEW published, NEW q, NEW g, StoredAs(h, owner, shaded, published, q, g)
  PROVE  g.phase # "compacting"
<1>1. PICK b, twin, p, triggered, roots :
        /\ b = Barriers(h, owner, shaded, published) /\ shaded \subseteq Values
        /\ Replaces(b, checked_slot(h, owner), q) /\ roots \in Seq(Values)
        /\ g = MinorAfterBarrier(StoredIn(b, checked_slot(h, owner), q, twin, p), triggered, roots)
  BY DEF StoredAs
<1>2. LayoutInv(b) /\ b.phase = h.phase
  BY <1>1, BarriersKeep DEF BarredAs
<1> DEFINE slot == checked_slot(h, owner)
           k == StoredIn(b, slot, q, twin, p)
           minor == "Minor"
<1>3. k = StoredIn(b, slot, q, twin, p) /\ g = MinorAfterBarrier(k, triggered, roots) /\ Replaces(b, slot, q)
  BY <1>1
<1> HIDE DEF k, slot
<1>4. LayoutInv(k) /\ k.phase = b.phase
  <2>1. LayoutInv(k) /\ MutatedAs(b, slot, q, k)
    BY <1>2, <1>3, StoredKeeps
  <2> QED BY <2>1 DEF MutatedAs
<1>5. CASE triggered /\ "barrier" \in k.stress
  <2>1. g = collect_with_extra_roots(k, roots, minor)
    BY <1>3, <1>5 DEF MinorAfterBarrier
  <2> HIDE DEF minor
  <2>2. /\ LayoutInv(g) /\ g.phase = "idle" /\ g.allocated = k.allocated /\ g.stress = k.stress
        /\ Carries([k EXCEPT !.extra = roots], g)
    BY <1>1, <1>4, <2>1, CollectWithRootsKeeps
  <2> QED BY <2>2
<1>6. CASE ~(triggered /\ "barrier" \in k.stress)
  BY <1>2, <1>3, <1>4, <1>6 DEF MinorAfterBarrier
<1> QED BY <1>5, <1>6

LEMMA InsertMapShadows ==
  ASSUME NEW h, LayoutInv(h), NEW owner \in Values, Resolves(h, owner),
         ObjectOf(h, owner).kind = "Map", NEW key \in Values, NEW value \in Values,
         NEW g, g = insert_map_entry(h, owner, key, value)
  PROVE  g.phase # "compacting"
<1>1. PICK operands, width, grown, q :
        /\ operands \in Seq(Values)
        /\ operands = <<owner, key, value>> /\ GrownFor([h EXCEPT !.extra = operands], width, grown)
        /\ EntryAdded(h, operands, grown, q, g)
  <2>1. MapGrown(h, owner, key, value, g)
    BY InsertMapKeeps
  <2> QED BY <2>1 DEF MapGrown
<1> DEFINE start == [h EXCEPT !.extra = operands]
           ready == CompactionFinished(start)
<1>2. /\ LayoutInv(ready) /\ ready.phase # "compacting"
      /\ 1 \in DOMAIN ready.extra /\ Resolves(ready, ready.extra[1])
      /\ width \in Nat \ {0} /\ Width(ready, checked_slot(ready, ready.extra[1])) <= width
      /\ grown = ensure_growth_storage(ready, width)
  BY <1>1 DEF GrownFor
<1> HIDE DEF ready
<1>3. LayoutInv(grown)
  BY <1>2, GrowthKeeps DEF Grown
<1>4. PICK o, k, v : /\ grown.phase # "compacting" /\ o \in Ids /\ Resolves(grown, o)
                     /\ StoredAs(grown, o, {k, v}, {k, v}, q, g)
  BY <1>1 DEF EntryAdded
<1> QED BY <1>3, <1>4, StoredShows


(***************************************************************************)
(* The actions of the state machine.                                       *)
(***************************************************************************)
LEMMA BecomeShadows ==
  ASSUME NEW g, Become(g), ShadowInv(g)
  PROVE  GcShadowInv'
<1> DEFINE h == heap'
<1>1. SameCycle(g, h)
  BY DEF heap, Become, SameCycle
<1>2. h = heap'
  OBVIOUS
<1> HIDE DEF h
<1>3. ShadowInv(h)
  BY <1>1, SameCycleShadows
<1> QED BY <1>2, <1>3 DEF GcShadowInv

LEMMA QuietShadows ==
  ASSUME NEW g, Become(g), g.phase # "compacting"
  PROVE  GcShadowInv'
<1>1. ShadowInv(g)
  BY DEF ShadowInv
<1> QED BY <1>1, BecomeShadows

LEMMA ReturnShadows ==
  ASSUME NEW k, LayoutInv(k), k.phase # "compacting", NEW c, ReturnTo(c, k)
  PROVE  GcShadowInv'
<1> DEFINE g == [k EXCEPT !.cells[c] = k.extra[1]]
<1>1. Become(g)
  BY DEF ReturnTo
<1>2. g.phase = k.phase
  BY DEF LayoutInv, HeapIsTyped, HeapFields
<1> QED BY <1>1, <1>2, QuietShadows

\* The stress configuration of a call is no part of the cycle.
LEMMA StressedShadows ==
  ASSUME GcInv, GcShadowInv, NEW config, NEW h, h = Stressed(config)
  PROVE  LayoutInv(h) /\ ShadowInv(h)
<1>1. StressedAs(config, h)
  BY StressedKeeps DEF GcInv, GcLayoutInv
<1>2. SameCycle(heap, h)
  BY <1>1 DEF StressedAs, SamePlaces, SameButOperands, SameCycle
<1> QED BY <1>1, <1>2, SameCycleShadows DEF StressedAs, GcShadowInv

LEMMA AllocateObjectShadows ==
  ASSUME GcInv, GcShadowInv, AllocateObject
  PROVE  GcShadowInv'
<1> SUFFICES ASSUME NEW config \in host.stress, NEW c \in Registered, NEW shape \in NextShapes,
                    NEW values \in [1 .. shape.refs -> Operands],
                    NEW text \in [1 .. (IF shape.kind = "Str" THEN Slots(shape.length) ELSE 0) -> Chunks],
                    Admissible(shape, values),
                    ReturnTo(c, AllocateFrom(Stressed(config), values,
                                  LAMBDA b : NewObject(b, shape, b.extra, text)))
             PROVE  GcShadowInv'
  BY DEF AllocateObject
<1> DEFINE h == Stressed(config)
           b == StressBeforeAllocation(h, values)
           o == NewObject(b, shape, b.extra, text)
           g == StressAfterAllocation(allocate_object(b, o))
<1>1. ReturnTo(c, g)
  BY DEF AllocateFrom, AllocateIn
<1>2. h = Stressed(config) /\ b = StressBeforeAllocation(h, values)
      /\ o = NewObject(b, shape, b.extra, text) /\ g = StressAfterAllocation(allocate_object(b, o))
  OBVIOUS
<1> HIDE DEF h, b, o, g
<1>3. LayoutInv(heap) /\ host \in Hosts /\ GcLayoutInv
  BY DEF GcInv, GcLayoutInv
<1>4. LayoutInv(h) /\ (\A v : Resolves(h, v) <=> Resolves(heap, v))
  BY <1>2, <1>3, StressedKeeps DEF StressedAs
<1>5. Constructible(shape)
  BY <1>3, NextShapeIs
<1>6. values \in [1 .. shape.refs -> Values]
  BY <1>3, OperandsAreUsable
<1>7. \A i \in 1 .. shape.refs : is_object(values[i]) => Resolves(h, values[i])
  BY <1>3, <1>4, OperandsAreUsable
<1>8. shape.kind = "Ephemeron" => is_object(values[1])
  BY DEF Admissible, is_object
<1> DEFINE n == IF shape.kind = "Str" THEN Slots(shape.length) ELSE 0
<1>9. n \in Nat
  BY <1>5, SlotsOfBytes DEF Constructible
<1>10. text \in [1 .. n -> Chunks] /\ (shape.kind = "Builder" => n = 0)
  OBVIOUS
<1> HIDE DEF n
<1>11. text \in Seq(Chunks) /\ Len(text) = n
  BY <1>9, <1>10, SeqDef, LenProperties
<1>12. shape.kind = "Builder" => text = <<>>
  BY <1>10, <1>11, EmptySeq
<1>13. Given(h, shape, values, text)
  BY <1>5, <1>6, <1>7, <1>8, <1>11, <1>12 DEF Given
<1>14. LayoutInv(b) /\ Fits(b, o)
  BY <1>2, <1>4, <1>13, ConstructorKeeps
<1>15. Allocated(b, o, g)
  BY <1>2, <1>14, ConstructKeeps
<1> QED BY <1>1, <1>15, ReturnShadows DEF Allocated

LEMMA ConcatStringsShadows ==
  ASSUME GcInv, GcShadowInv, ConcatStrings
  PROVE  GcShadowInv'
<1> SUFFICES ASSUME NEW config \in host.stress, NEW c \in Registered,
                    NEW left \in StringOperands, NEW right \in StringOperands,
                    ReturnTo(c, allocate_string_concat(Stressed(config), left, right))
             PROVE  GcShadowInv'
  BY DEF ConcatStrings
<1> DEFINE h == Stressed(config)
           g == allocate_string_concat(h, left, right)
<1>1. ReturnTo(c, g) /\ h = Stressed(config) /\ g = allocate_string_concat(h, left, right)
  OBVIOUS
<1> HIDE DEF h, g
<1>2. LayoutInv(heap)
  BY DEF GcInv, GcLayoutInv
<1>3. StressedAs(config, h)
  BY <1>1, <1>2, StressedKeeps
<1>4. left \in Values /\ Resolves(h, left) /\ right \in Values /\ Resolves(h, right)
  BY <1>2, <1>3, StringsAreUsable DEF StressedAs
<1>5. PICK text : TextAllocated(h, text, g)
  BY <1>1, <1>3, <1>4, ConcatKeeps DEF StressedAs
<1> QED BY <1>1, <1>5, ReturnShadows DEF TextAllocated

LEMMA TakeSubstringShadows ==
  ASSUME GcInv, GcShadowInv, TakeSubstring
  PROVE  GcShadowInv'
<1> SUFFICES ASSUME NEW config \in host.stress, NEW c \in Registered, NEW source \in StringOperands,
                    NEW hi \in 0 .. Len(ObjectOf(heap, source).text), NEW lo \in 0 .. hi,
                    ReturnTo(c, allocate_string_substring(Stressed(config), source, lo, hi))
             PROVE  GcShadowInv'
  BY DEF TakeSubstring
<1> DEFINE h == Stressed(config)
           g == allocate_string_substring(h, source, lo, hi)
<1>1. ReturnTo(c, g) /\ h = Stressed(config) /\ g = allocate_string_substring(h, source, lo, hi)
  OBVIOUS
<1> HIDE DEF h, g
<1>2. LayoutInv(heap)
  BY DEF GcInv, GcLayoutInv
<1>3. StressedAs(config, h)
  BY <1>1, <1>2, StressedKeeps
<1>4. source \in Values /\ Resolves(h, source) /\ hi \in 0 .. Len(ObjectOf(h, source).text)
  BY <1>2, <1>3, StringsAreUsable DEF StressedAs
<1>5. PICK text : TextAllocated(h, text, g)
  BY <1>1, <1>3, <1>4, SubstringKeeps DEF StressedAs
<1> QED BY <1>1, <1>5, ReturnShadows DEF TextAllocated

LEMMA BuilderToStringShadows ==
  ASSUME GcInv, GcShadowInv, BuilderToString
  PROVE  GcShadowInv'
<1> SUFFICES ASSUME NEW config \in host.stress, NEW c \in Registered,
                    NEW builder \in Receivers({"Builder"}),
                    ReturnTo(c, builder_to_string(Stressed(config), builder))
             PROVE  GcShadowInv'
  BY DEF BuilderToString
<1> DEFINE h == Stressed(config)
           g == builder_to_string(h, builder)
           operands == <<builder>>
           still == CompactionFinished([h EXCEPT !.extra = operands])
<1>1. ReturnTo(c, g) /\ h = Stressed(config) /\ g = CopyOperandText(still)
  BY DEF builder_to_string
<1>2. still = CompactionFinished([h EXCEPT !.extra = operands]) /\ operands[1] = builder
  OBVIOUS
<1> HIDE DEF h, g, still
<1>3. LayoutInv(heap) /\ host \in Hosts
  BY DEF GcInv, GcLayoutInv
<1>4. StressedAs(config, h)
  BY <1>1, <1>3, StressedKeeps
<1>5. LayoutInv(h) /\ builder \in Values /\ Resolves(h, builder)
  BY <1>3, <1>4, ReceiversAreUsable DEF StressedAs
<1>6. operands \in Seq(Values) /\ 1 \in DOMAIN operands
  BY <1>5
<1> HIDE DEF operands
<1>7. Followed(h, operands, still)
  BY <1>2, <1>5, <1>6, CompactionFinishedFollows
<1>8. Resolves(still, still.extra[1]) /\ 1 \in DOMAIN still.extra
  <2>1. Resolves(still, still.extra[1])
    BY <1>2, <1>5, <1>6, <1>7, FollowedText
  <2> QED BY <1>6, <1>7, <2>1 DEF Followed
<1>9. TextAllocated(still, ObjectOf(still, still.extra[1]).text, g)
  BY <1>1, <1>7, <1>8, CopyKeeps DEF Followed
<1> QED BY <1>1, <1>9, ReturnShadows DEF TextAllocated

LEMMA InternStringShadows ==
  ASSUME GcInv, GcShadowInv, InternString
  PROVE  GcShadowInv'
<1> SUFFICES ASSUME NEW config \in host.stress, NEW c \in Registered, NEW source \in StringOperands,
                    ReturnTo(c, intern_string(Stressed(config), source))
             PROVE  GcShadowInv'
  BY DEF InternString
<1> DEFINE h == Stressed(config)
           g == intern_string(h, source)
           operands == <<source>>
           still == CompactionFinished([h EXCEPT !.extra = operands])
           text == ObjectOf(still, still.extra[1]).text
           hits == CanonicalStrings(still, text)
           hit == CHOOSE id \in hits : TRUE
           k == CopyOperandText(still)
<1>1. ReturnTo(c, g) /\ h = Stressed(config) /\ g = intern_string(h, source)
      /\ g = IF hits # {} THEN ReturnCanonical(still, hit) ELSE AddToInternTable(k)
  BY DEF intern_string, InternOperand
<1>2. still = CompactionFinished([h EXCEPT !.extra = operands]) /\ operands[1] = source
      /\ k = CopyOperandText(still) /\ text = ObjectOf(still, still.extra[1]).text
  OBVIOUS
<1> HIDE DEF h, g, still, hits, hit, k, text
<1>3. LayoutInv(heap)
  BY DEF GcInv, GcLayoutInv
<1>4. StressedAs(config, h)
  BY <1>1, <1>3, StressedKeeps
<1>5. LayoutInv(h) /\ source \in Values /\ Resolves(h, source)
  BY <1>3, <1>4, StringsAreUsable DEF StressedAs
<1>6. operands \in Seq(Values) /\ 1 \in DOMAIN operands
  BY <1>5
<1> HIDE DEF operands
<1>7. Followed(h, operands, still) /\ still.phase # "compacting" /\ DOMAIN still = HeapFields
  <2>1. Followed(h, operands, still) /\ still.phase # "compacting"
    BY <1>2, <1>5, <1>6, CompactionFinishedFollows
  <2> QED BY <2>1 DEF Followed, LayoutInv, HeapIsTyped
<1>8. Resolves(still, still.extra[1]) /\ 1 \in DOMAIN still.extra
  <2>1. Resolves(still, still.extra[1])
    BY <1>2, <1>5, <1>6, <1>7, FollowedText
  <2> QED BY <1>6, <1>7, <2>1 DEF Followed
<1>9. TextAllocated(still, text, k)
  BY <1>2, <1>7, <1>8, CopyKeeps DEF Followed
<1>10. k.phase # "compacting" /\ DOMAIN k = HeapFields
  BY <1>9 DEF TextAllocated, LayoutInv, HeapIsTyped
<1>11. ReturnCanonical(still, hit).phase = still.phase
  BY <1>7 DEF ReturnCanonical, HeapFields
<1>12. AddToInternTable(k).phase = k.phase
  BY <1>10 DEF AddToInternTable, HeapFields
<1>13. g.phase # "compacting"
  BY <1>1, <1>7, <1>10, <1>11, <1>12
<1>14. LayoutInv(g)
  BY <1>1, <1>5, InternKeeps
<1> QED BY <1>1, <1>13, <1>14, ReturnShadows


LEMMA StoreFieldStepShadows ==
  ASSUME GcInv, GcShadowInv, StoreField
  PROVE  GcShadowInv'
<1> SUFFICES ASSUME NEW config \in host.stress, NEW owner \in Receivers({"Pair", "Record", "RefArray"}),
                    NEW value \in Operands, NEW i \in DOMAIN ObjectOf(heap, owner).strong,
                    Become(store_field(Stressed(config), owner, i, value))
             PROVE  GcShadowInv'
  BY DEF StoreField
<1> DEFINE h == Stressed(config)
           g == store_field(h, owner, i, value)
<1>1. Become(g) /\ h = Stressed(config) /\ g = store_field(h, owner, i, value)
  OBVIOUS
<1> HIDE DEF h, g
<1>2. GcLayoutInv
  BY DEF GcInv
<1>3. /\ owner \in Ids /\ Resolves(h, owner)
      /\ ObjectOf(h, owner) = ObjectOf(heap, owner) /\ value \in Values
  BY <1>1, <1>2, StoreStarts
<1>4. LayoutInv(h) /\ ShadowInv(h)
  BY <1>1, StressedShadows
<1>5. ShadowInv(g)
  BY <1>1, <1>3, <1>4, StoreFieldShadows
<1> QED BY <1>1, <1>5, BecomeShadows

LEMMA StoreEphemeronValueShadows ==
  ASSUME GcInv, GcShadowInv, StoreEphemeronValue
  PROVE  GcShadowInv'
<1> SUFFICES ASSUME NEW config \in host.stress, NEW owner \in Receivers({"Ephemeron"}),
                    NEW value \in Operands, is_object(ObjectOf(heap, owner).soft[1]),
                    Become(store_ephemeron_value(Stressed(config), owner, value))
             PROVE  GcShadowInv'
  BY DEF StoreEphemeronValue
<1> DEFINE h == Stressed(config)
           g == store_ephemeron_value(h, owner, value)
           kinds == {"Ephemeron"}
<1>1. Become(g) /\ h = Stressed(config) /\ g = store_ephemeron_value(h, owner, value)
      /\ owner \in Receivers(kinds) /\ \A kind \in kinds : kind = "Ephemeron"
  OBVIOUS
<1> HIDE DEF kinds, h, g
<1>2. GcLayoutInv
  BY DEF GcInv
<1>3. /\ owner \in Ids /\ Resolves(h, owner)
      /\ ObjectOf(h, owner) = ObjectOf(heap, owner) /\ ObjectOf(h, owner).kind = "Ephemeron"
      /\ value \in Values /\ (is_object(value) => Resolves(h, value))
  BY <1>1, <1>2, StoreStarts
<1>4. LayoutInv(h) /\ ShadowInv(h)
  BY <1>1, StressedShadows
<1>5. ShadowInv(g)
  BY <1>1, <1>3, <1>4, StoreEphemeronShadows
<1> QED BY <1>1, <1>5, BecomeShadows

LEMMA MapInsertShadows ==
  ASSUME GcInv, GcShadowInv, MapInsert
  PROVE  GcShadowInv'
<1> SUFFICES ASSUME NEW config \in host.stress, NEW owner \in Receivers({"Map"}),
                    NEW key \in StringOperands \cup {Nil}, NEW value \in Operands,
                    Become(insert_map_entry(Stressed(config), owner, key, value))
             PROVE  GcShadowInv'
  BY DEF MapInsert
<1> DEFINE h == Stressed(config)
           g == insert_map_entry(h, owner, key, value)
           kinds == {"Map"}
<1>1. Become(g) /\ h = Stressed(config) /\ g = insert_map_entry(h, owner, key, value)
      /\ owner \in Receivers(kinds) /\ \A kind \in kinds : kind = "Map"
  OBVIOUS
<1> HIDE DEF kinds, h, g
<1>2. GcLayoutInv
  BY DEF GcInv
<1>3. /\ LayoutInv(h) /\ owner \in Values /\ Resolves(h, owner)
      /\ ObjectOf(h, owner).kind = "Map" /\ value \in Values
  BY <1>1, <1>2, StoreStarts
<1>4. key \in Values
  BY <1>2, KeysAreValues DEF GcLayoutInv
<1>5. g.phase # "compacting"
  BY <1>1, <1>3, <1>4, InsertMapShadows
<1> QED BY <1>1, <1>5, QuietShadows

LEMMA MapUpdateShadows ==
  ASSUME GcInv, GcShadowInv, MapUpdate
  PROVE  GcShadowInv'
<1> SUFFICES ASSUME NEW config \in host.stress, NEW owner \in Receivers({"Map"}), NEW value \in Operands,
                    NEW i \in 1 .. ObjectOf(heap, owner).length, NEW key \in StringOperands \cup {Nil},
                    Become(update_map_entry(Stressed(config), owner, i, key, value))
             PROVE  GcShadowInv'
  BY DEF MapUpdate
<1> DEFINE h == Stressed(config)
           g == update_map_entry(h, owner, i, key, value)
           o == ObjectOf(h, owner)
           kinds == {"Map"}
<1>1. Become(g) /\ h = Stressed(config) /\ g = update_map_entry(h, owner, i, key, value)
      /\ o = ObjectOf(h, owner) /\ owner \in Receivers(kinds) /\ \A kind \in kinds : kind = "Map"
  OBVIOUS
<1> HIDE DEF kinds, h, g, o
<1>2. GcLayoutInv
  BY DEF GcInv
<1>3. /\ owner \in Ids /\ Resolves(h, owner)
      /\ o = ObjectOf(heap, owner) /\ o \in Objects /\ o.kind = "Map"
      /\ validate_descriptor_shape(o) /\ value \in Values
  BY <1>1, <1>2, StoreStarts
<1>4. key \in Values
  BY <1>2, KeysAreValues DEF GcLayoutInv
<1>5. 2 * i \in DOMAIN o.strong
  <2>1. o.strong \in Seq(Values) /\ o.length \in Nat /\ Len(o.strong) = 2 * o.length
    BY <1>3, ObjectFields DEF validate_descriptor_shape
  <2>2. DOMAIN o.strong = 1 .. 2 * o.length
    BY <2>1, LenProperties
  <2>3. i \in 1 .. o.length
    BY <1>3
  <2> QED BY <2>1, <2>2, <2>3
<1>6. LayoutInv(h) /\ ShadowInv(h)
  BY <1>1, StressedShadows
<1>7. ShadowInv(g)
  BY <1>1, <1>3, <1>4, <1>5, <1>6, UpdateMapShadows
<1> QED BY <1>1, <1>7, BecomeShadows

LEMMA BuilderAppendStepShadows ==
  ASSUME GcInv, GcShadowInv, BuilderAppend
  PROVE  GcShadowInv'
<1> SUFFICES ASSUME NEW owner \in Receivers({"Builder"}), NEW source \in StringOperands,
                    Become(builder_append(heap, owner, source))
             PROVE  GcShadowInv'
  BY DEF BuilderAppend
<1> DEFINE g == builder_append(heap, owner, source)
<1>1. Become(g) /\ g = builder_append(heap, owner, source)
  OBVIOUS
<1> HIDE DEF g
<1>2. LayoutInv(heap) /\ host \in Hosts /\ ShadowInv(heap)
  BY DEF GcInv, GcLayoutInv, GcShadowInv
<1>3. owner \in Values /\ Resolves(heap, owner) /\ ObjectOf(heap, owner).kind = "Builder"
  BY <1>2, ReceiversAreUsable
<1>4. source \in Values /\ Resolves(heap, source)
  BY <1>2, StringsAreUsable
<1>5. ShadowInv(g)
  BY <1>1, <1>2, <1>3, <1>4, BuilderAppendShadows
<1> QED BY <1>1, <1>5, BecomeShadows

LEMMA StoreScalarsStepShadows ==
  ASSUME GcInv, GcShadowInv, StoreScalars
  PROVE  GcShadowInv'
<1> SUFFICES ASSUME NEW owner \in Receivers({"Builder", "ScalarArray"}), NEW chunk \in Chunks,
                    Become(store_scalars(heap, owner,
                             IF ObjectOf(heap, owner).kind = "Builder" THEN <<>> ELSE <<chunk>>))
             PROVE  GcShadowInv'
  BY DEF StoreScalars
<1> DEFINE text == IF ObjectOf(heap, owner).kind = "Builder" THEN <<>> ELSE <<chunk>>
           g == store_scalars(heap, owner, text)
<1>1. Become(g) /\ g = store_scalars(heap, owner, text)
  OBVIOUS
<1>2. text \in Seq(Chunks) /\ (ObjectOf(heap, owner).kind = "Builder" => text = <<>>)
  OBVIOUS
<1> HIDE DEF text, g
<1>3. LayoutInv(heap) /\ host \in Hosts /\ ShadowInv(heap)
  BY DEF GcInv, GcLayoutInv, GcShadowInv
<1>4. owner \in Values /\ Resolves(heap, owner)
      /\ ObjectOf(heap, owner).kind \in {"Builder", "ScalarArray"}
  BY <1>3, ReceiversAreUsable
<1>5. ShadowInv(g)
  BY <1>1, <1>2, <1>3, <1>4, StoreScalarsShadows
<1> QED BY <1>1, <1>5, BecomeShadows

\* The mutator's own references are no part of the cycle.
LEMMA CellShadows ==
  ASSUME GcShadowInv, NEW c, NEW v, Become([heap EXCEPT !.cells[c] = v])
  PROVE  GcShadowInv'
<1> DEFINE g == [heap EXCEPT !.cells[c] = v]
<1>1. SameCycle(heap, g)
  BY HeapRecord DEF SameCycle, HeapFields
<1>2. ShadowInv(g)
  BY <1>1, SameCycleShadows DEF GcShadowInv
<1> QED BY <1>2, BecomeShadows

LEMMA LoadReferenceShadows ==
  ASSUME GcShadowInv, LoadReference \/ Assign
  PROVE  GcShadowInv'
BY CellShadows DEF LoadReference, Assign

LEMMA collectShadows ==
  ASSUME GcInv, collect \/ collect_minor
  PROVE  GcShadowInv'
<1>1. PICK kind : Become(collect_impl(heap, kind))
  BY DEF collect, collect_minor
<1> DEFINE g == collect_impl(heap, kind)
<1>2. Become(g) /\ g = collect_impl(heap, kind)
  BY <1>1
<1> HIDE DEF g
<1>3. g.phase = "idle"
  BY <1>2, CollectKeeps DEF GcInv, GcLayoutInv
<1> QED BY <1>2, <1>3, QuietShadows

\* Marking begins, goes on and ends outside a compaction.
LEMMA MarkingShadows ==
  ASSUME GcInv, start_incremental_marking \/ incremental_mark_step \/ finish_incremental_marking
  PROVE  GcShadowInv'
<1>1. CASE start_incremental_marking
  <2>1. phase' = "marking"
    BY <1>1, HeapRecord DEF start_incremental_marking, Become, HeapFields
  <2> QED BY <2>1 DEF GcShadowInv, ShadowInv, heap
<1>2. CASE incremental_mark_step
  <2>1. PICK slot, ids : Become([ScanObject(heap, slot) EXCEPT !.worklist = ids])
    BY <1>2 DEF incremental_mark_step
  <2> DEFINE h == heap
             next == ScanObject(h, slot)
             g == [next EXCEPT !.worklist = ids]
  <2>2. DOMAIN h = HeapFields /\ h.phase = "marking"
    BY <1>2, HeapRecord DEF incremental_mark_step
  <2>3. next = ScanObject(h, slot) /\ h = heap
    OBVIOUS
  <2> HIDE DEF next, h
  <2>4. BlackAt(h, slot, next)
    BY <2>2, <2>3, ScannedIs
  <2>5. DOMAIN next = HeapFields /\ next.phase = "marking"
    BY <2>2, <2>4 DEF BlackAt
  <2>6. g.phase = "marking"
    BY <2>5 DEF HeapFields
  <2>7. Become(g)
    BY <2>1, <2>3
  <2> QED BY <2>6, <2>7, QuietShadows
<1>3. CASE finish_incremental_marking
  <2> DEFINE g == finish_incremental_marking_impl(heap)
  <2>1. Become(g) /\ g = finish_incremental_marking_impl(heap) /\ heap.phase = "marking"
    BY <1>3, HeapRecord DEF finish_incremental_marking
  <2> HIDE DEF g
  <2>2. g.phase = "idle"
    BY <2>1, FinishMarkingKeeps DEF GcInv, GcLayoutInv
  <2> QED BY <2>1, <2>2, QuietShadows
<1> QED BY <1>1, <1>2, <1>3

LEMMA StartCompactionShadows ==
  ASSUME GcInv, start_incremental_compaction
  PROVE  GcShadowInv'
<1> DEFINE h == heap
           g == prepare_incremental_compaction(h)
           major == "Major"
           m == Mark(h, major)
           live == {s \in Headers(m) : IsLive(m, {}, s, major)}
<1>1. Become(g) /\ g = prepare_incremental_compaction(h) /\ h.phase = "idle"
  BY HeapRecord DEF start_incremental_compaction
<1>2. LayoutInv(h) /\ ReferenceInv(h)
  BY DEF GcInv, GcLayoutInv, GcReferenceInv
<1>3. m = Mark(h, major) /\ g = prepare_incremental_compaction_from_marked(m)
  BY DEF prepare_incremental_compaction
<1>4. live = {s \in Headers(m) : m.objects[s].marked}
  BY DEF IsLive
<1>5. live = {s \in Headers(m) : IsLive(m, {}, s, major)}
  OBVIOUS
<1> HIDE DEF h, g, major, m, live
<1>6. AtRest(h)
  BY <1>1, <1>2, AtRestIsSound
<1>7. StrongResolve(g)
  BY <1>1, <1>2, <1>6, StartCompactionKeepsReferences DEF AtRest
<1>8. LayoutInv(m) /\ m.phase = h.phase /\ EphemeronsKept(m, live)
  BY <1>1, <1>2, <1>3, <1>5, MarkReady
<1>9. m.worklist = {} /\ m.phase # "compacting"
  BY <1>1, <1>8 DEF LayoutInv, PhaseIsClean
<1>10. ShadowInv(g)
  BY <1>3, <1>4, <1>7, <1>8, <1>9, PrepareShadows
<1> QED BY <1>1, <1>10, BecomeShadows

LEMMA MarkedToCompactionShadows ==
  ASSUME GcInv, finish_marking_to_compaction
  PROVE  GcShadowInv'
<1> DEFINE h == heap
           g == finish_incremental_marking_to_incremental_compaction(h)
           m == FinalMarks(h)
           live == {s \in Headers(m) : IsLive(m, {}, s, "Major")}
<1>1. Become(g) /\ g = finish_incremental_marking_to_incremental_compaction(h) /\ h.phase = "marking"
  BY HeapRecord DEF finish_marking_to_compaction
<1>2. LayoutInv(h) /\ ReferenceInv(h)
  BY DEF GcInv, GcLayoutInv, GcReferenceInv
<1>3. m = FinalMarks(h) /\ g = prepare_incremental_compaction_from_marked(m)
  BY DEF finish_incremental_marking_to_incremental_compaction, FinalMarks
<1>4. live = {s \in Headers(m) : m.objects[s].marked}
  BY DEF IsLive
<1>5. live = {s \in Headers(m) : IsLive(m, {}, s, "Major")}
  OBVIOUS
<1> HIDE DEF h, g, m, live
<1>6. StrongResolve(g)
  BY <1>1, <1>2, MarkedToCompactionKeepsReferences DEF ReferenceInv, AtRest
<1>7. LayoutInv(m) /\ m.phase = "marking" /\ m.worklist = {} /\ EphemeronsKept(m, live)
  BY <1>1, <1>2, <1>3, <1>5, FinalMarksReady
<1>8. ShadowInv(g)
  BY <1>3, <1>4, <1>6, <1>7, PrepareShadows
<1> QED BY <1>1, <1>8, BecomeShadows

LEMMA CompactStepShadows ==
  ASSUME GcInv, GcShadowInv, incremental_compact_step \/ finish_incremental_compaction
  PROVE  GcShadowInv'
<1> DEFINE h == heap
<1>1. LayoutInv(h) /\ ShadowInv(h) /\ h.phase = "compacting"
  BY HeapRecord DEF GcInv, GcLayoutInv, GcShadowInv, incremental_compact_step, finish_incremental_compaction
<1>2. CASE incremental_compact_step
  <2> DEFINE g == RelocateNext(h)
  <2>1. Become(g) /\ g = RelocateNext(h) /\ h.cursor < Len(h.plan)
    BY <1>2, HeapRecord DEF incremental_compact_step
  <2> HIDE DEF g, h
  <2>2. ShadowInv(g)
    BY <1>1, <2>1, RelocateShadows
  <2> QED BY <2>1, <2>2, BecomeShadows
<1>3. CASE finish_incremental_compaction
  <2> DEFINE g == finish_incremental_compaction_impl(h)
  <2>1. Become(g) /\ g = finish_incremental_compaction_impl(h)
    BY <1>3 DEF finish_incremental_compaction
  <2> HIDE DEF g, h
  <2>2. g.phase = "idle"
    BY <1>1, <2>1, FinishCompactionKeeps
  <2> QED BY <2>1, <2>2, QuietShadows
<1> QED BY <1>2, <1>3

(***************************************************************************)
(* The invariant.                                                          *)
(***************************************************************************)
LEMMA NextKeepsShadows == GcInv /\ GcShadowInv /\ [Next]_<<vars, host>> => GcShadowInv'
<1> SUFFICES ASSUME GcInv, GcShadowInv, [Next]_<<vars, host>> PROVE GcShadowInv'
  OBVIOUS
<1>1. CASE UNCHANGED <<vars, host>>
  <2>1. Become(heap) /\ ShadowInv(heap)
    BY <1>1, HeapRecord DEF vars, Become, GcShadowInv
  <2> QED BY <2>1, BecomeShadows
<1>2. CASE Mutator
  BY <1>2, AllocateObjectShadows, ConcatStringsShadows, TakeSubstringShadows, BuilderToStringShadows,
     InternStringShadows, StoreFieldStepShadows, StoreEphemeronValueShadows, MapInsertShadows,
     MapUpdateShadows, BuilderAppendStepShadows, StoreScalarsStepShadows, LoadReferenceShadows DEF Mutator
<1>3. CASE CollectorCalls
  BY <1>3, collectShadows, MarkingShadows, MarkedToCompactionShadows, StartCompactionShadows,
     CompactStepShadows DEF CollectorCalls
<1> QED BY <1>1, <1>2, <1>3 DEF Next

\* The snapshot of an active compaction is, under its own names, the heap as
\* it would be had no object been moved since the cycle began: every store,
\* by whatever method and between whatever two relocations, is in both.
THEOREM SnapshotStaysTrue == Spec /\ OwnersAreCurrent => []GcShadowInv
<1>1. Init => GcInv /\ GcShadowInv
  <2>1. Init => GcShadowInv
    BY HeapRecord DEF Init, GcShadowInv, ShadowInv
  <2> QED BY <2>1, InitialLayout, InitialReferences DEF GcInv
<1>2. GcInv /\ GcShadowInv /\ OwnersAreCurrent /\ [Next]_<<vars, host>>
        => GcInv' /\ GcShadowInv' /\ OwnersAreCurrent'
  BY NextKeepsLayout, NextKeepsReferences, NextKeepsShadows DEF GcInv
<1> QED BY <1>1, <1>2, PTL DEF Spec

\* Whenever an incremental compaction is finished, however many relocations
\* and stores it took, the heap is the one that a single atomic slide of the
\* snapshot would have made, place by place and reference by reference.
THEOREM CompactionStaysAtomic == Spec /\ OwnersAreCurrent => []CompactionMatchesAtomic
<1>1. GcLayoutInv /\ GcReferenceInv /\ GcShadowInv => CompactionMatchesAtomic
  BY ShadowsMatch DEF GcInv
<1> QED BY <1>1, ReferencesAreKept, SnapshotStaysTrue, PTL

=============================================================================
