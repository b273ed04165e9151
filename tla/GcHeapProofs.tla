---------------------------- MODULE GcHeapProofs ----------------------------
(***************************************************************************)
(* Every method of GcHeap keeps the layout of the heap.                    *)
(***************************************************************************)
EXTENDS GcCollectorProofs, SequenceTheorems

(***************************************************************************)
(* Allocation.                                                             *)
(***************************************************************************)

\* The objects of h are in g, which has n slots.
ResizedAs(h, n, g) ==
  /\ DOMAIN g = HeapFields
  /\ g.objects = [s \in 0 .. n - 1 |-> IF s \in DOMAIN h.objects THEN h.objects[s] ELSE None]
  /\ g.generations = [s \in 0 .. n - 1 |-> IF s \in DOMAIN h.generations THEN h.generations[s] ELSE 0]
  /\ g.remembered_set = h.remembered_set
  /\ g.weak_refs = h.weak_refs /\ g.intern_table = h.intern_table /\ g.ephemerons = h.ephemerons
  /\ g.phase = h.phase /\ g.worklist = h.worklist /\ g.plan = h.plan /\ g.cursor = h.cursor
  /\ g.shadow = h.shadow /\ g.allocated = h.allocated /\ g.stress = h.stress
  /\ g.cells = h.cells /\ g.extra = h.extra

LEMMA ResizedIs ==
  ASSUME NEW h, DOMAIN h = HeapFields, NEW n, NEW g, g = Resized(h, n)
  PROVE  ResizedAs(h, n, g)
BY DEF ResizedAs, Resized, HeapFields

LEMMA ResizedKeeps ==
  ASSUME NEW h, LayoutInv(h), NEW n \in Nat, Size(h) <= n, NEW g, ResizedAs(h, n, g)
  PROVE  /\ LayoutInv(g) /\ SamePlaces(h, g) /\ Size(g) = n /\ Carries(h, g)
         /\ \A s \in Headers(h) : g.objects[s] = h.objects[s]
<1>1. HeapIsTyped(h) /\ RunsFollow(h) /\ RegistriesName(h) /\ PhaseIsClean(h) /\ NamesAreUsed(h)
  BY DEF LayoutInv
<1>2. /\ Size(h) \in Nat /\ DOMAIN h.objects = 0 .. Size(h) - 1 /\ DOMAIN h.generations = 0 .. Size(h) - 1
      /\ Headers(h) \subseteq DOMAIN h.objects
      /\ \A s \in Headers(h) : h.objects[s] \in Objects
  BY <1>1, HeaderIsObject DEF Headers
<1>3. /\ DOMAIN g.objects = 0 .. n - 1
      /\ \A s \in 0 .. Size(h) - 1 : /\ s \in 0 .. n - 1 /\ g.objects[s] = h.objects[s]
                                     /\ g.generations[s] = h.generations[s]
      /\ \A s \in 0 .. n - 1 : s \notin DOMAIN h.objects => g.objects[s] = None
  BY <1>2 DEF ResizedAs
<1>4. Size(g) = n
  BY <1>3, SizeOf
<1>5. Headers(g) = Headers(h)
  BY <1>2, <1>3 DEF Headers
<1>6. HeapIsTyped(g)
  <2>1. g.objects \in [0 .. n - 1 -> Objects \cup {None}]
    BY <1>1, <1>2 DEF ResizedAs, HeapIsTyped
  <2>2. g.generations \in [0 .. n - 1 -> Nat]
    BY <1>1, <1>2 DEF ResizedAs, HeapIsTyped
  <2> QED BY <1>1, <1>4, <2>1, <2>2 DEF ResizedAs, HeapIsTyped
<1>7. SamePlaces(h, g)
  BY <1>2, <1>3, <1>5, <1>6 DEF SamePlaces, ResizedAs
<1>8. \A s \in Headers(h) : g.objects[s] = h.objects[s] /\ Width(g, s) = Width(h, s)
  BY <1>2, <1>3 DEF Width
<1>9. RunsFollow(g)
  <2>1. \A s \in Headers(h) : g.generations[s] = h.generations[s] /\ s + Width(h, s) <= n
    BY <1>1, <1>2, <1>3, HeaderIsObject DEF RunsFollow
  <2> QED BY <1>1, <1>5, <1>4, <1>8, <2>1 DEF RunsFollow
<1>10. Overwrites(h, g)
  <2>1. \A id \in g.remembered_set : Resolves(h, id)
    BY <1>1 DEF ResizedAs, RegistriesName
  <2>2. /\ g.phase # "marking" => g.worklist = {}
        /\ g.phase # "compacting" => g.shadow = None
    BY <1>1 DEF ResizedAs, PhaseIsClean
  <2>3. \A s \in Headers(h) : \A v \in SoftReferences(g.objects[s]) : Resolves(h, v)
    BY <1>1, <1>8 DEF RegistriesName
  <2>4. \A s \in Headers(h) : g.objects[s].kind = "Builder" => g.objects[s].length > 0
    BY <1>1, <1>8 DEF NamesAreUsed
  <2> QED BY <1>4, <1>7, <1>8, <1>9, <2>1, <2>2, <2>3, <2>4 DEF Overwrites, ResizedAs
<1>11. LayoutInv(g)
  BY <1>10, OverwritesKeep
<1>12. \A v : /\ checked_slot(g, v) = checked_slot(h, v) /\ (Resolves(g, v) <=> Resolves(h, v))
  BY <1>1, <1>7, SamePlacesResolve
<1>13. \A v \in Ids : Resolves(h, v) => ObjectOf(g, v) = ObjectOf(h, v)
  BY <1>1, <1>8, <1>12, ResolvedIsHeader DEF ObjectOf
<1>14. Carries(h, g)
  <2>1. ASSUME NEW i \in DOMAIN h.extra PROVE Becomes(h, h.extra[i], g, g.extra[i])
    <3>1. h.extra[i] \in Values /\ g.extra[i] = h.extra[i]
      BY <1>1 DEF HeapIsTyped, ResizedAs
    <3> QED BY <1>12, <1>13, <3>1, ValueIsId DEF Becomes, SameShape
  <2>2. ASSUME NEW id \in g.intern_table PROVE \E old \in h.intern_table : ObjectOf(h, old).text = ObjectOf(g, id).text
    <3>1. id \in h.intern_table
      BY DEF ResizedAs
    <3>2. id \in Ids /\ Resolves(h, id)
      BY <1>1, <3>1, IdOfBase DEF RegistriesName, OfKind
    <3> QED BY <1>13, <3>1, <3>2
  <2> QED BY <2>1, <2>2 DEF Carries, ResizedAs
<1> QED BY <1>4, <1>7, <1>8, <1>11, <1>14

\* No object has a slot from base to base + width - 1.
Vacant(h, base, width) ==
  \A t \in Headers(h) : t + Width(h, t) <= base \/ base + width <= t

LEMMA FirstFitIsVacant ==
  ASSUME NEW h, LayoutInv(h), NEW width \in Nat \ {0},
         NEW base, base = find_free_storage_run(h, width)
  PROVE  base \in 0 .. Size(h) /\ Vacant(h, base, width)
<1>1. HeapIsTyped(h) /\ RunsFollow(h)
  BY DEF LayoutInv
<1>2. /\ Size(h) \in Nat /\ DOMAIN h.objects = 0 .. Size(h) - 1
      /\ \A t \in Headers(h) : t \in 0 .. Size(h) - 1 /\ Width(h, t) \in Nat \ {0} /\ t + Width(h, t) <= Size(h)
  BY <1>1, HeaderIsObject DEF RunsFollow
<1>3. CASE FreeRuns(h, width) = {}
  <2>1. base = Size(h)
    BY <1>3 DEF find_free_storage_run
  <2> QED BY <1>2, <2>1 DEF Vacant
<1>4. CASE FreeRuns(h, width) # {}
  <2>1. FreeRuns(h, width) \subseteq Nat
    BY <1>2 DEF FreeRuns
  <2>2. base \in FreeRuns(h, width)
    <3>1. base = Min(FreeRuns(h, width))
      BY <1>4 DEF find_free_storage_run
    <3>2. \E least \in FreeRuns(h, width) : \A k \in FreeRuns(h, width) : least <= k
      BY <1>4, <2>1, LeastNumber
    <3> QED BY <3>1, <3>2 DEF Min
  <2>3. base \in 0 .. Size(h) - 1 /\ \A u \in base .. base + width - 1 : u \notin Occupied(h)
    BY <1>2, <2>2 DEF FreeRuns, Run, is_storage_slot_free
  <2>4. ASSUME NEW t \in Headers(h) PROVE t + Width(h, t) <= base \/ base + width <= t
    <3>1. SUFFICES ASSUME base < t + Width(h, t), t < base + width PROVE FALSE
      BY <1>2, <2>3
    <3>2. \A u \in t .. t + Width(h, t) - 1 : u \in Occupied(h)
      BY DEF Occupied, Run, Width
    <3>3. CASE t <= base
      <4>1. base \in t .. t + Width(h, t) - 1 /\ base \in base .. base + width - 1
        BY <1>2, <2>3, <3>1, <3>3
      <4> QED BY <2>3, <3>2, <4>1
    <3>4. CASE base < t
      <4>1. t \in t .. t + Width(h, t) - 1 /\ t \in base .. base + width - 1
        BY <1>2, <2>3, <3>1, <3>4
      <4> QED BY <2>3, <3>2, <4>1
    <3> QED BY <1>2, <2>3, <3>3, <3>4
  <2> QED BY <1>2, <2>3, <2>4 DEF Vacant
<1> QED BY <1>3, <1>4

\* g is h with the object q at base.
PlacedAs(h, base, gen, q, g) ==
  /\ DOMAIN g = HeapFields
  /\ g.objects = [h.objects EXCEPT ![base] = q]
  /\ g.generations = [h.generations EXCEPT ![base] = gen]
  /\ g.weak_refs = h.weak_refs \cup (IF q.kind = "WeakRef" THEN {make_object_id(base, gen)} ELSE {})
  /\ g.ephemerons = h.ephemerons \cup (IF q.kind = "Ephemeron" THEN {make_object_id(base, gen)} ELSE {})
  /\ g.worklist = h.worklist \cup (IF h.phase = "marking" THEN {make_object_id(base, gen)} ELSE {})
  /\ g.remembered_set = h.remembered_set /\ g.intern_table = h.intern_table
  /\ g.phase = h.phase /\ g.plan = h.plan /\ g.cursor = h.cursor /\ g.shadow = h.shadow
  /\ g.allocated = h.allocated + 1 /\ g.stress = h.stress
  /\ g.cells = h.cells /\ g.extra = <<make_object_id(base, gen)>>

LEMMA PlacedIs ==
  ASSUME NEW h, DOMAIN h = HeapFields, NEW object \in Objects, NEW base, NEW gen,
         NEW g, g = PlaceObject(h, object, base, gen), NEW q, q = WithReferences(object, h.extra)
  PROVE  PlacedAs(h, base, gen, q, g)
<1>1. q.kind = object.kind
  BY DEF WithReferences, Objects
<1> QED BY <1>1 DEF PlacedAs, PlaceObject, HeapFields

\* The object q is new in g.
Placed(h, q, g) ==
  /\ LayoutInv(g) /\ g.phase = h.phase /\ g.allocated = h.allocated + 1 /\ g.stress = h.stress
  /\ Len(g.extra) = 1 /\ g.extra[1] \in Ids /\ Resolves(g, g.extra[1])
  /\ SameShape(q, ObjectOf(g, g.extra[1]))
  /\ \A id \in g.intern_table : id \in h.intern_table /\ ObjectOf(h, id).text = ObjectOf(g, id).text

LEMMA PlaceKeeps ==
  ASSUME NEW h, LayoutInv(h), h.phase # "compacting",
         NEW q \in Objects, validate_descriptor_shape(q), q.data = h.allocated,
         q.kind = "Builder" => q.length > 0, \A v \in SoftReferences(q) : Resolves(h, v),
         NEW base \in Nat, base + storage_slot_count(q) <= Size(h),
         Vacant(h, base, storage_slot_count(q)),
         NEW gen, gen = h.generations[base] + 1, NEW g, PlacedAs(h, base, gen, q, g)
  PROVE  Placed(h, q, g)
<1> DEFINE w == storage_slot_count(q)
           new == make_object_id(base, gen)
<1>1. /\ HeapIsTyped(h) /\ RunsFollow(h) /\ RegistriesName(h) /\ PhaseIsClean(h) /\ NamesAreUsed(h)
      /\ h.cursor = 0 /\ h.plan = <<>> /\ h.shadow = None
  BY DEF LayoutInv, PhaseIsClean
<1>2. /\ Size(h) \in Nat /\ DOMAIN h.objects = 0 .. Size(h) - 1 /\ DOMAIN h.generations = 0 .. Size(h) - 1
      /\ Headers(h) \subseteq 0 .. Size(h) - 1
      /\ \A s \in Headers(h) : h.objects[s] \in Objects /\ Width(h, s) \in Nat \ {0}
  BY <1>1, HeaderIsObject
<1>3. w \in Nat \ {0} /\ base \in 0 .. Size(h) - 1 /\ base \notin Headers(h)
  <2>1. w \in Nat \ {0}
    BY WidthOfObject
  <2>2. base \in 0 .. Size(h) - 1
    BY <1>2, <2>1
  <2>3. base \notin Headers(h)
    BY <1>2, <2>1 DEF Vacant
  <2> QED BY <2>1, <2>2, <2>3
<1>4. /\ h.generations[base] \in Nat /\ gen \in Nat /\ gen > 0
      /\ new \in Ids /\ slot_from(new) = base /\ generation_from(new) = gen
  <2>1. h.generations[base] \in Nat
    BY <1>1, <1>3 DEF HeapIsTyped
  <2> QED BY <1>3, <2>1 DEF make_object_id, slot_from, generation_from, Ids
<1>5. /\ g.objects = [h.objects EXCEPT ![base] = q]
      /\ g.generations = [h.generations EXCEPT ![base] = gen]
      /\ g.cursor = 0 /\ g.plan = <<>> /\ g.shadow = None /\ g.phase = h.phase
  BY <1>1 DEF PlacedAs
<1>6. Headers(g) = Headers(h) \cup {base} /\ g.objects[base] = q /\ Size(g) = Size(h)
  <2>1. q # None
    BY NoneAssumption
  <2> QED BY <1>2, <1>3, <1>5, <2>1 DEF Headers, Size
<1>7. \A s \in Headers(h) : /\ s # base /\ g.objects[s] = h.objects[s] /\ g.generations[s] = h.generations[s]
                            /\ IdAt(g, s) = IdAt(h, s) /\ Width(g, s) = Width(h, s)
  BY <1>2, <1>3, <1>5 DEF IdAt, Width
<1>8. IdAt(g, base) = new /\ Width(g, base) = w /\ g.generations[base] = gen
  BY <1>2, <1>3, <1>5, <1>6 DEF IdAt, Width
<1>9. HeapIsTyped(g)
  <2>1. g.objects \in [0 .. Size(h) - 1 -> Objects \cup {None}]
    BY <1>1, <1>5 DEF HeapIsTyped
  <2>2. g.generations \in [0 .. Size(h) - 1 -> Nat]
    BY <1>1, <1>4, <1>5 DEF HeapIsTyped
  <2>3. /\ g.weak_refs \subseteq h.weak_refs \cup {new} /\ g.ephemerons \subseteq h.ephemerons \cup {new}
        /\ g.worklist \subseteq h.worklist \cup {new}
        /\ g.remembered_set = h.remembered_set /\ g.intern_table = h.intern_table
    BY DEF PlacedAs
  <2>4. /\ g.weak_refs \subseteq Ids /\ g.ephemerons \subseteq Ids /\ g.worklist \subseteq Ids
        /\ g.remembered_set \subseteq Ids /\ g.intern_table \subseteq Ids
    BY <1>1, <1>4, <2>3 DEF HeapIsTyped
  <2>5. g.extra \in Seq(Values)
    BY <1>4 DEF PlacedAs, Values
  <2>6. g.plan \in Seq(Relocations) /\ g.cursor \in 0 .. Len(g.plan)
    BY <1>5
  <2> HIDE DEF new, Relocations
  <2> QED BY <1>1, <1>5, <1>6, <2>1, <2>2, <2>4, <2>5, <2>6 DEF PlacedAs, HeapIsTyped
<1>10. RunsFollow(g)
  <2>1. \A s \in Headers(g) : /\ validate_descriptor_shape(g.objects[s]) /\ g.generations[s] > 0
                              /\ s + Width(g, s) <= Size(g)
    BY <1>1, <1>4, <1>6, <1>7, <1>8 DEF RunsFollow
  <2>2. ASSUME NEW s \in Headers(g), NEW t \in Headers(g), s < t
        PROVE  s + Width(g, s) <= t
    <3>1. CASE s # base /\ t # base
      BY <1>1, <1>6, <1>7, <2>2, <3>1 DEF RunsFollow
    <3>2. CASE s = base
      <4>1. t \in Headers(h) /\ t \in Nat /\ Width(h, t) \in Nat \ {0}
        BY <1>2, <1>6, <2>2, <3>2
      <4>2. t + Width(h, t) <= base \/ base + w <= t
        BY <4>1 DEF Vacant
      <4> QED BY <1>3, <1>8, <2>2, <3>2, <4>1, <4>2
    <3>3. CASE t = base
      <4>1. s \in Headers(h) /\ s \in Nat /\ Width(h, s) \in Nat \ {0}
        BY <1>2, <1>6, <2>2, <3>3
      <4>2. s + Width(h, s) <= base \/ base + w <= s
        BY <4>1 DEF Vacant
      <4> QED BY <1>3, <1>7, <2>2, <3>3, <4>1, <4>2
    <3> QED BY <3>1, <3>2, <3>3
  <2> QED BY <2>1, <2>2 DEF RunsFollow
<1>11. PhaseIsClean(g)
  <2>1. g.phase # "marking" => g.worklist = {}
    BY <1>1 DEF PlacedAs, PhaseIsClean
  <2> QED BY <1>5, <2>1 DEF PhaseIsClean
<1>12. ASSUME NEW v \in Ids, Resolves(h, v)
       PROVE  Resolves(g, v) /\ ObjectOf(g, v) = ObjectOf(h, v)
  <2>1. checked_slot(h, v) \in Headers(h) /\ v = IdAt(h, checked_slot(h, v))
    BY <1>1, <1>12, StillReference
  <2>2. v = IdAt(g, checked_slot(h, v)) /\ checked_slot(h, v) \in Headers(g)
    BY <1>6, <1>7, <2>1
  <2>3. Resolves(g, v) /\ checked_slot(g, v) = checked_slot(h, v)
    BY <1>9, <1>10, <2>2, IdOfBase
  <2> QED BY <1>7, <2>1, <2>3 DEF ObjectOf
<1>13. ASSUME NEW kind PROVE OfKind(g, kind) = OfKind(h, kind) \cup (IF q.kind = kind THEN {new} ELSE {})
  <2>1. OfKind(g, kind) = {IdAt(g, s) : s \in {t \in Headers(h) : g.objects[t].kind = kind}
                                               \cup {t \in {base} : g.objects[t].kind = kind}}
    BY <1>6 DEF OfKind
  <2> HIDE DEF new
  <2> QED BY <1>6, <1>7, <1>8, <2>1 DEF OfKind
<1>14. \A id \in h.intern_table : id \in Ids /\ Resolves(h, id)
  BY <1>1, IdOfBase DEF RegistriesName, OfKind
<1>15. RegistriesName(g)
  <2>1. /\ g.weak_refs = OfKind(g, "WeakRef") /\ g.ephemerons = OfKind(g, "Ephemeron")
    BY <1>1, <1>13 DEF RegistriesName, PlacedAs
  <2>2. g.intern_table \subseteq OfKind(g, "Str") /\ g.intern_table = h.intern_table
    BY <1>1, <1>13 DEF RegistriesName, PlacedAs
  <2>3. \A id \in g.remembered_set : Resolves(g, id)
    BY <1>1, <1>12 DEF RegistriesName, PlacedAs, HeapIsTyped
  <2>4. \A s \in Headers(g) : \A v \in SoftReferences(g.objects[s]) : Resolves(g, v)
    <3> SUFFICES ASSUME NEW s \in Headers(g), NEW v \in SoftReferences(g.objects[s]) PROVE Resolves(g, v)
      OBVIOUS
    <3>1. g.objects[s] \in Objects /\ v \in Ids
      <4>1. g.objects[s] \in Objects
        BY <1>9, HeaderIsObject
      <4>2. v \in Values \ {Nil}
        BY <4>1, FieldsAreValues
      <4> QED BY <4>1, <4>2 DEF Values
    <3>2. Resolves(h, v)
      BY <1>1, <1>6, <1>7 DEF RegistriesName
    <3> QED BY <1>12, <3>1, <3>2
  <2>5. \A a, b \in g.intern_table : ObjectOf(g, a).text = ObjectOf(g, b).text => a = b
    BY <1>1, <1>12, <1>14, <2>2 DEF RegistriesName
  <2> QED BY <2>1, <2>2, <2>3, <2>4, <2>5 DEF RegistriesName
<1>16. NamesAreUsed(g)
  <2>1. g.allocated = h.allocated + 1 /\ h.allocated \in Nat
    BY <1>1 DEF PlacedAs, HeapIsTyped
  <2>2. \A s \in Headers(h) : h.objects[s].data \in Nat
    BY <1>2, ObjectFields
  <2> QED BY <1>1, <1>6, <1>7, <2>1, <2>2 DEF NamesAreUsed
<1>17. g.extra[1] = new /\ Len(g.extra) = 1
  BY DEF PlacedAs
<1>18. Resolves(g, new) /\ ObjectOf(g, new) = q
  <2>1. base \in Headers(g) /\ new = IdAt(g, base)
    BY <1>6, <1>8
  <2>2. Resolves(g, IdAt(g, base)) /\ checked_slot(g, IdAt(g, base)) = base
    BY <1>9, <1>10, <2>1, IdOfBase
  <2> HIDE DEF new
  <2> QED BY <1>6, <2>1, <2>2 DEF ObjectOf
<1>19. SameShape(q, q)
  BY DEF SameShape
<1>20. \A id \in g.intern_table : id \in h.intern_table /\ ObjectOf(h, id).text = ObjectOf(g, id).text
  BY <1>12, <1>14 DEF PlacedAs
<1>21. LayoutInv(g)
  BY <1>9, <1>10, <1>11, <1>15, <1>16 DEF LayoutInv
<1> HIDE DEF new
<1>22. g.phase = h.phase /\ g.allocated = h.allocated + 1 /\ g.stress = h.stress
  BY DEF PlacedAs
<1> QED BY <1>4, <1>17, <1>18, <1>19, <1>20, <1>21, <1>22 DEF Placed

\* An object that a constructor can be given.
Fits(h, o) ==
  /\ o \in Objects /\ validate_descriptor_shape(o) /\ o.data = h.allocated
  /\ o.kind = "Builder" => o.length > 0
  /\ \A v \in SoftReferences(o) : Resolves(h, v)

\* The object o is new in g, and nothing new is canonical.
Allocated(h, o, g) ==
  /\ LayoutInv(g) /\ g.phase # "compacting" /\ g.allocated = h.allocated + 1 /\ g.stress = h.stress
  /\ Len(g.extra) = 1 /\ g.extra[1] \in Ids /\ Resolves(g, g.extra[1])
  /\ SameShape(o, ObjectOf(g, g.extra[1]))
  /\ \A id \in g.intern_table : \E old \in h.intern_table : ObjectOf(h, old).text = ObjectOf(g, id).text

\* q has the references of o as extra has them now.
SplitAs(o, extra, q) ==
  /\ q \in Objects /\ q.kind = o.kind /\ q.length = o.length /\ q.data = o.data /\ q.text = o.text
  /\ q.age = o.age /\ q.marked = o.marked
  /\ Len(q.strong) = Len(o.strong) /\ Len(q.soft) = Len(o.soft)
  /\ \A i \in DOMAIN q.strong : /\ i \in DOMAIN o.strong /\ i \in DOMAIN extra
                                /\ q.strong[i] = extra[i] /\ References(o)[i] = o.strong[i]
  /\ \A i \in DOMAIN q.soft : /\ i \in DOMAIN o.soft /\ Len(o.strong) + i \in DOMAIN extra
                              /\ q.soft[i] = extra[Len(o.strong) + i]
                              /\ References(o)[Len(o.strong) + i] = o.soft[i]

LEMMA OperandsSplit ==
  ASSUME NEW o \in Objects, NEW extra \in Seq(Values), Len(extra) = Len(References(o)),
         NEW q, q = WithReferences(o, extra)
  PROVE  SplitAs(o, extra, q)
<1> DEFINE a == Len(o.strong)
           b == Len(o.soft)
           strong == SubSeq(extra, 1, a)
           soft == SubSeq(extra, a + 1, Len(extra))
<1>1. o.strong \in Seq(Values) /\ o.soft \in Seq(Values) /\ a \in Nat /\ b \in Nat
  BY ObjectFields
<1>2. Len(extra) = a + b
  BY <1>1 DEF References
<1>10. a = Len(o.strong) /\ b = Len(o.soft)
  OBVIOUS
<1>11. /\ strong = SubSeq(extra, 1, a) /\ soft = SubSeq(extra, a + 1, Len(extra))
      /\ DOMAIN extra = 1 .. a + b /\ DOMAIN o.strong = 1 .. a /\ DOMAIN o.soft = 1 .. b
  BY <1>1, <1>2
<1> HIDE DEF a, b, strong, soft
<1>3. /\ strong \in Seq(Values) /\ Len(strong) = a
      /\ soft \in Seq(Values) /\ Len(soft) = b
      /\ \A i \in 1 .. b : soft[i] = extra[a + i]
      /\ \A i \in 1 .. a : strong[i] = extra[i]
  <2>0. /\ \A i \in 1 .. a : extra[i] \in Values
        /\ \A i \in a + 1 .. Len(extra) : extra[i] \in Values
    BY <1>1, <1>2
  <2>1. strong \in Seq(Values) /\ Len(strong) = a
    BY <1>1, <1>2, <1>11, <2>0, SubSeqProperties
  <2>2. soft \in Seq(Values) /\ Len(soft) = b
    BY <1>1, <1>2, <1>11, <2>0, SubSeqProperties
  <2>3. ASSUME NEW i \in 1 .. b PROVE soft[i] = extra[a + i]
    <3>1. (a + 1) + i - 1 = a + i /\ i \in 1 .. Len(soft)
      BY <1>1, <2>2
    <3>2. soft[i] = extra[(a + 1) + i - 1]
      BY <1>1, <1>2, <1>11, <2>0, <3>1, <2>2, SubSeqProperties
    <3> QED BY <3>1, <3>2
  <2>4. ASSUME NEW i \in 1 .. a PROVE strong[i] = extra[i]
    <3>1. 1 + i - 1 = i /\ i \in 1 .. Len(strong)
      BY <1>1, <2>1
    <3>2. strong[i] = extra[1 + i - 1]
      BY <1>1, <1>2, <1>11, <2>0, <3>1, <2>1, SubSeqProperties
    <3> QED BY <3>1, <3>2
  <2> QED BY <2>1, <2>2, <2>3, <2>4
<1>4. q = [[o EXCEPT !.strong = strong] EXCEPT !.soft = soft]
  BY <1>10, <1>11 DEF WithReferences
<1>5. /\ q \in Objects /\ q.kind = o.kind /\ q.length = o.length /\ q.data = o.data /\ q.text = o.text
      /\ q.strong = strong /\ q.soft = soft /\ q.age = o.age /\ q.marked = o.marked
  BY <1>3, <1>4 DEF Objects
<1>7. ASSUME NEW i \in DOMAIN q.strong
      PROVE  /\ i \in DOMAIN o.strong /\ i \in DOMAIN extra
             /\ q.strong[i] = extra[i] /\ References(o)[i] = o.strong[i]
  <2>0. DOMAIN strong = 1 .. Len(strong)
    BY <1>3, LenProperties
  <2>1. i \in 1 .. a /\ i \in DOMAIN o.strong /\ i \in DOMAIN extra
    <3>1. i \in 1 .. a
      BY <1>3, <1>5, <2>0
    <3> QED BY <1>1, <1>11, <3>1
  <2>2. q.strong[i] = extra[i]
    BY <1>3, <1>5, <2>1
  <2>3. References(o)[i] = o.strong[i]
    <3>1. i \in 1 .. a + b /\ i <= a
      BY <1>1, <2>1
    <3> QED BY <1>1, <1>10, <3>1, ConcatProperties DEF References
  <2> QED BY <2>1, <2>2, <2>3
<1>6. ASSUME NEW i \in DOMAIN q.soft
      PROVE  /\ i \in DOMAIN o.soft /\ a + i \in DOMAIN extra
             /\ q.soft[i] = extra[a + i] /\ References(o)[a + i] = o.soft[i]
  <2>1. i \in 1 .. b
    BY <1>3, <1>5
  <2>2. i \in DOMAIN o.soft
    BY <1>11, <2>1
  <2>3. a + i \in DOMAIN extra
    BY <1>1, <1>11, <2>1
  <2>4. q.soft[i] = extra[a + i]
    BY <1>3, <1>5, <2>1
  <2>5. References(o)[a + i] = o.soft[i]
    <3>1. a + i \in 1 .. a + b /\ ~(a + i <= a) /\ (a + i) - a = i
      BY <1>1, <2>1
    <3>2. (o.strong \o o.soft)[a + i] = o.soft[(a + i) - a]
      BY <1>1, <1>10, <3>1, ConcatProperties
    <3> QED BY <3>1, <3>2 DEF References
  <2> QED BY <2>2, <2>3, <2>4, <2>5
<1> QED BY <1>3, <1>5, <1>6, <1>7, <1>10 DEF SplitAs

\* How the object o gets its place: after a finished compaction, in a room
\* that is large enough, with the references that the movement left of its.
Places(k, n, room, base, gen, q, g) ==
  /\ LayoutInv(k) /\ n \in Nat /\ Size(k) <= n /\ ResizedAs(k, n, room)
  /\ LayoutInv(room) /\ room.phase # "compacting" /\ q \in Objects
  /\ base \in Nat /\ base + storage_slot_count(q) <= Size(room)
  /\ Vacant(room, base, storage_slot_count(q))
  /\ gen = room.generations[base] + 1 /\ PlacedAs(room, base, gen, q, g)

Constructed(h, o, g) ==
  \E k, n, room, base, gen, q :
    /\ k = CompactionFinished([h EXCEPT !.extra = References(o)])
    /\ Places(k, n, room, base, gen, q, g)
    /\ SplitAs(o, room.extra, q)
    /\ \A i \in DOMAIN q.strong : i \in DOMAIN o.strong /\ Becomes(h, o.strong[i], room, q.strong[i])

LEMMA AllocateObjectKeeps ==
  ASSUME NEW h, LayoutInv(h), NEW o, Fits(h, o), NEW g, g = allocate_object(h, o)
  PROVE  Allocated(h, o, g) /\ Constructed(h, o, g)
<1> DEFINE refs == References(o)
           start == [h EXCEPT !.extra = refs]
           k == CompactionFinished(start)
           width == storage_slot_count(o)
           base == find_free_storage_run(k, width)
           n == Max({Size(k), base + width})
           room == Resized(k, n)
           gen == room.generations[base] + 1
           q == WithReferences(o, room.extra)
<1>1. g = PlaceObject(room, o, base, gen)
  BY DEF allocate_object, PlaceInFirstFit, MakeRoom, PlaceAt, generation_for_new_base
<1>2. /\ start = [h EXCEPT !.extra = refs] /\ k = CompactionFinished(start)
      /\ base = find_free_storage_run(k, width) /\ room = Resized(k, n) /\ q = WithReferences(o, room.extra)
  OBVIOUS
<1> HIDE DEF start, k, base, room, gen, q
<1>3. o \in Objects /\ validate_descriptor_shape(o) /\ width \in Nat \ {0}
  BY WidthOfObject DEF Fits
<1>4. o.strong \in Seq(Values) /\ o.soft \in Seq(Values) /\ refs \in Seq(Values)
      /\ Len(refs) = Len(o.strong) + Len(o.soft) /\ Len(o.strong) \in Nat /\ Len(o.soft) \in Nat
  BY <1>3, ObjectFields DEF References
<1> HIDE DEF refs, width
<1>5. /\ LayoutInv(start) /\ SamePlaces(h, start) /\ SameButOperands(h, start)
      /\ start.extra = refs /\ start.stress = h.stress
  BY <1>2, <1>4, RootedKeeps
<1>6. LayoutInv(k) /\ Carries(start, k) /\ k.phase \in {"idle", "marking"}
  BY <1>2, <1>5, CompactionFinishedKeeps
<1>7. base \in 0 .. Size(k) /\ Vacant(k, base, width) /\ Size(k) \in Nat /\ HeapIsTyped(k)
  BY <1>2, <1>3, <1>6, FirstFitIsVacant DEF LayoutInv, HeapIsTyped
<1>8. n \in Nat /\ Size(k) <= n /\ base + width <= n
  BY <1>3, <1>7 DEF Max
<1> HIDE DEF n
<1>9. ResizedAs(k, n, room)
  BY <1>2, <1>7, ResizedIs DEF HeapIsTyped
<1>10. /\ LayoutInv(room) /\ SamePlaces(k, room) /\ Size(room) = n /\ Carries(k, room)
       /\ \A s \in Headers(k) : room.objects[s] = k.objects[s]
  BY <1>6, <1>8, <1>9, ResizedKeeps
<1>11. Vacant(room, base, width)
  BY <1>7, <1>10 DEF Vacant, SamePlaces, Width
<1>12. Carries(start, room) /\ room.phase = k.phase
  BY <1>5, <1>6, <1>9, <1>10, CarriesOn DEF ResizedAs
<1>13. room.extra \in Seq(Values) /\ Len(room.extra) = Len(refs) /\ DOMAIN room = HeapFields
  BY <1>5, <1>10, <1>12 DEF LayoutInv, HeapIsTyped, Carries
<1>14. /\ q \in Objects /\ q.kind = o.kind /\ q.length = o.length /\ q.data = o.data /\ q.text = o.text
       /\ Len(q.strong) = Len(o.strong) /\ Len(q.soft) = Len(o.soft)
       /\ \A i \in DOMAIN q.soft : /\ i \in DOMAIN o.soft /\ Len(o.strong) + i \in DOMAIN room.extra
                                   /\ q.soft[i] = room.extra[Len(o.strong) + i]
                                   /\ refs[Len(o.strong) + i] = o.soft[i]
       /\ \A i \in DOMAIN q.strong : /\ i \in DOMAIN o.strong /\ i \in DOMAIN room.extra
                                     /\ q.strong[i] = room.extra[i] /\ refs[i] = o.strong[i]
       /\ SplitAs(o, room.extra, q)
  <2>1. SplitAs(o, room.extra, q)
    BY <1>2, <1>3, <1>13, OperandsSplit DEF refs
  <2> QED BY <2>1 DEF SplitAs, refs
<1>15. ASSUME NEW i \in DOMAIN q.soft
       PROVE  /\ is_object(q.soft[i]) <=> is_object(o.soft[i])
              /\ is_object(q.soft[i]) => Resolves(room, q.soft[i])
  <2> DEFINE j == Len(o.strong) + i
  <2>1. j \in DOMAIN room.extra /\ q.soft[i] = room.extra[j] /\ refs[j] = o.soft[i] /\ i \in DOMAIN o.soft
    BY <1>14
  <2>2. j \in DOMAIN start.extra
    <3>1. DOMAIN room.extra = 1 .. Len(room.extra) /\ DOMAIN refs = 1 .. Len(refs)
      BY <1>4, <1>13, LenProperties
    <3> QED BY <1>5, <1>13, <2>1, <3>1
  <2> HIDE DEF j
  <2>3. Becomes(start, start.extra[j], room, room.extra[j])
    BY <1>12, <2>2 DEF Carries
  <2>4. Becomes(start, o.soft[i], room, q.soft[i])
    BY <1>5, <2>1, <2>3
  <2>5. is_object(o.soft[i]) => Resolves(start, o.soft[i])
    <3>1. is_object(o.soft[i]) => o.soft[i] \in SoftReferences(o)
      BY <2>1 DEF SoftReferences
    <3>2. \A v : Resolves(start, v) <=> Resolves(h, v)
      BY <1>5, SamePlacesResolve DEF LayoutInv
    <3> QED BY <3>1, <3>2 DEF Fits
  <2> QED BY <2>4, <2>5 DEF Becomes
<1>16. validate_descriptor_shape(q)
  <2>1. q.strong \in Seq(Values) /\ q.soft \in Seq(Values)
    BY <1>14, ObjectFields
  <2>2. /\ o.strong = <<>> => q.strong = <<>>
        /\ o.soft = <<>> => q.soft = <<>>
    BY <1>4, <1>14, <2>1
  <2>3. o.kind = "Ephemeron" => Len(q.soft) = 2 /\ (q.soft[1] = Nil => q.soft[2] = Nil)
    <3>1. SUFFICES ASSUME o.kind = "Ephemeron" PROVE Len(q.soft) = 2 /\ (q.soft[1] = Nil => q.soft[2] = Nil)
      OBVIOUS
    <3>2. Len(o.soft) = 2 /\ (o.soft[1] = Nil => o.soft[2] = Nil)
      BY <1>3, <3>1 DEF validate_descriptor_shape, EphemeronAndBuilderShape
    <3>3. 1 \in DOMAIN q.soft /\ 2 \in DOMAIN q.soft
      BY <1>14, <2>1, <3>2
    <3> QED BY <1>14, <1>15, <3>2, <3>3 DEF is_object
  <2> QED BY <1>3, <1>14, <2>2, <2>3
        DEF validate_descriptor_shape, ReferenceMapShape, EphemeronAndBuilderShape
<1>17. storage_slot_count(q) = width
  BY <1>14 DEF storage_slot_count, width
<1>18. SameButOperands(h, start) /\ room.allocated = h.allocated /\ room.stress = h.stress
  BY <1>5, <1>12 DEF Carries, SameButOperands
<1>19. PlacedAs(room, base, gen, q, g)
  BY <1>1, <1>2, <1>3, <1>13, PlacedIs
<1>20. Placed(room, q, g)
  <2>1. room.phase # "compacting" /\ base \in Nat /\ gen = room.generations[base] + 1
    BY <1>6, <1>7, <1>12 DEF gen
  <2>2. q.data = room.allocated /\ (q.kind = "Builder" => q.length > 0)
    BY <1>14, <1>18 DEF Fits
  <2>3. \A v \in SoftReferences(q) : Resolves(room, v)
    BY <1>15 DEF SoftReferences
  <2>4. base + storage_slot_count(q) <= Size(room) /\ Vacant(room, base, storage_slot_count(q))
    BY <1>8, <1>10, <1>11, <1>17
  <2> QED BY <1>10, <1>14, <1>16, <1>19, <2>1, <2>2, <2>3, <2>4, PlaceKeeps
<1>21. SameShape(o, ObjectOf(g, g.extra[1]))
  BY <1>14, <1>20 DEF Placed, SameShape
<1>22. ASSUME NEW id \in g.intern_table
       PROVE  \E old \in h.intern_table : ObjectOf(h, old).text = ObjectOf(g, id).text
  <2>1. id \in room.intern_table /\ ObjectOf(room, id).text = ObjectOf(g, id).text
    BY <1>20 DEF Placed
  <2>2. PICK old \in start.intern_table : ObjectOf(start, old).text = ObjectOf(room, id).text
    BY <1>12, <2>1 DEF Carries
  <2>3. ObjectOf(start, old) = ObjectOf(h, old) /\ old \in h.intern_table
    <3>1. checked_slot(start, old) = checked_slot(h, old)
      BY <1>5, SamePlacesResolve DEF LayoutInv
    <3> QED BY <1>5, <2>2, <3>1 DEF SameButOperands, ObjectOf
  <2> QED BY <2>1, <2>2, <2>3
<1>23. g.phase # "compacting" /\ g.allocated = h.allocated + 1 /\ g.stress = h.stress
  BY <1>6, <1>12, <1>18, <1>20 DEF Placed
<1>24. Allocated(h, o, g)
  BY <1>20, <1>21, <1>22, <1>23 DEF Placed, Allocated
<1>25. ASSUME NEW i \in DOMAIN q.strong
       PROVE  i \in DOMAIN o.strong /\ Becomes(h, o.strong[i], room, q.strong[i])
  <2>1. i \in DOMAIN o.strong /\ i \in DOMAIN room.extra /\ q.strong[i] = room.extra[i] /\ refs[i] = o.strong[i]
    BY <1>14
  <2>2. i \in DOMAIN start.extra
    <3>1. DOMAIN room.extra = 1 .. Len(room.extra) /\ DOMAIN refs = 1 .. Len(refs)
      BY <1>4, <1>13, LenProperties
    <3> QED BY <1>5, <1>13, <2>1, <3>1
  <2>3. Becomes(start, start.extra[i], room, room.extra[i])
    BY <1>12, <2>2 DEF Carries
  <2>4. Becomes(start, o.strong[i], room, q.strong[i])
    BY <1>5, <2>1, <2>3
  <2>5. \A v : (Resolves(start, v) <=> Resolves(h, v)) /\ ObjectOf(start, v) = ObjectOf(h, v)
    <3>1. \A v : (Resolves(start, v) <=> Resolves(h, v)) /\ checked_slot(start, v) = checked_slot(h, v)
      BY <1>5, SamePlacesResolve DEF LayoutInv
    <3> QED BY <1>5, <3>1 DEF ObjectOf, SameButOperands
  <2> QED BY <2>1, <2>4, <2>5 DEF Becomes
<1>26. Places(k, n, room, base, gen, q, g)
  <2>1. room.phase # "compacting" /\ base \in Nat /\ gen = room.generations[base] + 1
    BY <1>6, <1>7, <1>12 DEF gen
  <2>2. base + storage_slot_count(q) <= Size(room) /\ Vacant(room, base, storage_slot_count(q))
    BY <1>8, <1>10, <1>11, <1>17
  <2> QED BY <1>6, <1>8, <1>9, <1>10, <1>14, <1>19, <2>1, <2>2 DEF Places
<1>27. k = CompactionFinished([h EXCEPT !.extra = References(o)])
  BY <1>2 DEF refs
<1>28. Constructed(h, o, g)
  BY <1>14, <1>25, <1>26, <1>27 DEF Constructed
<1> QED BY <1>24, <1>28

(***************************************************************************)
(* The collections before and after an allocation, and what the            *)
(* constructors are given.                                                 *)
(***************************************************************************)

LEMMA StressBeforeKeeps ==
  ASSUME NEW h, LayoutInv(h), NEW operands \in Seq(Values), NEW b, b = StressBeforeAllocation(h, operands)
  PROVE  /\ LayoutInv(b) /\ b.allocated = h.allocated /\ b.stress = h.stress
         /\ Carries([h EXCEPT !.extra = operands], b)
<1> DEFINE start == [h EXCEPT !.extra = operands]
           major == "Major"
<1>1. CASE "before" \in h.stress
  <2>1. b = collect_with_extra_roots(h, operands, major)
    BY <1>1 DEF StressBeforeAllocation
  <2> HIDE DEF major
  <2> QED BY <2>1, CollectWithRootsKeeps
<1>2. CASE "before" \notin h.stress
  <2>1. b = start
    BY <1>2 DEF StressBeforeAllocation
  <2>2. LayoutInv(start) /\ SameButOperands(h, start) /\ start.stress = h.stress
    BY RootedKeeps
  <2> QED BY <2>1, <2>2, SameHeapCarries DEF SameButOperands
<1> QED BY <1>1, <1>2

LEMMA StressAfterKeeps ==
  ASSUME NEW h, NEW o, NEW g, Allocated(h, o, g), NEW k, k = StressAfterAllocation(g)
  PROVE  Allocated(h, o, k)
<1> DEFINE start == [g EXCEPT !.extra = g.extra]
           major == "Major"
<1>1. CASE "after" \notin g.stress
  BY <1>1 DEF StressAfterAllocation
<1>2. CASE "after" \in g.stress
  <2>1. k = collect_with_extra_roots(g, g.extra, major)
    BY <1>2 DEF StressAfterAllocation
  <2>2. LayoutInv(g) /\ g.extra \in Seq(Values) /\ HeapIsTyped(g)
    BY DEF Allocated, LayoutInv, HeapIsTyped
  <2> HIDE DEF major
  <2>3. /\ LayoutInv(k) /\ k.phase = "idle" /\ k.allocated = g.allocated /\ k.stress = g.stress
        /\ Carries(start, k)
    BY <2>1, <2>2, CollectWithRootsKeeps
  <2>4. SamePlaces(g, start) /\ SameButOperands(g, start) /\ start.extra = g.extra
    BY <2>2, RootedKeeps
  <2> HIDE DEF start
  <2>5. \A v : ObjectOf(start, v) = ObjectOf(g, v) /\ (Resolves(start, v) <=> Resolves(g, v))
    BY <2>2, <2>4, SamePlacesResolve DEF ObjectOf, SameButOperands
  <2>6. Becomes(start, start.extra[1], k, k.extra[1]) /\ Len(k.extra) = 1
    <3>1. 1 \in DOMAIN start.extra
      BY <2>2, <2>4 DEF Allocated
    <3> QED BY <2>3, <2>4, <3>1 DEF Carries, Allocated
  <2>7. is_object(g.extra[1]) /\ Resolves(g, g.extra[1]) /\ SameShape(o, ObjectOf(g, g.extra[1]))
    BY IdsAreReferences DEF Allocated
  <2>8. is_object(k.extra[1]) /\ Resolves(k, k.extra[1]) /\ SameShape(o, ObjectOf(k, k.extra[1]))
    BY <2>4, <2>5, <2>6, <2>7 DEF Becomes, SameShape
  <2>9. k.extra[1] \in Ids
    <3>1. k.extra \in Seq(Values)
      BY <2>3 DEF LayoutInv, HeapIsTyped
    <3> QED BY <2>6, <2>8, <3>1 DEF Values, is_object
  <2>10. ASSUME NEW id \in k.intern_table
         PROVE  \E old \in h.intern_table : ObjectOf(h, old).text = ObjectOf(k, id).text
    <3>1. PICK mid \in g.intern_table : ObjectOf(g, mid).text = ObjectOf(k, id).text
      BY <2>3, <2>4, <2>5 DEF Carries, SameButOperands
    <3> QED BY <3>1 DEF Allocated
  <2> QED BY <2>3, <2>6, <2>8, <2>9, <2>10 DEF Allocated
<1> QED BY <1>1, <1>2

LEMMA ConstructKeeps ==
  ASSUME NEW b, LayoutInv(b), NEW o, Fits(b, o),
         NEW k, k = StressAfterAllocation(allocate_object(b, o))
  PROVE  Allocated(b, o, k)
<1> DEFINE g == allocate_object(b, o)
<1>1. g = allocate_object(b, o) /\ k = StressAfterAllocation(g)
  OBVIOUS
<1> HIDE DEF g
<1>2. Allocated(b, o, g)
  BY <1>1, AllocateObjectKeeps
<1> QED BY <1>1, <1>2, StressAfterKeeps

\* The operands of a method, in the heap g that it goes on with.
Followed(h, operands, g) ==
  /\ LayoutInv(g) /\ g.allocated = h.allocated /\ g.stress = h.stress
  /\ g.extra \in Seq(Values) /\ Len(g.extra) = Len(operands)
  /\ \A i \in DOMAIN operands : i \in DOMAIN g.extra /\ Becomes(h, operands[i], g, g.extra[i])
  /\ \A id \in g.intern_table : \E old \in h.intern_table : ObjectOf(h, old).text = ObjectOf(g, id).text

LEMMA OperandsFollow ==
  ASSUME NEW h, LayoutInv(h), NEW operands \in Seq(Values),
         NEW g, LayoutInv(g), Carries([h EXCEPT !.extra = operands], g)
  PROVE  Followed(h, operands, g)
<1> DEFINE start == [h EXCEPT !.extra = operands]
<1>1. /\ SamePlaces(h, start) /\ SameButOperands(h, start) /\ start.extra = operands
      /\ start.stress = h.stress
  BY RootedKeeps
<1>2. Carries(start, g)
  OBVIOUS
<1> HIDE DEF start
<1>3. \A v : ObjectOf(start, v) = ObjectOf(h, v) /\ (Resolves(start, v) <=> Resolves(h, v))
  BY <1>1, SamePlacesResolve DEF ObjectOf, SameButOperands, LayoutInv
<1>4. g.extra \in Seq(Values) /\ Len(g.extra) = Len(operands)
  BY <1>1, <1>2 DEF LayoutInv, HeapIsTyped, Carries
<1>5. DOMAIN operands = 1 .. Len(operands) /\ DOMAIN g.extra = 1 .. Len(operands)
  BY <1>4, LenProperties
<1>6. ASSUME NEW i \in DOMAIN operands PROVE Becomes(h, operands[i], g, g.extra[i])
  <2>1. Becomes(start, operands[i], g, g.extra[i])
    BY <1>1, <1>2 DEF Carries
  <2> QED BY <1>3, <2>1 DEF Becomes
<1>7. g.allocated = h.allocated /\ g.stress = h.stress
  BY <1>1, <1>2 DEF Carries, SameButOperands
<1>8. ASSUME NEW id \in g.intern_table
      PROVE  \E old \in h.intern_table : ObjectOf(h, old).text = ObjectOf(g, id).text
  BY <1>1, <1>2, <1>3 DEF Carries, SameButOperands
<1> QED BY <1>4, <1>5, <1>6, <1>7, <1>8 DEF Followed

LEMMA StressBeforeFollows ==
  ASSUME NEW h, LayoutInv(h), NEW operands \in Seq(Values), NEW b, b = StressBeforeAllocation(h, operands)
  PROVE  Followed(h, operands, b)
BY StressBeforeKeeps, OperandsFollow

LEMMA CompactionFinishedFollows ==
  ASSUME NEW h, LayoutInv(h), NEW operands \in Seq(Values),
         NEW g, g = CompactionFinished([h EXCEPT !.extra = operands])
  PROVE  Followed(h, operands, g) /\ g.phase \in {"idle", "marking"}
         /\ KeepsTexts([h EXCEPT !.extra = operands], g)
<1> DEFINE start == [h EXCEPT !.extra = operands]
<1>1. LayoutInv(start) /\ g = CompactionFinished(start)
  BY RootedKeeps
<1> HIDE DEF start
<1>2. LayoutInv(g) /\ Carries(start, g) /\ KeepsTexts(start, g) /\ g.phase \in {"idle", "marking"}
  BY <1>1, CompactionFinishedKeeps
<1> QED BY <1>2, OperandsFollow DEF start

LEMMA NewObjectFits ==
  ASSUME NEW b, LayoutInv(b), NEW shape, Constructible(shape),
         NEW values \in Seq(Values), Len(values) = shape.refs,
         NEW text \in Seq(Chunks), shape.kind = "Builder" => text = <<>>,
         shape.kind = "Ephemeron" => is_object(values[1]),
         \A i \in DOMAIN values : is_object(values[i]) => Resolves(b, values[i]),
         NEW o, o = NewObject(b, shape, values, text)
  PROVE  Fits(b, o) /\ o.text = text
<1> DEFINE soft == shape.kind \in {"WeakRef", "Ephemeron"}
<1>1. b.allocated \in Nat
  BY DEF LayoutInv, HeapIsTyped
<1>2. /\ o.kind = shape.kind /\ o.length = shape.length /\ o.data = b.allocated /\ o.text = text
      /\ o.strong = IF soft THEN <<>> ELSE values
      /\ o.soft = IF soft THEN values ELSE <<>>
  BY DEF NewObject
<1>3. o \in Objects
  <2>1. shape.kind \in Kinds /\ shape.length \in Nat
    BY DEF Constructible
  <2> QED BY <1>1, <2>1 DEF NewObject, Objects
<1>4. \A v \in SoftReferences(o) : Resolves(b, v)
  BY <1>2 DEF SoftReferences
<1>5. values = <<>> <=> shape.refs = 0
  OBVIOUS
<1>6. validate_descriptor_shape(o)
  <2>1. o.kind = "Builder" => kStorageSlotBytes * Len(o.text) <= o.length
    BY <1>2 DEF Constructible, kStorageSlotBytes
  <2>2. /\ ReferenceMapShape(o)
        /\ o.kind = "Ephemeron" => Len(o.soft) = 2 /\ (o.soft[1] = Nil => o.soft[2] = Nil)
    BY <1>2 DEF Constructible, ReferenceMapShape, is_object
  <2>3. /\ o.kind = "Pair" => o.length = 2 /\ Len(o.strong) = 2
        /\ o.kind = "RefArray" => Len(o.strong) = o.length
        /\ o.kind = "Closure" => Len(o.strong) <= o.length
        /\ o.kind = "WeakRef" => Len(o.soft) = 1
    BY <1>2 DEF Constructible
  <2>5. o.kind = "Map" => Len(o.strong) = 2 * o.length
    <3>1. o.kind = "Map" => Len(o.strong) = 0 /\ o.length = 0
      BY <1>2 DEF Constructible
    <3> QED BY <3>1
  <2>4. /\ o.kind \in {"ScalarArray", "Str", "Builder", "WeakRef", "Ephemeron"} => o.strong = <<>>
        /\ o.kind \notin {"WeakRef", "Ephemeron"} => o.soft = <<>>
    BY <1>2, <1>5 DEF Constructible
  <2> QED BY <2>1, <2>2, <2>3, <2>4, <2>5 DEF validate_descriptor_shape, EphemeronAndBuilderShape
<1>7. o.kind = "Builder" => o.length > 0
  BY <1>2 DEF Constructible
<1> QED BY <1>2, <1>3, <1>4, <1>6, <1>7 DEF Fits

LEMMA NewStringFits ==
  ASSUME NEW b, LayoutInv(b), NEW text \in Seq(Chunks), NEW o, o = NewString(b, text)
  PROVE  Fits(b, o) /\ o.text = text /\ o.kind = "Str"
<1>1. b.allocated \in Nat /\ kStorageSlotBytes * Len(text) \in Nat
  BY DEF LayoutInv, HeapIsTyped, kStorageSlotBytes
<1>2. /\ o.kind = "Str" /\ o.length = kStorageSlotBytes * Len(text) /\ o.data = b.allocated
      /\ o.text = text /\ o.strong = <<>> /\ o.soft = <<>>
      /\ o.age = "Young" /\ o.marked = FALSE
      /\ DOMAIN o = {"kind", "length", "data", "age", "marked", "strong", "soft", "text"}
  BY DEF NewString, NewObject
<1>3. o \in Objects
  <2>1. o = [kind |-> "Str", length |-> kStorageSlotBytes * Len(text), data |-> b.allocated,
             age |-> "Young", marked |-> FALSE, strong |-> <<>>, soft |-> <<>>, text |-> text]
    BY DEF NewString, NewObject
  <2> QED BY <1>1, <2>1 DEF Objects, Kinds
<1>4. SoftReferences(o) = {}
  BY <1>2 DEF SoftReferences
<1>5. validate_descriptor_shape(o)
  BY <1>2 DEF validate_descriptor_shape, ReferenceMapShape, EphemeronAndBuilderShape
<1> QED BY <1>2, <1>3, <1>4, <1>5 DEF Fits

LEMMA ResolvedObject ==
  ASSUME NEW h, LayoutInv(h), NEW v \in Values, Resolves(h, v)
  PROVE  /\ v \in Ids /\ is_object(v) /\ checked_slot(h, v) \in Headers(h)
         /\ ObjectOf(h, v) \in Objects /\ validate_descriptor_shape(ObjectOf(h, v))
<1>1. v \in Ids /\ is_object(v)
  BY DEF Resolves, Values, is_object
<1>2. checked_slot(h, v) \in Headers(h)
  BY <1>1, ResolvedIsHeader DEF LayoutInv
<1> QED BY <1>1, <1>2, HeaderIsObject DEF LayoutInv, RunsFollow, ObjectOf

(***************************************************************************)
(* Strings.                                                                *)
(***************************************************************************)

\* The one string that g has and h has not holds text.
TextAllocated(h, text, g) ==
  /\ LayoutInv(g) /\ g.phase # "compacting" /\ g.allocated = h.allocated + 1
  /\ Len(g.extra) = 1 /\ g.extra[1] \in Ids /\ Resolves(g, g.extra[1])
  /\ ObjectOf(g, g.extra[1]).kind = "Str" /\ ObjectOf(g, g.extra[1]).text = text
  /\ \A id \in g.intern_table : \E old \in h.intern_table : ObjectOf(h, old).text = ObjectOf(g, id).text

\* g has a new string of this text, for a method with these operands.
StringBuilt(h, operands, text, g) ==
  LET b == StressBeforeAllocation(h, operands)
  IN  /\ operands \in Seq(Values) /\ text \in Seq(Chunks) /\ LayoutInv(b)
      /\ g = StressAfterAllocation(allocate_object(b, NewString(b, text)))

LEMMA StringKeeps ==
  ASSUME NEW h, NEW operands, NEW b, Followed(h, operands, b), NEW text \in Seq(Chunks),
         NEW g, g = StressAfterAllocation(allocate_object(b, NewString(b, text)))
  PROVE  TextAllocated(h, text, g)
<1> DEFINE o == NewString(b, text)
<1>1. LayoutInv(b) /\ o = NewString(b, text) /\ g = StressAfterAllocation(allocate_object(b, o))
  BY DEF Followed
<1> HIDE DEF o
<1>2. Fits(b, o) /\ o.text = text /\ o.kind = "Str"
  BY <1>1, NewStringFits
<1>3. Allocated(b, o, g)
  BY <1>1, <1>2, ConstructKeeps
<1>4. ASSUME NEW id \in g.intern_table
      PROVE  \E old \in h.intern_table : ObjectOf(h, old).text = ObjectOf(g, id).text
  <2>1. PICK mid \in b.intern_table : ObjectOf(b, mid).text = ObjectOf(g, id).text
    BY <1>3 DEF Allocated
  <2> QED BY <2>1 DEF Followed
<1> QED BY <1>2, <1>3, <1>4 DEF Allocated, SameShape, Followed, TextAllocated

LEMMA FollowedText ==
  ASSUME NEW h, LayoutInv(h), NEW operands \in Seq(Values), NEW b, Followed(h, operands, b),
         NEW i \in DOMAIN operands, Resolves(h, operands[i])
  PROVE  /\ Resolves(b, b.extra[i]) /\ b.extra[i] \in Ids
         /\ SameShape(ObjectOf(h, operands[i]), ObjectOf(b, b.extra[i]))
         /\ ObjectOf(b, b.extra[i]) \in Objects /\ ObjectOf(b, b.extra[i]).text \in Seq(Chunks)
<1>1. is_object(operands[i]) /\ i \in DOMAIN b.extra /\ Becomes(h, operands[i], b, b.extra[i])
  BY DEF Resolves, Followed
<1>2. b.extra[i] \in Values /\ LayoutInv(b)
  BY <1>1 DEF Followed
<1>3. Resolves(b, b.extra[i]) /\ SameShape(ObjectOf(h, operands[i]), ObjectOf(b, b.extra[i]))
  BY <1>1 DEF Becomes
<1> QED BY <1>2, <1>3, ResolvedObject, ObjectFields

LEMMA ConcatKeeps ==
  ASSUME NEW h, LayoutInv(h), NEW left \in Values, Resolves(h, left),
         NEW right \in Values, Resolves(h, right), NEW g, g = allocate_string_concat(h, left, right)
  PROVE  \E text : TextAllocated(h, text, g) /\ StringBuilt(h, <<left, right>>, text, g)
<1> DEFINE operands == <<left, right>>
           b == StressBeforeAllocation(h, operands)
           text == ObjectOf(b, b.extra[1]).text \o ObjectOf(b, b.extra[2]).text
<1>0. operands = <<left, right>> /\ b = StressBeforeAllocation(h, operands)
  OBVIOUS
<1>1. g = StressAfterAllocation(allocate_object(b, NewString(b, text)))
  BY DEF allocate_string_concat, AllocateFrom, AllocateIn
<1>2. operands \in Seq(Values) /\ 1 \in DOMAIN operands /\ 2 \in DOMAIN operands
      /\ operands[1] = left /\ operands[2] = right
  OBVIOUS
<1> HIDE DEF operands
<1>3. Followed(h, operands, b)
  BY <1>2, StressBeforeFollows
<1> HIDE DEF b
<1>4. ObjectOf(b, b.extra[1]).text \in Seq(Chunks) /\ ObjectOf(b, b.extra[2]).text \in Seq(Chunks)
  BY <1>2, <1>3, FollowedText
<1>5. text \in Seq(Chunks)
  BY <1>4, ConcatProperties
<1> HIDE DEF text
<1>6. StringBuilt(h, operands, text, g)
  BY <1>0, <1>1, <1>2, <1>3, <1>5 DEF StringBuilt, Followed
<1> QED BY <1>0, <1>1, <1>3, <1>5, <1>6, StringKeeps

LEMMA SubstringKeeps ==
  ASSUME NEW h, LayoutInv(h), NEW source \in Values, Resolves(h, source),
         NEW hi \in 0 .. Len(ObjectOf(h, source).text), NEW lo \in 0 .. hi,
         NEW g, g = allocate_string_substring(h, source, lo, hi)
  PROVE  \E text : TextAllocated(h, text, g) /\ StringBuilt(h, <<source>>, text, g)
<1> DEFINE operands == <<source>>
           b == StressBeforeAllocation(h, operands)
           text == SubSeq(ObjectOf(b, b.extra[1]).text, lo + 1, hi)
<1>0. operands = <<source>> /\ b = StressBeforeAllocation(h, operands)
  OBVIOUS
<1>1. g = StressAfterAllocation(allocate_object(b, NewString(b, text)))
  BY DEF allocate_string_substring, AllocateFrom, AllocateIn
<1>2. operands \in Seq(Values) /\ 1 \in DOMAIN operands /\ operands[1] = source
  OBVIOUS
<1> HIDE DEF operands
<1>3. Followed(h, operands, b)
  BY <1>2, StressBeforeFollows
<1> HIDE DEF b
<1>4. /\ ObjectOf(b, b.extra[1]).text \in Seq(Chunks)
      /\ ObjectOf(b, b.extra[1]).text = ObjectOf(h, source).text
  BY <1>2, <1>3, FollowedText DEF SameShape
<1>5. text \in Seq(Chunks)
  <2>1. ASSUME NEW i \in lo + 1 .. hi PROVE ObjectOf(b, b.extra[1]).text[i] \in Chunks
    BY <1>4, ElementOfSeq
  <2>2. lo + 1 \in Int /\ hi \in Int
    OBVIOUS
  <2> QED BY <2>1, <2>2, SubSeqProperties
<1> HIDE DEF text
<1>6. StringBuilt(h, operands, text, g)
  BY <1>0, <1>1, <1>2, <1>3, <1>5 DEF StringBuilt, Followed
<1> QED BY <1>0, <1>1, <1>3, <1>5, <1>6, StringKeeps

LEMMA CopyKeeps ==
  ASSUME NEW h, LayoutInv(h), 1 \in DOMAIN h.extra, Resolves(h, h.extra[1]),
         NEW g, g = CopyOperandText(h)
  PROVE  /\ TextAllocated(h, ObjectOf(h, h.extra[1]).text, g)
         /\ StringBuilt(h, h.extra, ObjectOf(h, h.extra[1]).text, g)
<1> DEFINE b == StressBeforeAllocation(h, h.extra)
           text == ObjectOf(b, b.extra[1]).text
<1>0. b = StressBeforeAllocation(h, h.extra)
  OBVIOUS
<1>1. g = StressAfterAllocation(allocate_object(b, NewString(b, text)))
  BY DEF CopyOperandText, AllocateFrom, AllocateIn
<1>2. h.extra \in Seq(Values)
  BY DEF LayoutInv, HeapIsTyped
<1>3. Followed(h, h.extra, b)
  BY <1>2, StressBeforeFollows
<1> HIDE DEF b
<1>4. text \in Seq(Chunks) /\ text = ObjectOf(h, h.extra[1]).text
  BY <1>2, <1>3, FollowedText DEF SameShape
<1> HIDE DEF text
<1>5. StringBuilt(h, h.extra, text, g)
  BY <1>0, <1>1, <1>2, <1>3, <1>4 DEF StringBuilt, Followed
<1> QED BY <1>1, <1>3, <1>4, <1>5, StringKeeps

LEMMA BuilderToStringKeeps ==
  ASSUME NEW h, LayoutInv(h), NEW builder \in Values, Resolves(h, builder),
         NEW g, g = builder_to_string(h, builder)
  PROVE  LayoutInv(g) /\ g.extra[1] \in Ids /\ g.allocated = h.allocated + 1
<1> DEFINE operands == <<builder>>
           still == CompactionFinished([h EXCEPT !.extra = operands])
<1>1. g = CopyOperandText(still)
  BY DEF builder_to_string
<1>2. operands \in Seq(Values) /\ 1 \in DOMAIN operands /\ operands[1] = builder
  OBVIOUS
<1> HIDE DEF operands
<1>3. Followed(h, operands, still)
  BY <1>2, CompactionFinishedFollows
<1> HIDE DEF still
<1>4. Resolves(still, still.extra[1])
  BY <1>2, <1>3, FollowedText
<1>5. TextAllocated(still, ObjectOf(still, still.extra[1]).text, g)
  BY <1>1, <1>2, <1>3, <1>4, CopyKeeps DEF Followed
<1> QED BY <1>3, <1>5 DEF TextAllocated, Followed

\* The new canonical string is the only one of its text.
LEMMA AddedToInternTable ==
  ASSUME NEW h, NEW text, NEW k, TextAllocated(h, text, k), CanonicalStrings(h, text) = {},
         NEW g, g = AddToInternTable(k)
  PROVE  LayoutInv(g) /\ g.extra = k.extra /\ g.allocated = k.allocated
<1> DEFINE id == k.extra[1]
<1>1. /\ LayoutInv(k) /\ HeapIsTyped(k) /\ RunsFollow(k) /\ PhaseIsClean(k) /\ RegistriesName(k)
      /\ NamesAreUsed(k) /\ DOMAIN k = HeapFields /\ k.phase # "compacting" /\ k.cursor = 0
      /\ id \in Ids /\ Resolves(k, id) /\ ObjectOf(k, id).kind = "Str" /\ ObjectOf(k, id).text = text
  BY DEF TextAllocated, LayoutInv, HeapIsTyped, PhaseIsClean
<1>2. checked_slot(k, id) \in Headers(k) /\ id = IdAt(k, checked_slot(k, id))
  BY <1>1, StillReference
<1>3. id \in OfKind(k, "Str")
  BY <1>1, <1>2 DEF OfKind, ObjectOf
<1>4. \A a \in k.intern_table : ObjectOf(k, a).text # text
  BY DEF TextAllocated, CanonicalStrings
<1>5. /\ DOMAIN g = HeapFields /\ g.intern_table = k.intern_table \cup {id}
      /\ g.objects = k.objects /\ g.generations = k.generations /\ g.remembered_set = k.remembered_set
      /\ g.weak_refs = k.weak_refs /\ g.ephemerons = k.ephemerons
      /\ g.worklist = k.worklist /\ g.cells = k.cells /\ g.extra = k.extra /\ g.phase = k.phase
      /\ g.plan = k.plan /\ g.cursor = k.cursor /\ g.shadow = k.shadow /\ g.allocated = k.allocated
  BY <1>1 DEF HeapFields, AddToInternTable
<1> HIDE DEF id
<1>6. Size(g) = Size(k) /\ Headers(g) = Headers(k)
  BY <1>5 DEF Size, Headers
<1>7. HeapIsTyped(g)
  BY <1>1, <1>5, <1>6 DEF HeapIsTyped
<1>8. SamePlaces(k, g)
  BY <1>5, <1>6, <1>7 DEF SamePlaces
<1>9. /\ \A v : ObjectOf(g, v) = ObjectOf(k, v) /\ (Resolves(g, v) <=> Resolves(k, v))
      /\ \A s \in Headers(k) : IdAt(g, s) = IdAt(k, s)
      /\ \A s : Width(g, s) = Width(k, s)
  BY <1>1, <1>5, <1>8, SamePlacesResolve DEF ObjectOf, Width
<1>10. \A kind : OfKind(g, kind) = OfKind(k, kind)
  BY <1>5, <1>6, <1>9 DEF OfKind
<1>11. RegistriesName(g)
  <2>1. g.intern_table \subseteq OfKind(g, "Str")
    BY <1>1, <1>3, <1>5, <1>10 DEF RegistriesName
  <2>2. \A a, b \in g.intern_table : ObjectOf(g, a).text = ObjectOf(g, b).text => a = b
    BY <1>1, <1>4, <1>5, <1>9 DEF RegistriesName
  <2> QED BY <1>1, <1>5, <1>6, <1>9, <1>10, <2>1, <2>2 DEF RegistriesName
<1>12. RunsFollow(g)
  BY <1>1, <1>5, <1>6, <1>9 DEF RunsFollow
<1>13. PhaseIsClean(g)
  BY <1>1, <1>5 DEF PhaseIsClean
<1>14. NamesAreUsed(g)
  BY <1>1, <1>5, <1>6 DEF NamesAreUsed
<1> QED BY <1>5, <1>7, <1>11, <1>12, <1>13, <1>14 DEF LayoutInv

LEMMA ReturnCanonicalKeeps ==
  ASSUME NEW h, LayoutInv(h), h.phase # "compacting", NEW hit \in h.intern_table,
         NEW g, g = ReturnCanonical(h, hit)
  PROVE  LayoutInv(g) /\ g.extra = <<hit>> /\ hit \in Ids /\ g.allocated = h.allocated
<1> DEFINE grey == IF h.phase = "marking" /\ ~ObjectOf(h, hit).marked
                   THEN h.worklist \cup {hit} ELSE h.worklist
<1>1. HeapIsTyped(h) /\ PhaseIsClean(h) /\ DOMAIN h = HeapFields
  BY DEF LayoutInv, HeapIsTyped
<1>2. /\ DOMAIN g = HeapFields /\ g.extra = <<hit>> /\ g.worklist = grey
      /\ g.objects = h.objects /\ g.generations = h.generations /\ g.remembered_set = h.remembered_set
      /\ g.weak_refs = h.weak_refs /\ g.intern_table = h.intern_table /\ g.ephemerons = h.ephemerons
      /\ g.cells = h.cells /\ g.phase = h.phase
      /\ g.plan = h.plan /\ g.cursor = h.cursor /\ g.shadow = h.shadow /\ g.allocated = h.allocated
  BY <1>1 DEF HeapFields, ReturnCanonical
<1>3. hit \in Ids
  BY <1>1 DEF HeapIsTyped
<1>4. grey \subseteq Ids /\ (h.phase # "marking" => grey = {})
  BY <1>1, <1>3 DEF HeapIsTyped, PhaseIsClean
<1> HIDE DEF grey
<1>5. Size(g) = Size(h) /\ Headers(g) = Headers(h)
  BY <1>2 DEF Size, Headers
<1>6. HeapIsTyped(g)
  <2>1. g.extra \in Seq(Values)
    BY <1>2, <1>3 DEF Values
  <2> QED BY <1>1, <1>2, <1>4, <1>5, <2>1 DEF HeapIsTyped
<1>7. \A s \in Headers(h) : SameContents(h.objects[s], g.objects[s])
  BY <1>1, <1>2, HeaderIsObject DEF SameContents
<1>8. \A id \in g.remembered_set : Resolves(h, id)
  BY <1>2 DEF LayoutInv, RegistriesName
<1>9. LayoutInv(g)
  BY <1>2, <1>4, <1>5, <1>6, <1>7, <1>8, RemarkedKeeps
<1> QED BY <1>2, <1>3, <1>9

LEMMA InternKeeps ==
  ASSUME NEW h, LayoutInv(h), NEW source \in Values, Resolves(h, source),
         NEW g, g = intern_string(h, source)
  PROVE  /\ LayoutInv(g) /\ g.extra[1] \in Ids /\ g.allocated \in {h.allocated, h.allocated + 1}
         /\ CanonicalStrings(h, ObjectOf(h, source).text) # {} => g.allocated = h.allocated
<1> DEFINE operands == <<source>>
           start == [h EXCEPT !.extra = operands]
           still == CompactionFinished(start)
           text == ObjectOf(still, still.extra[1]).text
           hits == CanonicalStrings(still, text)
<1>1. g = IF hits # {} THEN ReturnCanonical(still, CHOOSE id \in hits : TRUE)
          ELSE AddToInternTable(CopyOperandText(still))
  BY DEF intern_string, InternOperand
<1>2. operands \in Seq(Values) /\ 1 \in DOMAIN operands /\ operands[1] = source
  OBVIOUS
<1> HIDE DEF operands
<1>3. Followed(h, operands, still) /\ still.phase # "compacting" /\ KeepsTexts(start, still)
  BY <1>2, CompactionFinishedFollows
<1>4. SamePlaces(h, start) /\ SameButOperands(h, start)
  BY <1>2, RootedKeeps
<1> HIDE DEF start, still
<1>5. text = ObjectOf(h, source).text /\ Resolves(still, still.extra[1])
  BY <1>2, <1>3, FollowedText DEF SameShape
<1>6. \A v : ObjectOf(start, v) = ObjectOf(h, v)
  BY <1>4, SamePlacesResolve DEF ObjectOf, SameButOperands, LayoutInv
<1>7. CanonicalStrings(h, ObjectOf(h, source).text) # {} => hits # {}
  BY <1>3, <1>4, <1>5, <1>6 DEF KeepsTexts, CanonicalStrings, SameButOperands
<1>8. CASE hits # {}
  <2> DEFINE hit == CHOOSE id \in hits : TRUE
  <2>1. hit \in still.intern_table /\ g = ReturnCanonical(still, hit)
    BY <1>1, <1>8 DEF CanonicalStrings
  <2> HIDE DEF hit
  <2>2. LayoutInv(g) /\ g.extra = <<hit>> /\ hit \in Ids /\ g.allocated = still.allocated
    BY <1>3, <2>1, ReturnCanonicalKeeps DEF Followed
  <2> QED BY <1>3, <2>2 DEF Followed
<1>9. CASE hits = {}
  <2> DEFINE k == CopyOperandText(still)
  <2>1. g = AddToInternTable(k)
    BY <1>1, <1>9
  <2>2. TextAllocated(still, text, k)
    BY <1>2, <1>3, <1>5, CopyKeeps DEF Followed
  <2> HIDE DEF k, text
  <2>3. LayoutInv(g) /\ g.extra = k.extra /\ g.allocated = k.allocated
    BY <1>9, <2>1, <2>2, AddedToInternTable
  <2>4. CanonicalStrings(h, ObjectOf(h, source).text) = {}
    BY <1>7, <1>9
  <2> QED BY <1>3, <2>2, <2>3, <2>4 DEF TextAllocated, Followed
<1> QED BY <1>8, <1>9

\* What a constructor is called with.
Given(h, shape, values, text) ==
  /\ Constructible(shape) /\ values \in [1 .. shape.refs -> Values]
  /\ \A i \in 1 .. shape.refs : is_object(values[i]) => Resolves(h, values[i])
  /\ shape.kind = "Ephemeron" => is_object(values[1])
  /\ text \in Seq(Chunks) /\ (shape.kind = "Builder" => text = <<>>)

LEMMA ConstructorKeeps ==
  ASSUME NEW h, LayoutInv(h), NEW shape, NEW values, NEW text, Given(h, shape, values, text),
         NEW b, b = StressBeforeAllocation(h, values),
         NEW o, o = NewObject(b, shape, b.extra, text),
         NEW g, g = StressAfterAllocation(allocate_object(b, o))
  PROVE  /\ LayoutInv(g) /\ g.extra[1] \in Ids /\ g.allocated = h.allocated + 1
         /\ LayoutInv(b) /\ Fits(b, o) /\ OperandsResolve(b)
<1>1. shape.refs \in Nat /\ (shape.kind = "Ephemeron" => shape.refs = 2)
  BY DEF Constructible, Given
<1>2. values \in Seq(Values) /\ Len(values) = shape.refs /\ DOMAIN values = 1 .. shape.refs
  <2>1. values \in Seq(Values)
    BY <1>1, SeqDef DEF Given
  <2> QED BY <1>1, <2>1 DEF Given
<1>3. Followed(h, values, b)
  BY <1>2, StressBeforeFollows
<1>4. LayoutInv(b) /\ b.extra \in Seq(Values) /\ Len(b.extra) = shape.refs
  BY <1>2, <1>3 DEF Followed
<1>5. DOMAIN b.extra = 1 .. shape.refs
  BY <1>1, <1>4, LenProperties
<1>6. \A i \in DOMAIN b.extra : /\ is_object(b.extra[i]) <=> is_object(values[i])
                                /\ is_object(b.extra[i]) => Resolves(b, b.extra[i])
  BY <1>2, <1>3, <1>5 DEF Followed, Becomes, Given
<1>7. shape.kind = "Ephemeron" => is_object(b.extra[1])
  BY <1>1, <1>5, <1>6 DEF Given
<1>8. Fits(b, o)
  BY <1>4, <1>6, <1>7, NewObjectFits DEF Given
<1>9. Allocated(b, o, g)
  BY <1>4, <1>8, ConstructKeeps
<1>10. OperandsResolve(b)
  BY <1>6 DEF OperandsResolve
<1> QED BY <1>3, <1>4, <1>8, <1>9, <1>10 DEF Allocated, Followed

(***************************************************************************)
(* Growth.                                                                 *)
(***************************************************************************)

\* The object of the first operand has width slots for itself in g.
Room(g, width) ==
  /\ g.extra[1] \in Ids /\ Resolves(g, g.extra[1])
  /\ checked_slot(g, g.extra[1]) + width <= Size(g)
  /\ \A t \in Headers(g) :
       checked_slot(g, g.extra[1]) < t => checked_slot(g, g.extra[1]) + width <= t

Grown(h, width, g) ==
  LayoutInv(g) /\ Carries(h, g) /\ g.phase = h.phase /\ Room(g, width)

\* Where the objects of h are when the one at old has moved to the end.
GrowthMoves(h, old, width, to, mo, mg) ==
  /\ to = [s \in Headers(h) |-> IF s = old THEN Size(h) ELSE s]
  /\ mo = [t \in 0 .. Size(h) + width - 1 |->
             IF t = Size(h) THEN h.objects[old]
             ELSE IF t < Size(h) /\ t # old THEN h.objects[t] ELSE None]
  /\ mg = [t \in 0 .. Size(h) + width - 1 |->
             IF t = Size(h) THEN 1 ELSE IF t < Size(h) THEN h.generations[t] ELSE 0]

LEMMA GrowthIsMovement ==
  ASSUME NEW h, LayoutInv(h), NEW old \in Headers(h), NEW width \in Nat \ {0}, Width(h, old) <= width,
         NEW to, NEW mo, NEW mg, GrowthMoves(h, old, width, to, mo, mg)
  PROVE  Moves(h, to, Size(h) + width, mo, mg)
<1>1. /\ HeapIsTyped(h) /\ RunsFollow(h)
      /\ DOMAIN h.objects = 0 .. Size(h) - 1 /\ DOMAIN h.generations = 0 .. Size(h) - 1
      /\ Size(h) \in Nat /\ Headers(h) = {s \in 0 .. Size(h) - 1 : h.objects[s] \in Objects}
      /\ h.objects \in [0 .. Size(h) - 1 -> Objects \cup {None}]
      /\ h.generations \in [0 .. Size(h) - 1 -> Nat]
      /\ \A s \in Headers(h) : /\ s \in Nat /\ s < Size(h) /\ h.objects[s] \in Objects
                               /\ Width(h, s) \in Nat \ {0} /\ h.generations[s] \in Nat
  <2>1. HeapIsTyped(h) /\ RunsFollow(h)
    BY DEF LayoutInv
  <2>2. /\ h.objects \in [0 .. Size(h) - 1 -> Objects \cup {None}]
        /\ h.generations \in [0 .. Size(h) - 1 -> Nat]
    BY <2>1 DEF HeapIsTyped
  <2>3. /\ DOMAIN h.objects = 0 .. Size(h) - 1 /\ DOMAIN h.generations = 0 .. Size(h) - 1
        /\ Size(h) \in Nat
        /\ Headers(h) = {s \in 0 .. Size(h) - 1 : h.objects[s] \in Objects}
        /\ \A s \in Headers(h) : /\ h.objects[s] \in Objects /\ h.generations[s] \in Nat
                                 /\ Width(h, s) \in Nat \ {0}
    BY <2>1, HeaderIsObject
  <2>4. \A s \in Headers(h) : s \in Nat /\ s < Size(h)
    BY <2>3
  <2> QED BY <2>1, <2>2, <2>3, <2>4
<1> DEFINE n == Size(h) + width
<1>2. n \in Nat /\ n = Size(h) + width
  BY <1>1
<1> HIDE DEF n
<1>3. DOMAIN to = Headers(h) /\ \A s \in Headers(h) : to[s] = IF s = old THEN Size(h) ELSE s
  BY DEF GrowthMoves
<1>4. mo \in [0 .. n - 1 -> Objects \cup {None}] /\ mg \in [0 .. n - 1 -> Nat]
  <2>1. 0 .. Size(h) + width - 1 = 0 .. n - 1
    BY <1>1, <1>2
  <2>2. /\ mo = [t \in 0 .. Size(h) + width - 1 |-> mo[t]]
        /\ mg = [t \in 0 .. Size(h) + width - 1 |-> mg[t]]
    BY DEF GrowthMoves
  <2>3. ASSUME NEW t \in 0 .. Size(h) + width - 1
        PROVE  mo[t] \in Objects \cup {None} /\ mg[t] \in Nat
    <3>1. /\ mo[t] = IF t = Size(h) THEN h.objects[old]
                     ELSE IF t < Size(h) /\ t # old THEN h.objects[t] ELSE None
          /\ mg[t] = IF t = Size(h) THEN 1 ELSE IF t < Size(h) THEN h.generations[t] ELSE 0
      BY DEF GrowthMoves
    <3>2. t < Size(h) => t \in 0 .. Size(h) - 1
      BY <1>1
    <3> QED BY <1>1, <3>1, <3>2
  <2> DEFINE d == 0 .. Size(h) + width - 1
  <2>4. /\ mo = [t \in d |-> mo[t]] /\ mg = [t \in d |-> mg[t]]
        /\ d = 0 .. n - 1
        /\ \A t \in d : mo[t] \in Objects \cup {None} /\ mg[t] \in Nat
    BY <2>1, <2>2, <2>3
  <2> HIDE DEF d
  <2>5. mo \in [d -> Objects \cup {None}] /\ mg \in [d -> Nat]
    BY ONLY <2>4
  <2> QED BY <2>4, <2>5
<1>5. \A s \in Headers(h) : h.generations[s] > 0 /\ s + Width(h, s) <= Size(h)
  BY <1>1 DEF RunsFollow
<1>6. ASSUME NEW s \in Headers(h)
      PROVE  /\ to[s] \in 0 .. n - 1 /\ to[s] + Width(h, s) <= n
             /\ SameContents(h.objects[s], mo[to[s]]) /\ mg[to[s]] > 0
  <2>1. to[s] \in 0 .. n - 1 /\ to[s] + Width(h, s) <= n
    <3>1. s \in Nat /\ s < Size(h) /\ Width(h, s) \in Nat /\ s + Width(h, s) <= Size(h)
      BY <1>1, <1>5
    <3>2. to[s] = (IF s = old THEN Size(h) ELSE s) /\ Size(h) \in Nat /\ width \in Nat
          /\ Width(h, old) <= width /\ width > 0
      BY <1>1, <1>3
    <3> DEFINE a == Width(h, s)  b == Size(h)
    <3>3. a = Width(h, s) /\ b = Size(h)
      OBVIOUS
    <3> HIDE DEF a, b
    <3>4. /\ to[s] \in Int /\ 0 <= to[s] /\ to[s] <= b /\ to[s] + a <= b + width
          /\ to[s] < b + width
      BY <3>1, <3>2, <3>3
    <3> QED BY <1>2, <3>3, <3>4
  <2>2. mo[to[s]] = h.objects[s] /\ mg[to[s]] > 0
    BY <1>1, <1>2, <1>3, <1>5, <2>1 DEF GrowthMoves
  <2> QED BY <1>1, <2>1, <2>2 DEF SameContents
<1>7. ASSUME NEW t \in 0 .. n - 1, mo[t] # None PROVE \E s \in Headers(h) : to[s] = t
  <2>1. CASE t = Size(h)
    BY <1>3, <2>1
  <2>2. CASE t # Size(h)
    <3>1. t < Size(h) /\ t # old /\ h.objects[t] # None
      BY <1>1, <1>2, <1>7, <2>2 DEF GrowthMoves
    <3>2. t \in Headers(h)
      BY <1>1, <3>1 DEF Headers
    <3> QED BY <1>3, <3>1, <3>2
  <2> QED BY <2>1, <2>2
<1>8. ASSUME NEW s \in Headers(h), NEW t \in Headers(h), s # t
      PROVE  to[s] + Width(h, s) <= to[t] \/ to[t] + Width(h, t) <= to[s]
  <2>1. s + Width(h, s) <= t \/ t + Width(h, t) <= s
    <3>1. s \in Nat /\ t \in Nat
      BY <1>1
    <3>2. s < t \/ t < s
      BY <1>8, <3>1
    <3> QED BY <1>1, <3>2 DEF RunsFollow
  <2> QED BY <1>1, <1>3, <1>5, <1>8, <2>1
<1> QED BY <1>2, <1>3, <1>4, <1>6, <1>7, <1>8 DEF Moves

\* A table of n slots with width more; x is put in the first of them.
Extended(n, width, a, b) == [t \in 0 .. n + width - 1 |-> IF t \in 0 .. n - 1 THEN a[t] ELSE b]

WithNext(n, width, a, b, x) ==
  [t \in 0 .. n + width - 1 |-> IF t = n THEN x ELSE IF t < n THEN a[t] ELSE b]

WithMoved(n, width, old, a, b, x) ==
  [t \in 0 .. n + width - 1 |-> IF t = n THEN x ELSE IF t < n /\ t # old THEN a[t] ELSE b]

LEMMA ExtendedTables ==
  ASSUME NEW n \in Nat, NEW width \in Nat \ {0}, NEW old \in 0 .. n - 1, NEW a, NEW b, NEW x,
         NEW f, f = Extended(n, width, a, b)
  PROVE  /\ [f EXCEPT ![old] = b, ![n] = x] = WithMoved(n, width, old, a, b, x)
         /\ [f EXCEPT ![n] = x] = WithNext(n, width, a, b, x)
<1>1. n \in 0 .. n + width - 1 /\ old \in 0 .. n + width - 1 /\ old # n
  OBVIOUS
<1>2. \A t \in 0 .. n + width - 1 : t \in 0 .. n - 1 <=> t < n
  OBVIOUS
<1>3. ASSUME NEW t \in 0 .. n + width - 1
      PROVE  /\ [f EXCEPT ![old] = b, ![n] = x][t] =
                  IF t = n THEN x ELSE IF t < n /\ t # old THEN a[t] ELSE b
             /\ [f EXCEPT ![n] = x][t] = IF t = n THEN x ELSE IF t < n THEN a[t] ELSE b
  BY <1>1, <1>2 DEF Extended
<1> QED BY <1>3 DEF Extended, WithMoved, WithNext

LEMMA ReferencesAreCurrent ==
  ASSUME NEW h, LayoutInv(h)
  PROVE  EphemeronsKept(h, Headers(h)) /\ OperandsMove(h, Headers(h))
<1>1. HeapIsTyped(h) /\ RunsFollow(h) /\ PhaseIsClean(h) /\ RegistriesName(h)
  BY DEF LayoutInv
<1>2. ASSUME NEW v \in Values, Resolves(h, v) PROVE checked_slot(h, v) \in Headers(h)
  BY <1>2, ResolvedObject
<1>3. ASSUME NEW s \in Headers(h), h.objects[s].kind = "Ephemeron", is_object(h.objects[s].soft[2])
      PROVE  checked_slot(h, h.objects[s].soft[2]) \in Headers(h)
  <2>1. h.objects[s] \in Objects /\ validate_descriptor_shape(h.objects[s])
    BY <1>1, HeaderIsObject DEF RunsFollow
  <2>2. h.objects[s].soft \in Seq(Values) /\ Len(h.objects[s].soft) = 2
    BY <1>3, <2>1, ObjectFields DEF validate_descriptor_shape, EphemeronAndBuilderShape
  <2>3. 2 \in DOMAIN h.objects[s].soft /\ h.objects[s].soft[2] \in Values
    BY <2>2
  <2>4. h.objects[s].soft[2] \in SoftReferences(h.objects[s])
    BY <1>3, <2>3 DEF SoftReferences
  <2> QED BY <1>1, <1>2, <2>3, <2>4 DEF RegistriesName
<1>4. EphemeronsKept(h, Headers(h))
  BY <1>3 DEF EphemeronsKept
<1>5. h.extra \in Seq(Values)
  BY <1>1 DEF HeapIsTyped
<1>6. \A i \in DOMAIN h.extra : h.extra[i] \in Values
  BY <1>5
<1> QED BY <1>2, <1>4, <1>6 DEF OperandsMove

\* g is h with the object at old moved to the end.
MovedToEnd(h, old, width, g) ==
  \E to, mo, mg :
    GrowthMoves(h, old, width, to, mo, mg) /\ g = InstallMovement(h, mo, mg, ForwardingOf(to, mg))

LEMMA RelocatedForGrowth ==
  ASSUME NEW h, LayoutInv(h), h.phase # "compacting", 1 \in DOMAIN h.extra, Resolves(h, h.extra[1]),
         NEW width \in Nat \ {0}, Width(h, checked_slot(h, h.extra[1])) <= width,
         NEW g, g = relocate_for_growth(h, width)
  PROVE  Grown(h, width, g) /\ MovedToEnd(h, checked_slot(h, h.extra[1]), width, g)
<1> DEFINE old == checked_slot(h, h.extra[1])
           new == Size(h)
           room == Resized(h, new + width)
           gen == room.generations[new] + 1
           mo == [room.objects EXCEPT ![old] = None, ![new] = h.objects[old]]
           mg == [room.generations EXCEPT ![new] = gen]
           forwarding == [s \in Headers(h) |-> IF s = old THEN make_object_id(new, gen) ELSE IdAt(h, s)]
           to == [s \in Headers(h) |-> IF s = old THEN new ELSE s]
<1>1. g = InstallMovement(h, mo, mg, forwarding)
  BY DEF relocate_for_growth, generation_for_new_base
<1>2. /\ LayoutInv(h) /\ HeapIsTyped(h) /\ DOMAIN h = HeapFields /\ Size(h) \in Nat
      /\ DOMAIN h.objects = 0 .. Size(h) - 1 /\ DOMAIN h.generations = 0 .. Size(h) - 1
      /\ \A s \in Headers(h) : s \in Nat /\ s < Size(h)
  <2>1. HeapIsTyped(h)
    BY DEF LayoutInv
  <2>2. DOMAIN h.objects = 0 .. Size(h) - 1 /\ DOMAIN h.generations = 0 .. Size(h) - 1
        /\ Size(h) \in Nat /\ Headers(h) = {s \in 0 .. Size(h) - 1 : h.objects[s] \in Objects}
    BY <2>1, HeaderIsObject
  <2> QED BY <2>1, <2>2 DEF HeapIsTyped
<1>3. h.extra[1] \in Values /\ h.extra[1] \in Ids /\ old \in Headers(h)
  <2>1. h.extra[1] \in Values
    BY <1>2 DEF HeapIsTyped
  <2> QED BY <2>1, ResolvedObject
<1>4. ResizedAs(h, new + width, room)
  BY <1>2, ResizedIs
<1>5. room = Resized(h, new + width) /\ old = checked_slot(h, h.extra[1]) /\ new = Size(h)
  OBVIOUS
<1>6. mo = [room.objects EXCEPT ![old] = None, ![new] = h.objects[old]]
      /\ mg = [room.generations EXCEPT ![new] = gen] /\ gen = room.generations[new] + 1
      /\ to = [s \in Headers(h) |-> IF s = old THEN new ELSE s]
      /\ forwarding = [s \in Headers(h) |-> IF s = old THEN make_object_id(new, gen) ELSE IdAt(h, s)]
  OBVIOUS
<1> HIDE DEF room, gen, mo, mg, to, forwarding, old, new
<1>7. /\ room.objects = [t \in 0 .. new + width - 1 |-> IF t \in 0 .. new - 1 THEN h.objects[t] ELSE None]
      /\ room.generations = [t \in 0 .. new + width - 1 |-> IF t \in 0 .. new - 1 THEN h.generations[t] ELSE 0]
  BY <1>2, <1>4, <1>5 DEF ResizedAs
<1>8. gen = 1
  <2>1. new \in 0 .. new + width - 1 /\ new \notin 0 .. new - 1
    BY <1>2, <1>5
  <2> QED BY <1>6, <1>7, <2>1
<1>9. GrowthMoves(h, old, width, to, mo, mg)
  <2>1. new \in Nat /\ old \in 0 .. new - 1
    BY <1>2, <1>3, <1>5
  <2>2. /\ room.objects = Extended(new, width, h.objects, None)
        /\ room.generations = Extended(new, width, h.generations, 0)
    BY <1>7 DEF Extended
  <2>3. mo = WithMoved(new, width, old, h.objects, None, h.objects[old])
    BY <1>6, <2>1, <2>2, ExtendedTables
  <2>4. mg = WithNext(new, width, h.generations, 0, 1)
    BY <1>6, <1>8, <2>1, <2>2, ExtendedTables
  <2> QED BY <1>5, <1>6, <2>3, <2>4 DEF GrowthMoves, WithMoved, WithNext
<1>10. Moves(h, to, Size(h) + width, mo, mg)
  BY <1>3, <1>5, <1>9, GrowthIsMovement
<1>11. DOMAIN to = Headers(h) /\ forwarding = ForwardingOf(to, mg)
  <2>1. DOMAIN to = Headers(h)
    BY <1>6
  <2>2. ASSUME NEW s \in Headers(h) PROVE forwarding[s] = make_object_id(to[s], mg[to[s]])
    <3>1. s \in Nat /\ s < Size(h)
      BY <1>2
    <3>2. CASE s = old
      BY <1>2, <1>5, <1>6, <1>8, <1>9, <3>2 DEF GrowthMoves
    <3>3. CASE s # old
      <4>1. to[s] = s /\ forwarding[s] = IdAt(h, s)
        BY <1>6, <3>3
      <4>2. s \in 0 .. Size(h) + width - 1 /\ s # Size(h)
        BY <1>2, <3>1
      <4>3. mg[s] = h.generations[s]
        BY <1>9, <3>1, <4>2 DEF GrowthMoves
      <4> QED BY <4>1, <4>3 DEF IdAt
    <3> QED BY <3>2, <3>3
  <2> QED BY <1>6, <2>1, <2>2 DEF ForwardingOf
<1>12. EphemeronsKept(h, DOMAIN to) /\ OperandsMove(h, DOMAIN to)
  BY <1>11, ReferencesAreCurrent
<1>13. g = InstallMovement(h, mo, mg, ForwardingOf(to, mg))
  BY <1>1, <1>11
<1>14. LayoutInv(g) /\ Carries(h, g) /\ g.phase = h.phase
  BY <1>2, <1>10, <1>12, <1>13, MovementKeeps
<1>15. Size(g) = Size(h) + width /\ Headers(g) = {to[s] : s \in DOMAIN to}
  BY <1>2, <1>10, <1>12, <1>13, MovedHeap
<1> DEFINE w == rewrite_value(h, ForwardingOf(to, mg), h.extra[1])
<1>16. w = g.extra[1]
  <2>1. InstalledAs(h, mo, mg, ForwardingOf(to, mg), g)
    BY <1>2, <1>13, Installed
  <2> QED BY <2>1 DEF InstalledAs
<1>17. checked_slot(h, h.extra[1]) \in DOMAIN to
  BY <1>3, <1>5, <1>11
<1>18. w = rewrite_value(h, ForwardingOf(to, mg), h.extra[1])
  OBVIOUS
<1> HIDE DEF w
<1>19. checked_slot(g, w) = to[old] /\ Becomes(h, h.extra[1], g, w)
  BY <1>2, <1>3, <1>5, <1>10, <1>12, <1>13, <1>17, <1>18, MovedReference
<1>20. Resolves(g, g.extra[1]) /\ checked_slot(g, g.extra[1]) = new
  <2>1. to[old] = new
    BY <1>3, <1>6
  <2> QED BY <1>16, <1>19, <2>1 DEF Becomes, Resolves
<1>21. g.extra[1] \in Ids
  <2>1. g.extra \in Seq(Values) /\ Len(g.extra) = Len(h.extra) /\ h.extra \in Seq(Values)
    BY <1>2, <1>14 DEF LayoutInv, HeapIsTyped, Carries
  <2>2. g.extra[1] \in Values
    BY <2>1
  <2> QED BY <1>20, <2>2 DEF Resolves, Values, is_object
<1>22. \A t \in Headers(g) : t \in Nat /\ t <= new
  BY <1>2, <1>5, <1>6, <1>15
<1>23. Room(g, width)
  <2>1. new + width <= Size(g)
    BY <1>2, <1>5, <1>15
  <2>2. \A t \in Headers(g) : new < t => new + width <= t
    BY <1>2, <1>5, <1>22
  <2> QED BY <1>20, <1>21, <2>1, <2>2 DEF Room
<1>24. MovedToEnd(h, old, width, g)
  BY <1>9, <1>13 DEF MovedToEnd
<1> QED BY <1>5, <1>14, <1>23, <1>24 DEF Grown

LEMMA LargerOfTwo ==
  ASSUME NEW a \in Nat, NEW b \in Nat
  PROVE  Max({a, b}) \in Nat /\ a <= Max({a, b}) /\ b <= Max({a, b})
BY DEF Max

\* Growth takes the slots that follow, or moves the object to the end.
GrowsAs(h, width, g) ==
  \/ \E n \in Nat : Size(h) <= n /\ ResizedAs(h, n, g)
  \/ MovedToEnd(h, checked_slot(h, h.extra[1]), width, g)

LEMMA GrowthKeeps ==
  ASSUME NEW h, LayoutInv(h), h.phase # "compacting", 1 \in DOMAIN h.extra, Resolves(h, h.extra[1]),
         NEW width \in Nat \ {0}, Width(h, checked_slot(h, h.extra[1])) <= width,
         NEW g, g = ensure_growth_storage(h, width)
  PROVE  Grown(h, width, g) /\ GrowsAs(h, width, g)
<1> DEFINE slot == checked_slot(h, h.extra[1])
           n == Max({Size(h), slot + width})
           adjacent == (slot + Width(h, slot) .. slot + width - 1) \cap DOMAIN h.objects
<1>1. g = IF \A s \in adjacent : is_storage_slot_free(h, s) THEN Resized(h, n)
          ELSE relocate_for_growth(h, width)
  BY DEF ensure_growth_storage, Width
<1>2. CASE ~(\A s \in adjacent : is_storage_slot_free(h, s))
  BY <1>1, <1>2, RelocatedForGrowth DEF GrowsAs
<1>3. CASE \A s \in adjacent : is_storage_slot_free(h, s)
  <2>1. HeapIsTyped(h) /\ RunsFollow(h) /\ DOMAIN h = HeapFields
    BY DEF LayoutInv, HeapIsTyped
  <2>2. /\ DOMAIN h.objects = 0 .. Size(h) - 1 /\ Size(h) \in Nat
        /\ Headers(h) = {s \in 0 .. Size(h) - 1 : h.objects[s] \in Objects}
        /\ \A s \in Headers(h) : Width(h, s) \in Nat \ {0}
    BY <2>1, HeaderIsObject
  <2>3. h.extra[1] \in Ids /\ slot \in Headers(h)
    <3>1. h.extra[1] \in Values
      BY <2>1 DEF HeapIsTyped
    <3> QED BY <3>1, ResolvedObject
  <2>4. slot \in Nat /\ Width(h, slot) \in Nat
    BY <2>2, <2>3
  <2>5. n \in Nat /\ Size(h) <= n /\ slot + width <= n
    <3>1. slot + width \in Nat
      BY <2>4
    <3> QED BY <2>2, <3>1, LargerOfTwo
  <2> HIDE DEF n
  <2>6. ResizedAs(h, n, g)
    BY <1>1, <1>3, <2>1, ResizedIs
  <2>7. LayoutInv(g) /\ SamePlaces(h, g) /\ Size(g) = n /\ Carries(h, g)
    BY <2>5, <2>6, ResizedKeeps
  <2>8. g.phase = h.phase /\ g.extra = h.extra /\ Headers(g) = Headers(h)
    BY <2>6, <2>7 DEF ResizedAs, SamePlaces
  <2>9. checked_slot(g, g.extra[1]) = slot /\ Resolves(g, g.extra[1])
    BY <2>1, <2>7, <2>8, SamePlacesResolve
  <2>10. ASSUME NEW t \in Headers(h), slot < t, ~(slot + width <= t) PROVE FALSE
    <3>1. t \in Nat /\ t \in DOMAIN h.objects /\ Width(h, t) \in Nat \ {0}
      BY <2>2
    <3>2. slot + Width(h, slot) <= t
      BY <2>1, <2>3, <2>10 DEF RunsFollow
    <3>3. t \in adjacent
      BY <2>4, <2>10, <3>1, <3>2
    <3>4. t \in Occupied(h)
      <4>1. t \in Run(t, storage_slot_count(h.objects[t]))
        BY <3>1 DEF Run, Width
      <4> QED BY <4>1 DEF Occupied
    <3> QED BY <1>3, <3>3, <3>4 DEF is_storage_slot_free
  <2>11. Room(g, width)
    BY <2>3, <2>5, <2>7, <2>8, <2>9, <2>10 DEF Room
  <2>12. GrowsAs(h, width, g)
    BY <2>5, <2>6 DEF GrowsAs
  <2> QED BY <2>7, <2>8, <2>11, <2>12 DEF Grown
<1> QED BY <1>2, <1>3

LEMMA CapacityLadder ==
  ASSUME NEW capacity \in Nat \ {0}, NEW required \in Nat, capacity < required,
         NEW larger, larger = builder_capacity_for_required(capacity, required)
  PROVE  larger \in Nat /\ required <= larger
<1> DEFINE D == 1 .. 2 * required
           Stop == {c \in D : ~(required > c)}
           F == [c \in D |-> 2 * c]
           climb(f) == f = [c \in D |-> IF required > c THEN f[2 * c] ELSE c]
           doubled == CHOOSE f : climb(f)
<1>1. larger = doubled[capacity]
  BY DEF builder_capacity_for_required
<1>2. \E f : climb(f)
  <2>1. \A c \in D \ Stop : F[c] \in D
    <3>1. ASSUME NEW c \in D, required > c PROVE 2 * c \in D
      BY <3>1
    <3> QED BY <3>1
  <2>2. Stop = {c \in D : ~(required > c)} /\ F = [c \in D |-> 2 * c]
    OBVIOUS
  <2> HIDE DEF D, Stop, F
  <2>3. PICK f : Loops(f, D, Stop, F)
    BY <2>1, LoopExists
  <2>4. f = [c \in D |-> IF c \in Stop THEN c ELSE f[F[c]]]
    BY <2>3 DEF Loops
  <2>5. climb(f)
    BY <2>2, <2>4
  <2> QED BY <2>5
<1>3. climb(doubled)
  BY <1>2
<1>4. \A c \in D : doubled[c] = IF required > c THEN doubled[2 * c] ELSE c
  BY <1>3
<1> HIDE DEF doubled, climb
<1> DEFINE good(c) == doubled[c] \in Nat /\ required <= doubled[c]
           bad == {k \in 0 .. 2 * required : \E c \in D : k = 2 * required - c /\ ~good(c)}
<1>5. bad = {}
  <2> SUFFICES ASSUME bad # {} PROVE FALSE
    OBVIOUS
  <2>1. bad \subseteq Nat
    OBVIOUS
  <2> HIDE DEF bad
  <2>2. PICK least \in bad : \A k \in bad : least <= k
    BY <2>1, LeastNumber
  <2> USE DEF bad
  <2>3. PICK c \in D : least = 2 * required - c /\ ~good(c)
    BY <2>2
  <2>4. c \in Nat /\ c \in 1 .. 2 * required
    OBVIOUS
  <2>5. CASE ~(required > c)
    <3>1. doubled[c] = c
      BY <1>4, <2>5
    <3> QED BY <2>3, <2>4, <2>5, <3>1
  <2>6. CASE required > c
    <3>1. 2 * c \in D /\ 2 * required - 2 * c < least /\ 2 * required - 2 * c \in 0 .. 2 * required
      BY <2>3, <2>4, <2>6
    <3>2. doubled[c] = doubled[2 * c]
      BY <1>4, <2>6
    <3>3. ~good(2 * c)
      BY <2>3, <3>2
    <3>4. 2 * required - 2 * c \in bad
      BY <3>1, <3>3
    <3>5. least \in Int
      BY <2>3, <2>4
    <3> HIDE DEF bad, D
    <3>6. least <= 2 * required - 2 * c
      BY <2>2, <3>4
    <3> QED BY <2>4, <3>1, <3>5, <3>6
  <2> QED BY <2>5, <2>6
<1>6. capacity \in D /\ 2 * required - capacity \in 0 .. 2 * required
  OBVIOUS
<1>7. good(capacity)
  BY <1>5, <1>6
<1> QED BY <1>1, <1>7

(***************************************************************************)
(* Stores.                                                                 *)
(***************************************************************************)

\* g is h with the object q at slot.
MutatedAs(h, slot, q, g) ==
  /\ DOMAIN g = HeapFields
  /\ g.objects = [h.objects EXCEPT ![slot] = q]
  /\ g.generations = h.generations /\ g.remembered_set = h.remembered_set
  /\ g.weak_refs = h.weak_refs /\ g.intern_table = h.intern_table /\ g.ephemerons = h.ephemerons
  /\ g.phase = h.phase /\ g.worklist = h.worklist /\ g.plan = h.plan /\ g.cursor = h.cursor
  /\ h.phase # "compacting" => g.shadow = h.shadow
  /\ g.allocated = h.allocated /\ g.stress = h.stress
  /\ g.cells = h.cells /\ g.extra = h.extra

LEMMA MutatedIs ==
  ASSUME NEW h, DOMAIN h = HeapFields, NEW slot, NEW q, NEW twin, NEW p,
         NEW g, g = IF h.phase = "compacting"
                    THEN [[h EXCEPT !.objects[slot] = q] EXCEPT !.shadow.objects[twin] = p]
                    ELSE [h EXCEPT !.objects[slot] = q]
  PROVE  MutatedAs(h, slot, q, g)
<1> DEFINE done == [h EXCEPT !.objects[slot] = q]
<1>1. MutatedAs(h, slot, q, done) /\ done.shadow = h.shadow
  BY DEF HeapFields, MutatedAs
<1>2. CASE h.phase # "compacting"
  BY <1>1, <1>2
<1>3. CASE h.phase = "compacting"
  <2> DEFINE shade == [done.shadow EXCEPT !.objects[twin] = p]
  <2>1. g = [done EXCEPT !.shadow = shade]
    BY <1>3
  <2> HIDE DEF done, shade
  <2> QED BY <1>1, <1>3, <2>1 DEF HeapFields, MutatedAs
<1> QED BY <1>2, <1>3

\* What may be stored: the object q is what it was at slot, or is in place
\* of it where there is room for it.
Replaces(h, slot, q) ==
  /\ slot \in Headers(h) /\ q \in Objects /\ validate_descriptor_shape(q)
  /\ q.kind = h.objects[slot].kind /\ q.data = h.objects[slot].data
  /\ q.kind = "Str" => q.text = h.objects[slot].text
  /\ q.kind = "Builder" => q.length > 0
  /\ \A v \in SoftReferences(q) : Resolves(h, v)
  /\ \/ storage_slot_count(q) = Width(h, slot)
     \/ /\ h.phase # "compacting" /\ slot + storage_slot_count(q) <= Size(h)
        /\ \A t \in Headers(h) : slot < t => slot + storage_slot_count(q) <= t

LEMMA MutatedKeeps ==
  ASSUME NEW h, LayoutInv(h), NEW slot, NEW q, Replaces(h, slot, q), NEW g, MutatedAs(h, slot, q, g)
  PROVE  /\ LayoutInv(g) /\ g.allocated = h.allocated /\ SamePlaces(h, g)
<1>1. HeapIsTyped(h) /\ RunsFollow(h) /\ PhaseIsClean(h) /\ RegistriesName(h) /\ NamesAreUsed(h)
  BY DEF LayoutInv
<1>2. /\ DOMAIN h.objects = 0 .. Size(h) - 1 /\ Size(h) \in Nat
      /\ Headers(h) = {s \in 0 .. Size(h) - 1 : h.objects[s] \in Objects}
      /\ \A s \in Headers(h) : s \in Nat /\ Width(h, s) \in Nat \ {0}
  BY <1>1, HeaderIsObject
<1>3. slot \in Headers(h) /\ slot \in DOMAIN h.objects /\ q # None
  BY <1>2, NoneAssumption DEF Replaces
<1>4. DOMAIN g.objects = DOMAIN h.objects /\ g.objects[slot] = q
      /\ \A s \in DOMAIN h.objects : s # slot => g.objects[s] = h.objects[s]
  BY <1>3 DEF MutatedAs
<1>5. Size(g) = Size(h) /\ Headers(g) = Headers(h)
  BY <1>3, <1>4 DEF Size, Headers
<1>6. HeapIsTyped(g)
  <2>1. h.objects \in [0 .. Size(h) - 1 -> Objects \cup {None}]
    BY <1>1 DEF HeapIsTyped
  <2>2. g.objects \in [0 .. Size(h) - 1 -> Objects \cup {None}]
    BY <2>1 DEF MutatedAs, Replaces
  <2> QED BY <1>1, <1>5, <2>2 DEF HeapIsTyped, MutatedAs
<1>7. SamePlaces(h, g)
  BY <1>5, <1>6 DEF SamePlaces, MutatedAs
<1>8. \A s \in Headers(h) : s # slot => g.objects[s] = h.objects[s] /\ Width(g, s) = Width(h, s)
  BY <1>2, <1>4 DEF Width
<1>9. Width(g, slot) = storage_slot_count(q) /\ storage_slot_count(q) \in Nat
  BY <1>4, WidthOfObject DEF Width, Replaces
<1>10. /\ slot + storage_slot_count(q) <= Size(h)
       /\ \A t \in Headers(h) : slot < t => slot + storage_slot_count(q) <= t
  BY <1>1, <1>3 DEF RunsFollow, Replaces
<1>11. RunsFollow(g)
  <2>1. \A s \in Headers(h) : /\ validate_descriptor_shape(g.objects[s])
                              /\ g.generations[s] > 0 /\ s + Width(g, s) <= Size(h)
    BY <1>1, <1>4, <1>8, <1>9, <1>10 DEF RunsFollow, Replaces, MutatedAs
  <2>2. \A s, t \in Headers(h) : s < t => s + Width(g, s) <= t
    BY <1>1, <1>8, <1>9, <1>10 DEF RunsFollow
  <2> QED BY <1>5, <2>1, <2>2 DEF RunsFollow
<1>12. \A s \in Headers(h) :
         /\ g.objects[s].kind = h.objects[s].kind /\ g.objects[s].data = h.objects[s].data
         /\ g.objects[s].kind = "Str" => g.objects[s].text = h.objects[s].text
         /\ g.objects[s].kind = "Builder" => g.objects[s].length > 0
         /\ \A v \in SoftReferences(g.objects[s]) : Resolves(h, v)
  BY <1>1, <1>4, <1>8 DEF Replaces, NamesAreUsed, RegistriesName
<1>13. g.phase = "compacting" => \A s \in Headers(h) : Width(g, s) = Width(h, s)
  BY <1>8, <1>9 DEF Replaces, MutatedAs
<1>14. \A id \in g.remembered_set : Resolves(h, id)
  BY <1>1 DEF MutatedAs, RegistriesName
<1>15. (g.phase # "marking" => g.worklist = {}) /\ (g.phase # "compacting" => g.shadow = None)
  BY <1>1 DEF MutatedAs, PhaseIsClean
<1>16. Size(h) <= Size(g)
  BY <1>2, <1>5
<1>17. Overwrites(h, g)
  BY <1>7, <1>11, <1>12, <1>13, <1>14, <1>15, <1>16 DEF Overwrites, MutatedAs
<1> QED BY <1>7, <1>17, OverwritesKeep DEF MutatedAs

\* The barriers of a store change no object.
BarredAs(h, g) ==
  /\ LayoutInv(g) /\ SamePlaces(h, g) /\ g.objects = h.objects /\ Size(g) = Size(h)
  /\ g.phase = h.phase /\ g.allocated = h.allocated /\ g.stress = h.stress
  /\ g.cells = h.cells /\ g.extra = h.extra /\ g.intern_table = h.intern_table

\* What the barriers of a store of the values published leave behind.
Recorded(h, owner, shaded, published, g) ==
  /\ h.worklist \subseteq g.worklist /\ g.worklist \subseteq h.worklist \cup (shaded \ {Nil})
  /\ h.phase = "marking" /\ ObjectOf(h, owner).marked
       => \A v \in shaded \ {Nil} : ObjectOf(h, v).marked \/ v \in g.worklist
  /\ h.remembered_set \subseteq g.remembered_set
  /\ g.remembered_set \subseteq h.remembered_set \cup {owner}
  /\ owner \in g.remembered_set \ h.remembered_set => is_old_slot(h, checked_slot(h, owner))
  /\ BarrierTriggered(h, owner, published) => owner \in g.remembered_set

LEMMA BarriersKeep ==
  ASSUME NEW h, LayoutInv(h), NEW owner \in Ids, Resolves(h, owner),
         NEW shaded, shaded \subseteq Values, NEW published,
         NEW g, g = Barriers(h, owner, shaded, published)
  PROVE  BarredAs(h, g) /\ Recorded(h, owner, shaded, published, g)
<1> DEFINE grey == IF h.phase = "marking" /\ ObjectOf(h, owner).marked
                   THEN h.worklist \cup {v \in shaded \ {Nil} : ~ObjectOf(h, v).marked}
                   ELSE h.worklist
           k == incremental_write_barrier_before_publish(h, owner, shaded)
           ids == IF BarrierTriggered(k, owner, published) THEN h.remembered_set \cup {owner}
                  ELSE h.remembered_set
<1>1. HeapIsTyped(h) /\ PhaseIsClean(h) /\ RegistriesName(h) /\ DOMAIN h = HeapFields
  BY DEF LayoutInv, HeapIsTyped
<1>2. /\ DOMAIN k = HeapFields /\ k.worklist = grey /\ k.remembered_set = h.remembered_set
      /\ k.objects = h.objects /\ k.generations = h.generations
      /\ k.weak_refs = h.weak_refs /\ k.intern_table = h.intern_table /\ k.ephemerons = h.ephemerons
      /\ k.cells = h.cells /\ k.extra = h.extra /\ k.phase = h.phase /\ k.plan = h.plan
      /\ k.cursor = h.cursor /\ k.shadow = h.shadow /\ k.allocated = h.allocated
      /\ k.stress = h.stress
  BY <1>1 DEF HeapFields, incremental_write_barrier_before_publish
<1>3. g = record_write_barrier_if_needed(k, owner, published)
  BY DEF Barriers
<1> HIDE DEF k
<1>4. /\ DOMAIN g = HeapFields /\ g.worklist = grey /\ g.remembered_set = ids
      /\ g.objects = h.objects /\ g.generations = h.generations
      /\ g.weak_refs = h.weak_refs /\ g.intern_table = h.intern_table /\ g.ephemerons = h.ephemerons
      /\ g.cells = h.cells /\ g.extra = h.extra /\ g.phase = h.phase /\ g.plan = h.plan
      /\ g.cursor = h.cursor /\ g.shadow = h.shadow /\ g.allocated = h.allocated
      /\ g.stress = h.stress
  BY <1>2, <1>3 DEF HeapFields, record_write_barrier_if_needed, record_remembered_object
<1>5. grey \subseteq Ids /\ (h.phase # "marking" => grey = {})
  BY <1>1 DEF HeapIsTyped, PhaseIsClean, Values
<1>6. ids \subseteq Ids /\ \A id \in ids : Resolves(h, id)
  BY <1>1 DEF HeapIsTyped, RegistriesName
<1>11. Recorded(h, owner, shaded, published, g)
  <2>1. BarrierTriggered(k, owner, published) <=> BarrierTriggered(h, owner, published)
    <3>1. \A v : checked_slot(k, v) = checked_slot(h, v)
      BY <1>2 DEF checked_slot, Physical, Moved
    <3> QED BY <1>2, <3>1 DEF BarrierTriggered, is_old_slot, is_young_slot
  <2>2. BarrierTriggered(h, owner, published) => is_old_slot(h, checked_slot(h, owner))
    BY DEF BarrierTriggered
  <2> QED BY <1>4, <2>1, <2>2 DEF Recorded
<1> HIDE DEF grey, ids
<1>7. Size(g) = Size(h) /\ Headers(g) = Headers(h)
  BY <1>4 DEF Size, Headers
<1>8. HeapIsTyped(g)
  BY <1>1, <1>4, <1>5, <1>6, <1>7 DEF HeapIsTyped
<1>9. \A s \in Headers(h) : SameContents(h.objects[s], g.objects[s])
  BY <1>1, <1>4, HeaderIsObject DEF SameContents
<1>10. LayoutInv(g) /\ SamePlaces(h, g)
  BY <1>4, <1>5, <1>6, <1>7, <1>8, <1>9, RemarkedKeeps
<1> QED BY <1>4, <1>7, <1>10, <1>11 DEF BarredAs

LEMMA MinorAfterBarrierKeeps ==
  ASSUME NEW h, LayoutInv(h), NEW triggered, NEW roots \in Seq(Values),
         NEW g, g = MinorAfterBarrier(h, triggered, roots)
  PROVE  LayoutInv(g) /\ g.allocated = h.allocated
<1> DEFINE minor == "Minor"
<1>1. CASE triggered /\ "barrier" \in h.stress
  <2>1. g = collect_with_extra_roots(h, roots, minor)
    BY <1>1 DEF MinorAfterBarrier
  <2> HIDE DEF minor
  <2>2. /\ LayoutInv(g) /\ g.phase = "idle" /\ g.allocated = h.allocated /\ g.stress = h.stress
        /\ Carries([h EXCEPT !.extra = roots], g)
    BY <2>1, CollectWithRootsKeeps
  <2> QED BY <2>2
<1>2. CASE ~(triggered /\ "barrier" \in h.stress)
  BY <1>2 DEF MinorAfterBarrier
<1> QED BY <1>1, <1>2

StoredIn(h, slot, q, twin, p) ==
  IF h.phase = "compacting"
  THEN [[h EXCEPT !.objects[slot] = q] EXCEPT !.shadow.objects[twin] = p]
  ELSE [h EXCEPT !.objects[slot] = q]

LEMMA StoredKeeps ==
  ASSUME NEW h, LayoutInv(h), NEW slot, NEW q, Replaces(h, slot, q), NEW twin, NEW p,
         NEW g, g = StoredIn(h, slot, q, twin, p)
  PROVE  LayoutInv(g) /\ g.allocated = h.allocated /\ SamePlaces(h, g) /\ MutatedAs(h, slot, q, g)
<1>1. DOMAIN h = HeapFields
  BY DEF LayoutInv, HeapIsTyped
<1>2. g = IF h.phase = "compacting"
          THEN [[h EXCEPT !.objects[slot] = q] EXCEPT !.shadow.objects[twin] = p]
          ELSE [h EXCEPT !.objects[slot] = q]
  BY DEF StoredIn
<1>3. MutatedAs(h, slot, q, g)
  BY <1>1, <1>2, MutatedIs
<1> QED BY <1>3, MutatedKeeps

\* A store of q for the owner's object, with its barriers and the collection
\* that the stress configuration asks for.
StoredAs(h, owner, shaded, published, q, g) ==
  \E b, twin, p, triggered, roots :
    /\ b = Barriers(h, owner, shaded, published) /\ shaded \subseteq Values
    /\ Replaces(b, checked_slot(h, owner), q) /\ roots \in Seq(Values)
    /\ g = MinorAfterBarrier(StoredIn(b, checked_slot(h, owner), q, twin, p), triggered, roots)

LEMMA PublishedKeeps ==
  ASSUME NEW h, LayoutInv(h), NEW owner \in Ids, Resolves(h, owner),
         NEW shaded, shaded \subseteq Values, NEW published,
         NEW b, b = Barriers(h, owner, shaded, published),
         NEW q, Replaces(h, checked_slot(h, owner), q), NEW twin, NEW p,
         NEW triggered, NEW roots \in Seq(Values),
         NEW g, g = MinorAfterBarrier(StoredIn(b, checked_slot(h, owner), q, twin, p), triggered, roots)
  PROVE  LayoutInv(g) /\ g.allocated = h.allocated /\ StoredAs(h, owner, shaded, published, q, g)
<1> DEFINE slot == checked_slot(h, owner)
           k == StoredIn(b, slot, q, twin, p)
<1>1. BarredAs(h, b)
  BY BarriersKeep
<1>2. Replaces(b, slot, q)
  <2>1. /\ \A v : Resolves(b, v) <=> Resolves(h, v)
        /\ Headers(b) = Headers(h) /\ Size(b) = Size(h) /\ b.objects = h.objects /\ b.phase = h.phase
    BY <1>1, SamePlacesResolve DEF BarredAs, SamePlaces, LayoutInv
  <2>2. Width(b, slot) = Width(h, slot)
    BY <2>1 DEF Width
  <2> QED BY <2>1, <2>2 DEF Replaces
<1>3. g = MinorAfterBarrier(k, triggered, roots) /\ k = StoredIn(b, slot, q, twin, p)
  OBVIOUS
<1>7. StoredAs(h, owner, shaded, published, q, g)
  BY <1>2 DEF StoredAs
<1> HIDE DEF slot, k
<1>4. LayoutInv(b) /\ b.allocated = h.allocated
  BY <1>1 DEF BarredAs
<1>5. LayoutInv(k) /\ k.allocated = b.allocated
  BY <1>2, <1>3, <1>4, StoredKeeps
<1>6. LayoutInv(g) /\ g.allocated = k.allocated
  BY <1>3, <1>5, MinorAfterBarrierKeeps
<1> QED BY <1>4, <1>5, <1>6, <1>7

LEMMA BarredObject ==
  ASSUME NEW h, LayoutInv(h), NEW b, BarredAs(h, b), NEW owner
  PROVE  checked_slot(b, owner) = checked_slot(h, owner) /\ ObjectOf(b, owner) = ObjectOf(h, owner)
BY SamePlacesResolve DEF BarredAs, LayoutInv, ObjectOf

LEMMA FieldReplaces ==
  ASSUME NEW h, LayoutInv(h), NEW slot \in Headers(h), NEW o, o = h.objects[slot],
         NEW i \in DOMAIN o.strong, NEW v \in Values, NEW q, q = [o EXCEPT !.strong[i] = v]
  PROVE  Replaces(h, slot, q)
<1>1. o \in Objects /\ validate_descriptor_shape(o) /\ \A w \in SoftReferences(o) : Resolves(h, w)
  BY HeaderIsObject DEF LayoutInv, RunsFollow, RegistriesName
<1> DEFINE strong == [o.strong EXCEPT ![i] = v]
<1>2. o.strong \in Seq(Values) /\ o.soft \in Seq(Values) /\ o.strong # <<>>
  BY <1>1, ObjectFields
<1>3. strong \in Seq(Values) /\ Len(strong) = Len(o.strong) /\ strong # <<>>
  <2>1. i \in 1 .. Len(o.strong)
    BY <1>2, LenProperties
  <2>2. strong \in Seq(Values) /\ Len(strong) = Len(o.strong)
    BY <1>2, <2>1, ExceptSeq
  <2>3. Len(o.strong) > 0
    BY <1>2, <2>1
  <2> HIDE DEF strong
  <2> QED BY <2>2, <2>3
<1>4. q = [o EXCEPT !.strong = strong]
  OBVIOUS
<1> HIDE DEF strong
<1>5. /\ q \in Objects /\ q.kind = o.kind /\ q.length = o.length /\ q.data = o.data /\ q.text = o.text
      /\ q.strong = strong /\ q.soft = o.soft
  BY <1>1, <1>3, <1>4 DEF Objects
<1>6. validate_descriptor_shape(q)
  BY <1>1, <1>2, <1>3, <1>5 DEF validate_descriptor_shape, ReferenceMapShape, EphemeronAndBuilderShape
<1>7. storage_slot_count(q) = Width(h, slot)
  BY <1>5 DEF storage_slot_count, Width
<1>8. SoftReferences(q) = SoftReferences(o)
  BY <1>5 DEF SoftReferences
<1>9. o.kind # "Builder"
  BY <1>1, <1>2 DEF validate_descriptor_shape
<1> QED BY <1>1, <1>5, <1>6, <1>7, <1>8, <1>9 DEF Replaces

LEMMA CanonicalReference ==
  ASSUME NEW h, LayoutInv(h), NEW v \in Values, NEW w, w = canonicalize_incremental_compaction_read(h, v)
  PROVE  /\ w \in Values /\ (is_object(w) <=> is_object(v))
         /\ Resolves(h, v) => Resolves(h, w) /\ checked_slot(h, w) = checked_slot(h, v)
<1>1. w \in Values /\ (is_object(w) <=> is_object(v))
  BY CanonicalIsValue DEF LayoutInv
<1>2. ASSUME Resolves(h, v) PROVE Resolves(h, w) /\ checked_slot(h, w) = checked_slot(h, v)
  <2>1. v \in Ids
    BY <1>2, ResolvedObject
  <2>2. CASE h.phase # "compacting"
    <3>1. h.cursor = 0
      BY <2>2 DEF LayoutInv, PhaseIsClean
    <3>2. w = v
      BY <3>1, StillHeap
    <3> QED BY <1>2, <3>2
  <2>3. CASE h.phase = "compacting"
    <3>1. Named(h)
      BY <2>3, PlanNames DEF LayoutInv, PhaseIsClean
    <3>2. PICK i \in DOMAIN h.plan : NamesEntry(h, i, v)
      BY <1>2, <2>1, <3>1 DEF Named
    <3>3. checked_slot(h, v) = Base(h, i) /\ w = Name(h, i) /\ Name(h, i) \in Ids
      BY <2>1, <3>1, <3>2 DEF Named
    <3>4. NamesEntry(h, i, w)
      BY <3>3 DEF NamesEntry
    <3> QED BY <3>1, <3>3, <3>4 DEF Named
  <2> QED BY <2>2, <2>3
<1> QED BY <1>1, <1>2

\* g is h after a store of v for value in the object of the owner.
FieldStored(h, owner, i, value, v, q, g) ==
  /\ v = canonicalize_incremental_compaction_read(h, value)
  /\ q = [ObjectOf(h, owner) EXCEPT !.strong[i] = v]
  /\ StoredAs(h, owner, {v}, {v}, q, g)

LEMMA StoreFieldKeeps ==
  ASSUME NEW h, LayoutInv(h), NEW owner \in Ids, Resolves(h, owner),
         NEW i \in DOMAIN ObjectOf(h, owner).strong, NEW value \in Values,
         NEW g, g = store_field(h, owner, i, value)
  PROVE  LayoutInv(g) /\ g.allocated = h.allocated /\ \E v, q : FieldStored(h, owner, i, value, v, q, g)
<1> DEFINE v == canonicalize_incremental_compaction_read(h, value)
           n == normalize_incremental_compaction_shadow_value(h, v)
           b == Barriers(h, owner, {v}, {v})
           slot == checked_slot(b, owner)
           twin == incremental_compaction_shadow_slot(b, owner)
           q == [b.objects[slot] EXCEPT !.strong[i] = v]
           p == [b.shadow.objects[twin] EXCEPT !.strong[i] = n]
           roots == IF ObjectOf(h, owner).kind = "Record" THEN <<owner, v>> ELSE <<>>
           triggered == BarrierTriggered(h, owner, {v})
<1>1. g = MinorAfterBarrier(StoredIn(b, slot, q, twin, p), triggered, roots)
  BY DEF store_field, Mutated, StoredIn
<1>2. v \in Values
  BY CanonicalReference
<1>3. b = Barriers(h, owner, {v}, {v}) /\ slot = checked_slot(b, owner)
      /\ q = [b.objects[slot] EXCEPT !.strong[i] = v]
  OBVIOUS
<1>4. roots \in Seq(Values)
  BY <1>2, IdsAreReferences
<1>9. v = canonicalize_incremental_compaction_read(h, value)
  OBVIOUS
<1> HIDE DEF v, n, b, slot, twin, q, p, roots, triggered
<1>5. BarredAs(h, b)
  BY <1>2, <1>3, BarriersKeep
<1>6. slot = checked_slot(h, owner) /\ b.objects[slot] = ObjectOf(h, owner)
  BY <1>3, <1>5, BarredObject DEF ObjectOf
<1>7. Replaces(h, checked_slot(h, owner), q)
  <2>1. checked_slot(h, owner) \in Headers(h)
    BY IdsAreReferences, ResolvedObject
  <2> QED BY <1>2, <1>3, <1>6, <2>1, FieldReplaces DEF ObjectOf
<1>8. {v} \subseteq Values
  BY <1>2
<1> DEFINE shaded == {v}
<1>10. /\ b = Barriers(h, owner, shaded, shaded) /\ shaded \subseteq Values
       /\ g = MinorAfterBarrier(StoredIn(b, checked_slot(h, owner), q, twin, p), triggered, roots)
  BY <1>1, <1>3, <1>6, <1>8
<1> HIDE DEF shaded
<1>11. LayoutInv(g) /\ g.allocated = h.allocated /\ StoredAs(h, owner, shaded, shaded, q, g)
  BY <1>4, <1>7, <1>10, PublishedKeeps
<1>12. FieldStored(h, owner, i, value, v, q, g)
  BY <1>3, <1>6, <1>9, <1>11 DEF FieldStored, shaded
<1> QED BY <1>11, <1>12

LEMMA EphemeronReplaces ==
  ASSUME NEW h, LayoutInv(h), NEW slot \in Headers(h), NEW o, o = h.objects[slot],
         o.kind = "Ephemeron", is_object(o.soft[1]),
         NEW v \in Values, is_object(v) => Resolves(h, v), NEW q, q = [o EXCEPT !.soft[2] = v]
  PROVE  Replaces(h, slot, q)
<1>1. o \in Objects /\ validate_descriptor_shape(o) /\ \A w \in SoftReferences(o) : Resolves(h, w)
  BY HeaderIsObject DEF LayoutInv, RunsFollow, RegistriesName
<1> DEFINE soft == [o.soft EXCEPT ![2] = v]
<1>2. o.soft \in Seq(Values) /\ Len(o.soft) = 2
  BY <1>1, ObjectFields DEF validate_descriptor_shape, EphemeronAndBuilderShape
<1>3. soft \in Seq(Values) /\ Len(soft) = 2 /\ soft[1] = o.soft[1] /\ soft[2] = v
      /\ DOMAIN soft = 1 .. 2 /\ DOMAIN o.soft = 1 .. 2
  BY <1>2
<1>4. q = [o EXCEPT !.soft = soft]
  OBVIOUS
<1> HIDE DEF soft
<1>5. /\ q \in Objects /\ q.kind = o.kind /\ q.length = o.length /\ q.data = o.data /\ q.text = o.text
      /\ q.strong = o.strong /\ q.soft = soft
  BY <1>1, <1>3, <1>4 DEF Objects
<1>6. validate_descriptor_shape(q)
  BY <1>1, <1>3, <1>5 DEF validate_descriptor_shape, ReferenceMapShape, EphemeronAndBuilderShape, is_object
<1>7. storage_slot_count(q) = Width(h, slot)
  BY <1>5 DEF storage_slot_count, Width
<1>8. \A w \in SoftReferences(q) : Resolves(h, w)
  <2>1. o.soft[1] \in SoftReferences(o)
    BY <1>3 DEF SoftReferences
  <2>2. \A w \in SoftReferences(q) : w = o.soft[1] \/ (w = v /\ is_object(v))
    BY <1>3, <1>5 DEF SoftReferences
  <2> QED BY <1>1, <2>1, <2>2
<1> QED BY <1>1, <1>5, <1>6, <1>7, <1>8 DEF Replaces

ValueStored(h, owner, value, v, q, g) ==
  /\ v = canonicalize_incremental_compaction_read(h, value)
  /\ q = [ObjectOf(h, owner) EXCEPT !.soft[2] = v]
  /\ StoredAs(h, owner, {v}, {v}, q, g)

LEMMA StoreEphemeronKeeps ==
  ASSUME NEW h, LayoutInv(h), NEW owner \in Ids, Resolves(h, owner),
         ObjectOf(h, owner).kind = "Ephemeron", is_object(ObjectOf(h, owner).soft[1]),
         NEW value \in Values, is_object(value) => Resolves(h, value),
         NEW g, g = store_ephemeron_value(h, owner, value)
  PROVE  LayoutInv(g) /\ g.allocated = h.allocated /\ \E v, q : ValueStored(h, owner, value, v, q, g)
<1> DEFINE v == canonicalize_incremental_compaction_read(h, value)
           n == normalize_incremental_compaction_shadow_value(h, v)
           b == Barriers(h, owner, {v}, {v})
           slot == checked_slot(b, owner)
           twin == incremental_compaction_shadow_slot(b, owner)
           q == [b.objects[slot] EXCEPT !.soft[2] = v]
           p == [b.shadow.objects[twin] EXCEPT !.soft[2] = n]
           roots == <<owner, v>>
           triggered == BarrierTriggered(h, owner, {v})
<1>1. g = MinorAfterBarrier(StoredIn(b, slot, q, twin, p), triggered, roots)
  BY DEF store_ephemeron_value, Mutated, StoredIn
<1>2. v \in Values /\ (is_object(v) => Resolves(h, v))
  BY CanonicalReference
<1>3. b = Barriers(h, owner, {v}, {v}) /\ slot = checked_slot(b, owner)
      /\ q = [b.objects[slot] EXCEPT !.soft[2] = v]
  OBVIOUS
<1>4. roots \in Seq(Values)
  BY <1>2, IdsAreReferences
<1>9. v = canonicalize_incremental_compaction_read(h, value)
  OBVIOUS
<1> HIDE DEF v, n, b, slot, twin, q, p, roots, triggered
<1>5. BarredAs(h, b)
  BY <1>2, <1>3, BarriersKeep
<1>6. slot = checked_slot(h, owner) /\ b.objects[slot] = ObjectOf(h, owner)
  BY <1>3, <1>5, BarredObject DEF ObjectOf
<1>7. Replaces(h, checked_slot(h, owner), q)
  <2>1. checked_slot(h, owner) \in Headers(h)
    BY IdsAreReferences, ResolvedObject
  <2> QED BY <1>2, <1>3, <1>6, <2>1, EphemeronReplaces DEF ObjectOf
<1>8. {v} \subseteq Values
  BY <1>2
<1> DEFINE shaded == {v}
<1>10. /\ b = Barriers(h, owner, shaded, shaded) /\ shaded \subseteq Values
       /\ g = MinorAfterBarrier(StoredIn(b, checked_slot(h, owner), q, twin, p), triggered, roots)
  BY <1>1, <1>3, <1>6, <1>8
<1> HIDE DEF shaded
<1>11. LayoutInv(g) /\ g.allocated = h.allocated /\ StoredAs(h, owner, shaded, shaded, q, g)
  BY <1>4, <1>7, <1>10, PublishedKeeps
<1>12. ValueStored(h, owner, value, v, q, g)
  BY <1>3, <1>6, <1>9, <1>11 DEF ValueStored, shaded
<1> QED BY <1>11, <1>12

EntryStored(h, owner, entry, key, value, k, v, q, g) ==
  /\ k = canonicalize_incremental_compaction_read(h, key)
  /\ v = canonicalize_incremental_compaction_read(h, value)
  /\ q = [ObjectOf(h, owner) EXCEPT !.strong[2 * entry] = v]
  /\ StoredAs(h, owner, {k, v}, {v}, q, g)

LEMMA UpdateMapKeeps ==
  ASSUME NEW h, LayoutInv(h), NEW owner \in Ids, Resolves(h, owner), NEW entry,
         2 * entry \in DOMAIN ObjectOf(h, owner).strong, NEW key \in Values, NEW value \in Values,
         NEW g, g = update_map_entry(h, owner, entry, key, value)
  PROVE  /\ LayoutInv(g) /\ g.allocated = h.allocated
         /\ \E k, v, q : EntryStored(h, owner, entry, key, value, k, v, q, g)
<1> DEFINE k == canonicalize_incremental_compaction_read(h, key)
           v == canonicalize_incremental_compaction_read(h, value)
           n == normalize_incremental_compaction_shadow_value(h, v)
           b == Barriers(h, owner, {k, v}, {v})
           slot == checked_slot(b, owner)
           twin == incremental_compaction_shadow_slot(b, owner)
           q == [b.objects[slot] EXCEPT !.strong[2 * entry] = v]
           p == [b.shadow.objects[twin] EXCEPT !.strong[2 * entry] = n]
           roots == <<owner, k, v>>
           triggered == BarrierTriggered(h, owner, {v})
<1>1. g = MinorAfterBarrier(StoredIn(b, slot, q, twin, p), triggered, roots)
  BY DEF update_map_entry, Mutated, StoredIn
<1>2. v \in Values /\ k \in Values
  BY CanonicalReference
<1>3. b = Barriers(h, owner, {k, v}, {v}) /\ slot = checked_slot(b, owner)
      /\ q = [b.objects[slot] EXCEPT !.strong[2 * entry] = v]
  OBVIOUS
<1>4. roots \in Seq(Values)
  BY <1>2, IdsAreReferences
<1>9. /\ v = canonicalize_incremental_compaction_read(h, value)
      /\ k = canonicalize_incremental_compaction_read(h, key)
  OBVIOUS
<1> HIDE DEF k, v, n, b, slot, twin, q, p, roots, triggered
<1>5. {k, v} \subseteq Values
  BY <1>2
<1>6. BarredAs(h, b)
  BY <1>3, <1>5, BarriersKeep
<1>7. slot = checked_slot(h, owner) /\ b.objects[slot] = ObjectOf(h, owner)
  BY <1>3, <1>6, BarredObject DEF ObjectOf
<1>8. Replaces(h, checked_slot(h, owner), q)
  <2>1. checked_slot(h, owner) \in Headers(h)
    BY IdsAreReferences, ResolvedObject
  <2> QED BY <1>2, <1>3, <1>7, <2>1, FieldReplaces DEF ObjectOf
<1> DEFINE shaded == {k, v}
           published == {v}
<1>10. /\ b = Barriers(h, owner, shaded, published) /\ shaded \subseteq Values
       /\ g = MinorAfterBarrier(StoredIn(b, checked_slot(h, owner), q, twin, p), triggered, roots)
  BY <1>1, <1>3, <1>5, <1>7
<1> HIDE DEF shaded, published
<1>11. LayoutInv(g) /\ g.allocated = h.allocated /\ StoredAs(h, owner, shaded, published, q, g)
  BY <1>4, <1>8, <1>10, PublishedKeeps
<1>12. EntryStored(h, owner, entry, key, value, k, v, q, g)
  BY <1>3, <1>7, <1>9, <1>11 DEF EntryStored, shaded, published
<1> QED BY <1>11, <1>12

\* An insertion takes two slots more.
LEMMA InsertReplaces ==
  ASSUME NEW h, LayoutInv(h), h.phase # "compacting", NEW slot \in Headers(h), NEW o, o = h.objects[slot],
         o.kind = "Map", NEW k \in Values, NEW v \in Values,
         NEW q, q = [o EXCEPT !.strong = @ \o <<k, v>>, !.length = @ + 1],
         slot + Width(h, slot) + 2 <= Size(h),
         \A t \in Headers(h) : slot < t => slot + Width(h, slot) + 2 <= t
  PROVE  Replaces(h, slot, q)
<1>1. o \in Objects /\ validate_descriptor_shape(o) /\ \A w \in SoftReferences(o) : Resolves(h, w)
  BY HeaderIsObject DEF LayoutInv, RunsFollow, RegistriesName
<1> DEFINE strong == o.strong \o <<k, v>>
           length == o.length + 1
<1>2. o.strong \in Seq(Values) /\ Len(o.strong) = 2 * o.length /\ o.length \in Nat /\ o.soft = <<>>
  BY <1>1, ObjectFields DEF validate_descriptor_shape
<1>3. strong \in Seq(Values) /\ Len(strong) = 2 * length /\ length \in Nat
  <2>1. <<k, v>> \in Seq(Values) /\ Len(<<k, v>>) = 2
    OBVIOUS
  <2>2. strong \in Seq(Values) /\ Len(strong) = Len(o.strong) + 2
    BY <1>2, <2>1, ConcatProperties
  <2> HIDE DEF strong
  <2> QED BY <1>2, <2>2
<1>4. q = [o EXCEPT !.strong = strong, !.length = length]
  OBVIOUS
<1>5. length = o.length + 1
  OBVIOUS
<1> HIDE DEF strong, length
<1>6. /\ q \in Objects /\ q.kind = o.kind /\ q.length = length /\ q.data = o.data /\ q.text = o.text
      /\ q.strong = strong /\ q.soft = o.soft
  BY <1>1, <1>3, <1>4 DEF Objects
<1>7. validate_descriptor_shape(q)
  BY <1>1, <1>2, <1>3, <1>6 DEF validate_descriptor_shape, ReferenceMapShape, EphemeronAndBuilderShape
<1>8. storage_slot_count(q) = Width(h, slot) + 2
  BY <1>2, <1>5, <1>6 DEF storage_slot_count, Width
<1>9. SoftReferences(q) = SoftReferences(o)
  BY <1>6 DEF SoftReferences
<1>10. slot \in Nat /\ Width(h, slot) \in Nat /\ slot + (Width(h, slot) + 2) = slot + Width(h, slot) + 2
  BY HeaderIsObject DEF LayoutInv
<1> QED BY <1>1, <1>6, <1>7, <1>8, <1>9, <1>10 DEF Replaces

\* grown has the room of the first operand, once the compaction is over.
GrownFor(start, width, grown) ==
  LET ready == CompactionFinished(start)
  IN  /\ LayoutInv(ready) /\ ready.phase # "compacting"
      /\ 1 \in DOMAIN ready.extra /\ Resolves(ready, ready.extra[1])
      /\ width \in Nat \ {0} /\ Width(ready, checked_slot(ready, ready.extra[1])) <= width
      /\ grown = ensure_growth_storage(ready, width)

\* An entry has been added to the map that is the first of the operands.
EntryAdded(h, operands, grown, q, g) ==
  LET o == grown.extra[1]
      k == grown.extra[2]
      v == grown.extra[3]
  IN  /\ grown.phase # "compacting" /\ o \in Ids /\ Resolves(grown, o)
      /\ Becomes(h, operands[2], grown, k) /\ Becomes(h, operands[3], grown, v)
      /\ q = [ObjectOf(grown, o) EXCEPT !.strong = @ \o <<k, v>>, !.length = @ + 1]
      /\ StoredAs(grown, o, {k, v}, {k, v}, q, g)

MapGrown(h, owner, key, value, g) ==
  \E operands, width, grown, q :
    /\ operands \in Seq(Values)
    /\ operands = <<owner, key, value>> /\ GrownFor([h EXCEPT !.extra = operands], width, grown)
    /\ EntryAdded(h, operands, grown, q, g)

LEMMA InsertMapKeeps ==
  ASSUME NEW h, LayoutInv(h), NEW owner \in Values, Resolves(h, owner),
         ObjectOf(h, owner).kind = "Map", NEW key \in Values, NEW value \in Values,
         NEW g, g = insert_map_entry(h, owner, key, value)
  PROVE  LayoutInv(g) /\ g.allocated = h.allocated /\ MapGrown(h, owner, key, value, g)
<1> DEFINE operands == <<owner, key, value>>
           still == CompactionFinished([h EXCEPT !.extra = operands])
           width == storage_slot_count(ObjectOf(still, still.extra[1])) + 2
           grown == ensure_growth_storage(still, width)
           o == grown.extra[1]
           k == grown.extra[2]
           v == grown.extra[3]
           b == Barriers(grown, o, {k, v}, {k, v})
           slot == checked_slot(b, o)
           twin == incremental_compaction_shadow_slot(b, o)
           q == [b.objects[slot] EXCEPT !.strong = @ \o <<k, v>>, !.length = @ + 1]
           p == [b.shadow.objects[twin] EXCEPT !.strong = @ \o <<k, v>>, !.length = @ + 1]
           triggered == BarrierTriggered(grown, o, {k, v})
           roots == <<o, k, v>>
<1>1. g = MinorAfterBarrier(StoredIn(b, slot, q, twin, p), triggered, roots)
  BY DEF insert_map_entry, PublishOperands, GrowMap, PublishMapEntry, Mutated, StoredIn
<1>2. operands \in Seq(Values) /\ 1 \in DOMAIN operands /\ operands[1] = owner /\ Len(operands) = 3
  OBVIOUS
<1>3. still = CompactionFinished([h EXCEPT !.extra = operands])
  OBVIOUS
<1>20. width = storage_slot_count(ObjectOf(still, still.extra[1])) + 2
  OBVIOUS
<1>21. grown = ensure_growth_storage(still, width)
  OBVIOUS
<1>22. o = grown.extra[1] /\ k = grown.extra[2] /\ v = grown.extra[3]
  OBVIOUS
<1>23. b = Barriers(grown, o, {k, v}, {k, v}) /\ slot = checked_slot(b, o)
  OBVIOUS
<1>24. q = [b.objects[slot] EXCEPT !.strong = @ \o <<k, v>>, !.length = @ + 1]
  OBVIOUS
<1>25. roots = <<o, k, v>>
  OBVIOUS
<1>26. operands = <<owner, key, value>>
  OBVIOUS
<1> HIDE DEF operands, still, width, grown, o, k, v, b, slot, twin, q, p, triggered, roots
<1>4. Followed(h, operands, still) /\ still.phase # "compacting"
  BY <1>2, <1>3, CompactionFinishedFollows
<1>5. /\ LayoutInv(still) /\ still.extra \in Seq(Values) /\ Len(still.extra) = 3
      /\ still.allocated = h.allocated /\ 1 \in DOMAIN still.extra
  BY <1>2, <1>4 DEF Followed
<1>6. /\ Resolves(still, still.extra[1]) /\ still.extra[1] \in Ids
      /\ ObjectOf(still, still.extra[1]) \in Objects /\ ObjectOf(still, still.extra[1]).kind = "Map"
  BY <1>2, <1>4, FollowedText DEF SameShape
<1>7. width \in Nat \ {0} /\ Width(still, checked_slot(still, still.extra[1])) = width - 2
      /\ Width(still, checked_slot(still, still.extra[1])) <= width
  <2>1. storage_slot_count(ObjectOf(still, still.extra[1])) \in Nat
    BY <1>6, WidthOfObject
  <2>2. storage_slot_count(ObjectOf(still, still.extra[1])) = Width(still, checked_slot(still, still.extra[1]))
    BY DEF Width, ObjectOf
  <2> QED BY <1>20, <2>1, <2>2
<1>8. Grown(still, width, grown)
  BY <1>21, <1>4, <1>5, <1>6, <1>7, GrowthKeeps
<1>9. /\ LayoutInv(grown) /\ grown.phase # "compacting" /\ grown.allocated = h.allocated
      /\ grown.extra \in Seq(Values) /\ Len(grown.extra) = 3 /\ o \in Ids /\ Resolves(grown, o)
      /\ Becomes(still, still.extra[1], grown, o)
  BY <1>22, <1>4, <1>5, <1>8 DEF Grown, Carries, Room, LayoutInv, HeapIsTyped
<1>10. SameShape(ObjectOf(still, still.extra[1]), ObjectOf(grown, o)) /\ o \in Values
  BY <1>6, <1>9, IdsAreReferences DEF Becomes
<1>11. k \in Values /\ v \in Values
  <2>1. 2 \in 1 .. Len(grown.extra) /\ 3 \in 1 .. Len(grown.extra)
    BY <1>9
  <2> QED BY <1>9, <1>22, <2>1, ElementOfSeq
<1>12. {k, v} \subseteq Values
  BY <1>11
<1>13. BarredAs(grown, b)
  BY <1>23, <1>9, <1>12, BarriersKeep
<1>14. slot = checked_slot(grown, o) /\ b.objects[slot] = ObjectOf(grown, o)
  BY <1>23, <1>9, <1>13, BarredObject DEF ObjectOf
<1>15. checked_slot(grown, o) \in Headers(grown)
  BY <1>9, <1>10, ResolvedObject
<1>16. Width(grown, checked_slot(grown, o)) + 2 = width
  <2>1. storage_slot_count(ObjectOf(grown, o)) = storage_slot_count(ObjectOf(still, still.extra[1]))
    BY <1>10 DEF SameShape, storage_slot_count
  <2> QED BY <1>7, <2>1 DEF Width, ObjectOf
<1>17. Replaces(grown, checked_slot(grown, o), q)
  <2> DEFINE s == checked_slot(grown, o)
  <2>1. /\ s + width <= Size(grown)
        /\ \A t \in Headers(grown) : s < t => s + width <= t
    BY <1>22, <1>8 DEF Grown, Room
  <2>2. s \in Nat /\ Width(grown, s) \in Nat
    BY <1>9, <1>15, HeaderIsObject DEF LayoutInv
  <2>3. s + Width(grown, s) + 2 = s + width
    BY <1>16, <2>2
  <2>4. grown.objects[s] = ObjectOf(grown, o) /\ ObjectOf(grown, o).kind = "Map"
    BY <1>6, <1>10 DEF ObjectOf, SameShape
  <2> HIDE DEF s
  <2>5. s = checked_slot(grown, o)
    BY DEF s
  <2>6. q = [grown.objects[s] EXCEPT !.strong = @ \o <<k, v>>, !.length = @ + 1]
    BY <1>14, <1>24, <2>4
  <2>7. /\ s + Width(grown, s) + 2 <= Size(grown)
        /\ \A t \in Headers(grown) : s < t => s + Width(grown, s) + 2 <= t
    BY <2>1, <2>3
  <2>8. s \in Headers(grown) /\ grown.objects[s].kind = "Map"
    BY <1>15, <2>4, <2>5
  <2>9. Replaces(grown, s, q)
    BY <1>9, <1>11, <2>6, <2>7, <2>8, InsertReplaces
  <2> QED BY <2>5, <2>9
<1>18. roots \in Seq(Values)
  BY <1>25, <1>10, <1>11
<1> DEFINE shaded == {k, v}
<1>27. /\ b = Barriers(grown, o, shaded, shaded) /\ shaded \subseteq Values
       /\ g = MinorAfterBarrier(StoredIn(b, checked_slot(grown, o), q, twin, p), triggered, roots)
  BY <1>1, <1>12, <1>14, <1>23
<1> HIDE DEF shaded
<1>19. LayoutInv(g) /\ g.allocated = grown.allocated /\ StoredAs(grown, o, shaded, shaded, q, g)
  BY <1>9, <1>17, <1>18, <1>27, PublishedKeeps
<1>28. Becomes(h, operands[2], grown, k) /\ Becomes(h, operands[3], grown, v)
  <2>1. DOMAIN operands = 1 .. 3 /\ DOMAIN still.extra = 1 .. 3
    BY <1>2, <1>5, LenProperties
  <2>2. /\ Becomes(h, operands[2], still, still.extra[2])
        /\ Becomes(h, operands[3], still, still.extra[3])
    BY <1>4, <2>1 DEF Followed
  <2>3. Becomes(still, still.extra[2], grown, k) /\ Becomes(still, still.extra[3], grown, v)
    BY <1>8, <1>22, <2>1 DEF Grown, Carries
  <2> QED BY <2>2, <2>3 DEF Becomes, SameShape
<1>29. EntryAdded(h, operands, grown, q, g)
  <2>1. q = [ObjectOf(grown, o) EXCEPT !.strong = @ \o <<k, v>>, !.length = @ + 1]
    BY <1>14, <1>24
  <2> QED BY <1>9, <1>19, <1>22, <1>28, <2>1 DEF EntryAdded, shaded
<1>30. GrownFor([h EXCEPT !.extra = operands], width, grown)
  BY <1>3, <1>4, <1>5, <1>6, <1>7, <1>21 DEF GrownFor
<1>31. MapGrown(h, owner, key, value, g)
  BY <1>2, <1>26, <1>29, <1>30 DEF MapGrown
<1> QED BY <1>9, <1>19, <1>31

LEMMA AppendReplaces ==
  ASSUME NEW h, LayoutInv(h), NEW slot \in Headers(h), NEW o, o = h.objects[slot], o.kind = "Builder",
         NEW text \in Seq(Chunks), NEW length \in Nat, kStorageSlotBytes * Len(text) <= length,
         length > 0, NEW q, q = [o EXCEPT !.text = text, !.length = length],
         \/ length = o.length
         \/ /\ h.phase # "compacting" /\ slot + (1 + Slots(length)) <= Size(h)
            /\ \A t \in Headers(h) : slot < t => slot + (1 + Slots(length)) <= t
  PROVE  Replaces(h, slot, q)
<1>1. o \in Objects /\ validate_descriptor_shape(o)
  BY HeaderIsObject DEF LayoutInv, RunsFollow
<1>2. /\ q \in Objects /\ q.kind = "Builder" /\ q.length = length /\ q.data = o.data /\ q.text = text
      /\ q.strong = o.strong /\ q.soft = o.soft
  BY <1>1 DEF Objects
<1>3. o.strong = <<>> /\ o.soft = <<>>
  BY <1>1 DEF validate_descriptor_shape
<1>4. validate_descriptor_shape(q)
  BY <1>2, <1>3 DEF validate_descriptor_shape, ReferenceMapShape, EphemeronAndBuilderShape
<1>5. storage_slot_count(q) = 1 + Slots(length) /\ Width(h, slot) = 1 + Slots(o.length)
  BY <1>2 DEF storage_slot_count, Width
<1>6. SoftReferences(q) = {}
  BY <1>2, <1>3 DEF SoftReferences
<1>7. \/ storage_slot_count(q) = Width(h, slot)
      \/ /\ h.phase # "compacting" /\ slot + storage_slot_count(q) <= Size(h)
         /\ \A t \in Headers(h) : slot < t => slot + storage_slot_count(q) <= t
  BY <1>5
<1> QED BY <1>2, <1>4, <1>6, <1>7 DEF Replaces

LEMMA ScalarsReplace ==
  ASSUME NEW h, LayoutInv(h), NEW slot \in Headers(h), NEW o, o = h.objects[slot],
         o.kind \in {"Builder", "ScalarArray"}, NEW text \in Seq(Chunks),
         o.kind = "Builder" => text = <<>>, NEW q, q = [o EXCEPT !.text = text]
  PROVE  Replaces(h, slot, q)
<1>1. o \in Objects /\ validate_descriptor_shape(o) /\ (o.kind = "Builder" => o.length > 0)
  BY HeaderIsObject DEF LayoutInv, RunsFollow, NamesAreUsed
<1>2. /\ q \in Objects /\ q.kind = o.kind /\ q.length = o.length /\ q.data = o.data /\ q.text = text
      /\ q.strong = o.strong /\ q.soft = o.soft /\ o.length \in Nat
  BY <1>1 DEF Objects
<1>3. o.strong = <<>> /\ o.soft = <<>>
  BY <1>1 DEF validate_descriptor_shape
<1>4. validate_descriptor_shape(q)
  <2>1. q.kind = "Builder" => kStorageSlotBytes * Len(q.text) <= q.length
    BY <1>2 DEF kStorageSlotBytes
  <2> QED BY <1>1, <1>2, <1>3, <2>1 DEF validate_descriptor_shape, ReferenceMapShape, EphemeronAndBuilderShape
<1>5. storage_slot_count(q) = Width(h, slot)
  BY <1>2 DEF storage_slot_count, Width
<1>6. SoftReferences(q) = {}
  BY <1>2, <1>3 DEF SoftReferences
<1> QED BY <1>1, <1>2, <1>4, <1>5, <1>6 DEF Replaces

\* The object q is o with other bytes.
WithText(o, text, q) ==
  /\ q.kind = o.kind /\ q.data = o.data /\ q.strong = o.strong /\ q.soft = o.soft
  /\ q.age = o.age /\ q.marked = o.marked /\ q.text = text

\* The bytes of one object are all that g has of its own.
Retexted(h, slot, text, g) ==
  /\ SamePlaces(h, g) /\ slot \in Headers(h)
  /\ \E q : MutatedAs(h, slot, q, g) /\ WithText(h.objects[slot], text, q)

LEMMA StoreScalarsKeeps ==
  ASSUME NEW h, LayoutInv(h), NEW owner \in Values, Resolves(h, owner),
         ObjectOf(h, owner).kind \in {"Builder", "ScalarArray"}, NEW text \in Seq(Chunks),
         ObjectOf(h, owner).kind = "Builder" => text = <<>>,
         NEW g, g = store_scalars(h, owner, text)
  PROVE  /\ LayoutInv(g) /\ g.allocated = h.allocated
         /\ Retexted(h, checked_slot(h, owner), text, g)
<1> DEFINE slot == checked_slot(h, owner)
           twin == incremental_compaction_shadow_slot(h, owner)
           q == [h.objects[slot] EXCEPT !.text = text]
           p == [h.shadow.objects[twin] EXCEPT !.text = text]
<1>1. g = StoredIn(h, slot, q, twin, p)
  BY DEF store_scalars, Mutated, StoredIn
<1>2. slot \in Headers(h)
  BY ResolvedObject
<1>3. Replaces(h, slot, q)
  BY <1>2, ScalarsReplace DEF ObjectOf
<1>4. h.objects[slot] \in Objects
  BY <1>2, HeaderIsObject DEF LayoutInv
<1>5. WithText(h.objects[slot], text, q)
  BY <1>4 DEF Objects, WithText
<1>7. Retexted(h, checked_slot(h, owner), text, g) <=> Retexted(h, slot, text, g)
  OBVIOUS
<1> HIDE DEF slot, twin, q, p
<1>6. LayoutInv(g) /\ g.allocated = h.allocated /\ SamePlaces(h, g) /\ MutatedAs(h, slot, q, g)
  BY <1>1, <1>3, StoredKeeps
<1> QED BY <1>2, <1>5, <1>6, <1>7 DEF Retexted

AppendedText(h) == ObjectOf(h, h.extra[1]).text \o ObjectOf(h, h.extra[2]).text

\* The heap h with text in the builder that is the first operand.
Appended(h, text, length) ==
  LET slot == checked_slot(h, h.extra[1])
      twin == incremental_compaction_shadow_slot(h, h.extra[1])
  IN  StoredIn(h, slot, [h.objects[slot] EXCEPT !.text = text, !.length = length],
               twin, [h.shadow.objects[twin] EXCEPT !.text = text, !.length = length])

LEMMA AppendKeeps ==
  ASSUME NEW h, LayoutInv(h), 1 \in DOMAIN h.extra, Resolves(h, h.extra[1]),
         ObjectOf(h, h.extra[1]).kind = "Builder", NEW length \in Nat \ {0},
         NEW text \in Seq(Chunks), kStorageSlotBytes * Len(text) <= length,
         \/ length = ObjectOf(h, h.extra[1]).length
         \/ h.phase # "compacting" /\ Room(h, 1 + Slots(length)),
         NEW g, g = Appended(h, text, length)
  PROVE  /\ LayoutInv(g) /\ g.allocated = h.allocated
         /\ Retexted(h, checked_slot(h, h.extra[1]), text, g)
<1> DEFINE slot == checked_slot(h, h.extra[1])
           twin == incremental_compaction_shadow_slot(h, h.extra[1])
           q == [h.objects[slot] EXCEPT !.text = text, !.length = length]
           p == [h.shadow.objects[twin] EXCEPT !.text = text, !.length = length]
<1>1. g = StoredIn(h, slot, q, twin, p)
  BY DEF Appended
<1>2. slot \in Headers(h)
  <2>1. h.extra[1] \in Values
    BY DEF LayoutInv, HeapIsTyped
  <2> QED BY <2>1, ResolvedObject
<1>3. h.objects[slot] = ObjectOf(h, h.extra[1])
  BY DEF ObjectOf
<1>4. \/ length = h.objects[slot].length
      \/ /\ h.phase # "compacting" /\ slot + (1 + Slots(length)) <= Size(h)
         /\ \A t \in Headers(h) : slot < t => slot + (1 + Slots(length)) <= t
  BY <1>3 DEF Room
<1>5. q = [h.objects[slot] EXCEPT !.text = text, !.length = length]
  OBVIOUS
<1>6. h.objects[slot].kind = "Builder" /\ length \in Nat /\ length > 0
  BY <1>3
<1>11. Retexted(h, checked_slot(h, h.extra[1]), text, g) <=> Retexted(h, slot, text, g)
  OBVIOUS
<1> HIDE DEF slot, twin, q, p
<1>7. Replaces(h, slot, q)
  BY <1>2, <1>4, <1>5, <1>6, AppendReplaces
<1>8. h.objects[slot] \in Objects
  BY <1>2, HeaderIsObject DEF LayoutInv
<1>9. WithText(h.objects[slot], text, q)
  BY <1>5, <1>8 DEF Objects, WithText
<1>10. LayoutInv(g) /\ g.allocated = h.allocated /\ SamePlaces(h, g) /\ MutatedAs(h, slot, q, g)
  BY <1>1, <1>7, StoredKeeps
<1> QED BY <1>2, <1>9, <1>10, <1>11 DEF Retexted

\* The bytes of the second operand have been appended to the first.
Extends(h, g) == Retexted(h, checked_slot(h, h.extra[1]), AppendedText(h), g)

\* The bytes are appended in place, or in a larger place.
BuilderGrown(h, owner, source, g) ==
  \E operands \in Seq(Values) :
    LET start == [h EXCEPT !.extra = operands]
    IN  /\ operands = <<canonicalize_incremental_compaction_read(h, owner),
                        canonicalize_incremental_compaction_read(h, source)>>
        /\ \/ Extends(start, g)
           \/ \E width, grown : GrownFor(start, width, grown) /\ Extends(grown, g)

LEMMA BuilderAppendKeeps ==
  ASSUME NEW h, LayoutInv(h), NEW owner \in Values, Resolves(h, owner),
         ObjectOf(h, owner).kind = "Builder", NEW source \in Values, Resolves(h, source),
         NEW g, g = builder_append(h, owner, source)
  PROVE  LayoutInv(g) /\ g.allocated = h.allocated /\ BuilderGrown(h, owner, source, g)
<1> DEFINE o == canonicalize_incremental_compaction_read(h, owner)
           v == canonicalize_incremental_compaction_read(h, source)
           start == [h EXCEPT !.extra = <<o, v>>]
           text == AppendedText(start)
           required == kStorageSlotBytes * Len(text)
           capacity == ObjectOf(start, start.extra[1]).length
           ready == CompactionFinished(start)
           larger == builder_capacity_for_required(capacity, required)
           width == 1 + Slots(larger)
           grown == ensure_growth_storage(ready, width)
<1>1. g = IF required > capacity THEN Appended(grown, AppendedText(grown), larger)
          ELSE Appended(start, AppendedText(start), capacity)
  BY DEF builder_append, Mutated, StoredIn, Appended, AppendedText
<1>2. o \in Values /\ Resolves(h, o) /\ checked_slot(h, o) = checked_slot(h, owner)
  BY CanonicalReference
<1>3. v \in Values /\ Resolves(h, v)
  BY CanonicalReference
<1> HIDE DEF o, v
<1> DEFINE operands == <<o, v>>
<1>4. operands \in Seq(Values) /\ start = [h EXCEPT !.extra = operands]
  BY <1>2, <1>3
<1>a. operands[1] = o /\ operands[2] = v /\ Len(operands) = 2
  OBVIOUS
<1>c. operands = <<canonicalize_incremental_compaction_read(h, owner),
                   canonicalize_incremental_compaction_read(h, source)>>
  BY DEF o, v
<1> HIDE DEF operands
<1>5. text = AppendedText(start) /\ required = kStorageSlotBytes * Len(text)
      /\ capacity = ObjectOf(start, start.extra[1]).length
  OBVIOUS
<1>6. ready = CompactionFinished(start) /\ grown = ensure_growth_storage(ready, width)
  OBVIOUS
<1>7. larger = builder_capacity_for_required(capacity, required) /\ width = 1 + Slots(larger)
  OBVIOUS
<1> HIDE DEF start, text, required, capacity, ready, larger, width, grown
<1>8. /\ LayoutInv(start) /\ SamePlaces(h, start) /\ SameButOperands(h, start)
      /\ start.extra = operands /\ start.stress = h.stress /\ start.cells = h.cells
  BY <1>4, RootedKeeps
<1>b. DOMAIN operands = 1 .. 2
  BY <1>4, <1>a, LenProperties
<1>9. /\ start.extra[1] = o /\ start.extra[2] = v /\ start.extra \in Seq(Values)
      /\ 1 \in DOMAIN start.extra /\ 2 \in DOMAIN start.extra /\ start.allocated = h.allocated
  BY <1>4, <1>8, <1>a, <1>b DEF SameButOperands
<1>10. Resolves(start, o) /\ Resolves(start, v) /\ ObjectOf(start, o) = ObjectOf(h, owner)
  BY <1>2, <1>3, <1>8, SamePlacesResolve DEF LayoutInv, ObjectOf, SameButOperands
<1>11. /\ ObjectOf(start, o) \in Objects /\ ObjectOf(start, v) \in Objects
       /\ checked_slot(start, o) \in Headers(start)
  BY <1>2, <1>3, <1>8, <1>10, ResolvedObject
<1>12. capacity \in Nat \ {0} /\ ObjectOf(start, o).kind = "Builder"
  <2>1. ObjectOf(start, o).length > 0
    BY <1>8, <1>10, <1>11 DEF LayoutInv, NamesAreUsed, ObjectOf
  <2> QED BY <1>5, <1>9, <1>10, <1>11, <2>1, ObjectFields
<1>13. text \in Seq(Chunks)
  <2>1. ObjectOf(start, o).text \in Seq(Chunks) /\ ObjectOf(start, v).text \in Seq(Chunks)
    BY <1>11, ObjectFields
  <2> QED BY <1>5, <1>9, <2>1, ConcatProperties DEF AppendedText
<1>14. required \in Nat
  BY <1>5, <1>13 DEF kStorageSlotBytes
<1>15. CASE ~(required > capacity)
  <2>1. g = Appended(start, text, capacity)
    BY <1>1, <1>5, <1>15
  <2>2. kStorageSlotBytes * Len(text) <= capacity
    BY <1>5, <1>12, <1>14, <1>15
  <2>3. LayoutInv(g) /\ g.allocated = start.allocated /\ Extends(start, g)
    BY <1>5, <1>8, <1>9, <1>10, <1>12, <1>13, <2>1, <2>2, AppendKeeps DEF Extends
  <2> QED BY <1>4, <1>9, <1>c, <2>3 DEF BuilderGrown
<1>16. CASE required > capacity
  <2>1. g = Appended(grown, AppendedText(grown), larger)
    BY <1>1, <1>16
  <2>2. LayoutInv(ready) /\ Carries(start, ready) /\ ready.phase # "compacting"
    BY <1>6, <1>8, CompactionFinishedKeeps
  <2>3. larger \in Nat /\ required <= larger
    BY <1>7, <1>12, <1>14, <1>16, CapacityLadder
  <2>4. larger \in Nat \ {0} /\ capacity <= larger
    BY <1>12, <1>14, <1>16, <2>3
  <2>5. 1 \in DOMAIN ready.extra /\ Becomes(start, o, ready, ready.extra[1])
    <3>1. ready.extra \in Seq(Values) /\ Len(ready.extra) = Len(start.extra)
      BY <2>2 DEF LayoutInv, HeapIsTyped, Carries
    <3>2. DOMAIN ready.extra = DOMAIN start.extra
      BY <1>9, <3>1, LenProperties
    <3> QED BY <1>9, <2>2, <3>2 DEF Carries
  <2>6. /\ Resolves(ready, ready.extra[1])
        /\ SameShape(ObjectOf(start, o), ObjectOf(ready, ready.extra[1]))
    BY <1>10, <2>5 DEF Becomes, Resolves
  <2>7. width \in Nat \ {0} /\ Width(ready, checked_slot(ready, ready.extra[1])) <= width
    <3>1. Width(ready, checked_slot(ready, ready.extra[1])) = 1 + Slots(capacity)
      BY <1>5, <1>9, <1>12, <2>6 DEF Width, ObjectOf, SameShape, storage_slot_count
    <3>2. Slots(capacity) \in Nat /\ Slots(larger) \in Nat /\ Slots(capacity) <= Slots(larger)
      BY <1>12, <2>3, <2>4, SlotsOfBytes
    <3> QED BY <1>7, <3>1, <3>2
  <2>8. Grown(ready, width, grown)
    BY <1>6, <2>2, <2>5, <2>6, <2>7, GrowthKeeps
  <2>9. LayoutInv(grown) /\ Carries(start, grown) /\ grown.phase # "compacting" /\ Room(grown, width)
    BY <1>8, <2>2, <2>8, CarriesOn DEF Grown
  <2>10. /\ 1 \in DOMAIN grown.extra /\ 2 \in DOMAIN grown.extra
         /\ Becomes(start, o, grown, grown.extra[1]) /\ Becomes(start, v, grown, grown.extra[2])
    <3>1. grown.extra \in Seq(Values) /\ Len(grown.extra) = Len(start.extra)
      BY <2>9 DEF LayoutInv, HeapIsTyped, Carries
    <3>2. DOMAIN grown.extra = DOMAIN start.extra
      BY <1>9, <3>1, LenProperties
    <3> QED BY <1>9, <2>9, <3>2 DEF Carries
  <2>11. /\ Resolves(grown, grown.extra[1])
         /\ SameShape(ObjectOf(start, o), ObjectOf(grown, grown.extra[1]))
         /\ SameShape(ObjectOf(start, v), ObjectOf(grown, grown.extra[2]))
    BY <1>10, <2>10 DEF Becomes, Resolves
  <2>12. AppendedText(grown) = text /\ ObjectOf(grown, grown.extra[1]).kind = "Builder"
    BY <1>5, <1>9, <1>12, <2>11 DEF AppendedText, SameShape
  <2>13. kStorageSlotBytes * Len(text) <= larger
    BY <1>5, <2>3
  <2>14. LayoutInv(g) /\ g.allocated = grown.allocated /\ Extends(grown, g)
    BY <1>7, <1>13, <2>1, <2>4, <2>9, <2>10, <2>11, <2>12, <2>13, AppendKeeps DEF Extends
  <2>15. GrownFor(start, width, grown)
    BY <1>6, <2>2, <2>5, <2>6, <2>7 DEF GrownFor
  <2>16. BuilderGrown(h, owner, source, g)
    BY <1>4, <1>c, <2>14, <2>15 DEF BuilderGrown
  <2> QED BY <1>9, <2>9, <2>14, <2>16 DEF Carries
<1> QED BY <1>15, <1>16

(***************************************************************************)
(* The actions of the state machine.                                       *)
(***************************************************************************)
LEMMA HeapRecord ==
  /\ DOMAIN heap = HeapFields
  /\ heap.objects = objects /\ heap.generations = generations
  /\ heap.remembered_set = remembered_set /\ heap.weak_refs = weak_refs
  /\ heap.ephemerons = ephemerons /\ heap.intern_table = intern_table
  /\ heap.cells = cells /\ heap.extra = <<>> /\ heap.stress = {}
  /\ heap.phase = phase /\ heap.worklist = worklist /\ heap.plan = plan
  /\ heap.cursor = cursor /\ heap.shadow = shadow /\ heap.allocated = allocated
BY DEF heap, HeapFields

\* What a step installs.
LEMMA BecomeKeeps ==
  ASSUME NEW h, LayoutInv(h), Become(h)
  PROVE  LayoutInv(heap)' /\ allocated' = h.allocated
<1> DEFINE g == heap'
<1>1. /\ DOMAIN g = HeapFields
      /\ g.objects = h.objects /\ g.generations = h.generations
      /\ g.remembered_set = h.remembered_set /\ g.weak_refs = h.weak_refs
      /\ g.ephemerons = h.ephemerons /\ g.intern_table = h.intern_table
      /\ g.cells = h.cells /\ g.extra = <<>>
      /\ g.phase = h.phase /\ g.worklist = h.worklist /\ g.plan = h.plan
      /\ g.cursor = h.cursor /\ g.shadow = h.shadow /\ g.allocated = h.allocated
  BY DEF heap, Become, HeapFields
<1>2. allocated' = h.allocated
  BY DEF Become
<1>4. g = heap'
  OBVIOUS
<1> HIDE DEF g
<1>5. SameButOperands(h, g) /\ g.extra \in Seq(Values) /\ g.cells \in [Cells -> Values]
  BY <1>1, EmptySeq DEF SameButOperands, LayoutInv, HeapIsTyped
<1>6. LayoutInv(g)
  BY <1>5, OperandsKeep
<1>7. LayoutInv(heap')
  BY <1>4, <1>6
<1>8. LayoutInv(heap)'
  BY <1>7
<1> QED BY <1>2, <1>8

\* The method returns a reference, which the mutator keeps.
LEMMA ReturnKeeps ==
  ASSUME NEW k, LayoutInv(k), k.extra[1] \in Values, NEW c \in Cells, ReturnTo(c, k)
  PROVE  LayoutInv(heap)' /\ allocated' = k.allocated
<1> DEFINE v == k.extra[1]
           g == [k EXCEPT !.cells[c] = v]
<1>1. v \in Values /\ g = [k EXCEPT !.cells[c] = v]
  OBVIOUS
<1>2. Become(g)
  BY DEF ReturnTo
<1> HIDE DEF v, g
<1>3. SameButOperands(k, g) /\ g.extra \in Seq(Values) /\ g.cells \in [Cells -> Values]
      /\ g.allocated = k.allocated
  BY <1>1 DEF LayoutInv, HeapIsTyped, HeapFields, SameButOperands
<1>4. LayoutInv(g)
  BY <1>3, OperandsKeep
<1> QED BY <1>2, <1>3, <1>4, BecomeKeeps

\* The heap with another of its host's stress configurations.
StressedAs(config, h) ==
  /\ LayoutInv(h) /\ SamePlaces(heap, h) /\ SameButOperands(heap, h)
  /\ \A v : /\ Resolves(h, v) <=> Resolves(heap, v)
            /\ ObjectOf(h, v) = ObjectOf(heap, v)

LEMMA StressedKeeps ==
  ASSUME LayoutInv(heap), NEW config, NEW h, h = Stressed(config)
  PROVE  StressedAs(config, h)
<1>1. /\ SameButOperands(heap, h) /\ h.extra \in Seq(Values) /\ h.cells \in [Cells -> Values]
  BY HeapRecord DEF Stressed, LayoutInv, HeapIsTyped, SameButOperands, HeapFields
<1>2. LayoutInv(h) /\ SamePlaces(heap, h)
  BY <1>1, OperandsKeep
<1>3. \A v : checked_slot(h, v) = checked_slot(heap, v) /\ (Resolves(h, v) <=> Resolves(heap, v))
  BY <1>2, SamePlacesResolve DEF LayoutInv
<1>4. h.objects = heap.objects
  BY <1>1 DEF SameButOperands
<1> QED BY <1>1, <1>2, <1>3, <1>4 DEF StressedAs, ObjectOf

LEMMA OperandsAreUsable ==
  ASSUME LayoutInv(heap)
  PROVE  \A v \in Operands : v \in Values /\ (is_object(v) => Resolves(heap, v))
<1>1. cells \in [Cells -> Values]
  BY HeapRecord DEF LayoutInv, HeapIsTyped
<1> QED BY <1>1 DEF Operands, Usable, Values

LEMMA StringsAreUsable ==
  ASSUME LayoutInv(heap)
  PROVE  \A v \in StringOperands : v \in Values /\ Resolves(heap, v)
BY OperandsAreUsable DEF StringOperands, ObjectOperands, is_object

LEMMA ReceiversAreUsable ==
  ASSUME LayoutInv(heap), host \in Hosts, NEW kinds
  PROVE  \A v \in Receivers(kinds) :
           v \in Ids /\ v \in Values /\ Resolves(heap, v) /\ ObjectOf(heap, v).kind \in kinds
<1>1. cells \in [Cells -> Values]
  BY HeapRecord DEF LayoutInv, HeapIsTyped
<1>2. host.owners \subseteq Cells
  BY HostsAssumption
<1> QED BY <1>1, <1>2, ValueIsId DEF Receivers, Resolves

\* There is a next object.
LEMMA NextShapeIs ==
  ASSUME GcLayoutInv, NEW shape \in NextShapes
  PROVE  Constructible(shape) /\ allocated + 1 \in Nat /\ allocated + 1 <= MaxObjects
<1>1. allocated \in Nat
  BY HeapRecord DEF GcLayoutInv, LayoutInv, HeapIsTyped
<1>2. allocated < MaxObjects /\ shape \in host.shapes[allocated + 1]
  BY DEF NextShapes
<1>3. MaxObjects \in Nat /\ MaxObjects = Len(host.shapes)
  BY HostsAssumption DEF GcLayoutInv, MaxObjects
<1>4. allocated + 1 \in 1 .. Len(host.shapes)
  BY <1>1, <1>2, <1>3
<1> QED BY <1>1, <1>2, <1>3, <1>4, HostsAssumption DEF GcLayoutInv

LEMMA RegisteredCells == Registered \subseteq Cells
BY DEF Registered

\* What every step keeps; no step changes the host.
LayoutKept == LayoutInv(heap)' /\ allocated' <= MaxObjects

\* A step that allocates nothing.
LEMMA NothingAllocated ==
  ASSUME GcLayoutInv, NEW h, h.allocated = allocated, NEW g, LayoutInv(g), g.allocated = h.allocated,
         Become(g)
  PROVE  LayoutKept
<1>1. LayoutInv(heap)' /\ allocated' = g.allocated
  BY BecomeKeeps
<1> QED BY <1>1 DEF LayoutKept, GcLayoutInv

LEMMA AllocateObjectStep ==
  ASSUME GcLayoutInv, AllocateObject
  PROVE  LayoutKept
<1> SUFFICES ASSUME NEW config \in host.stress, NEW c \in Registered, NEW shape \in NextShapes,
                    NEW values \in [1 .. shape.refs -> Operands],
                    NEW text \in [1 .. (IF shape.kind = "Str" THEN Slots(shape.length) ELSE 0) -> Chunks],
                    Admissible(shape, values),
                    ReturnTo(c, AllocateFrom(Stressed(config), values,
                                  LAMBDA b : NewObject(b, shape, b.extra, text)))
             PROVE  LayoutKept
  BY DEF AllocateObject
<1> DEFINE h == Stressed(config)
           b == StressBeforeAllocation(h, values)
           o == NewObject(b, shape, b.extra, text)
           g == StressAfterAllocation(allocate_object(b, o))
<1>1. ReturnTo(c, g)
  BY DEF AllocateFrom, AllocateIn
<1>2. h = Stressed(config)
  OBVIOUS
<1>3. b = StressBeforeAllocation(h, values) /\ o = NewObject(b, shape, b.extra, text)
  OBVIOUS
<1>4. g = StressAfterAllocation(allocate_object(b, o))
  OBVIOUS
<1> HIDE DEF h, b, o, g
<1>5. LayoutInv(heap) /\ host \in Hosts
  BY DEF GcLayoutInv
<1>6. StressedAs(config, h)
  BY <1>2, <1>5, StressedKeeps
<1>7. LayoutInv(h) /\ (\A v : Resolves(h, v) <=> Resolves(heap, v)) /\ h.allocated = allocated
  BY <1>6, HeapRecord DEF StressedAs, SameButOperands
<1>8. Constructible(shape) /\ allocated + 1 \in Nat /\ allocated + 1 <= MaxObjects
  BY NextShapeIs
<1>9. values \in [1 .. shape.refs -> Values]
  BY <1>5, OperandsAreUsable
<1>10. \A i \in 1 .. shape.refs : is_object(values[i]) => Resolves(h, values[i])
  BY <1>5, <1>7, OperandsAreUsable
<1>11. shape.kind = "Ephemeron" => is_object(values[1])
  BY DEF Admissible, is_object
<1> DEFINE n == IF shape.kind = "Str" THEN Slots(shape.length) ELSE 0
<1>12. n \in Nat
  BY <1>8, SlotsOfBytes DEF Constructible
<1>13. text \in [1 .. n -> Chunks] /\ (shape.kind = "Builder" => n = 0)
  OBVIOUS
<1> HIDE DEF n
<1>14. text \in Seq(Chunks) /\ Len(text) = n
  BY <1>12, <1>13, SeqDef, LenProperties
<1>15. shape.kind = "Builder" => text = <<>>
  BY <1>13, <1>14, EmptySeq
<1>16. LayoutInv(g) /\ g.extra[1] \in Ids /\ g.allocated = h.allocated + 1
  <2>1. Given(h, shape, values, text)
    BY <1>8, <1>9, <1>10, <1>11, <1>14, <1>15 DEF Given
  <2> QED BY <1>3, <1>4, <1>7, <2>1, ConstructorKeeps
<1>17. c \in Cells /\ g.extra[1] \in Values
  BY <1>16, RegisteredCells, IdsAreReferences
<1>18. LayoutInv(heap)' /\ allocated' = g.allocated
  BY <1>1, <1>16, <1>17, ReturnKeeps
<1> QED BY <1>7, <1>8, <1>16, <1>18 DEF LayoutKept

\* A method that returns a new string.
LEMMA StringReturned ==
  ASSUME GcLayoutInv, MayAllocateString, NEW k, LayoutInv(k), k.extra[1] \in Ids,
         k.allocated = allocated + 1, NEW c \in Registered, ReturnTo(c, k)
  PROVE  LayoutKept
<1>1. allocated + 1 <= MaxObjects
  BY NextShapeIs DEF MayAllocateString
<1>2. c \in Cells /\ k.extra[1] \in Values
  BY RegisteredCells, IdsAreReferences
<1>3. LayoutInv(heap)' /\ allocated' = k.allocated
  BY <1>2, ReturnKeeps
<1> QED BY <1>1, <1>3 DEF LayoutKept

LEMMA ConcatStringsStep ==
  ASSUME GcLayoutInv, ConcatStrings
  PROVE  LayoutKept
<1> SUFFICES ASSUME NEW config \in host.stress, NEW c \in Registered,
                    NEW left \in StringOperands, NEW right \in StringOperands, MayAllocateString,
                    ReturnTo(c, allocate_string_concat(Stressed(config), left, right))
             PROVE  LayoutKept
  BY DEF ConcatStrings
<1> DEFINE h == Stressed(config)
           g == allocate_string_concat(h, left, right)
<1>1. ReturnTo(c, g) /\ h = Stressed(config) /\ g = allocate_string_concat(h, left, right)
  OBVIOUS
<1> HIDE DEF h, g
<1>2. LayoutInv(heap)
  BY DEF GcLayoutInv
<1>3. StressedAs(config, h)
  BY <1>1, <1>2, StressedKeeps
<1>4. LayoutInv(h) /\ h.allocated = allocated
  BY <1>3, HeapRecord DEF StressedAs, SameButOperands
<1>5. left \in Values /\ Resolves(h, left) /\ right \in Values /\ Resolves(h, right)
  BY <1>2, <1>3, StringsAreUsable DEF StressedAs
<1>6. PICK text : TextAllocated(h, text, g)
  BY <1>1, <1>4, <1>5, ConcatKeeps
<1>7. LayoutInv(g) /\ g.extra[1] \in Ids /\ g.allocated = allocated + 1
  BY <1>4, <1>6 DEF TextAllocated
<1> QED BY <1>1, <1>7, StringReturned

LEMMA TakeSubstringStep ==
  ASSUME GcLayoutInv, TakeSubstring
  PROVE  LayoutKept
<1> SUFFICES ASSUME NEW config \in host.stress, NEW c \in Registered, NEW source \in StringOperands,
                    NEW hi \in 0 .. Len(ObjectOf(heap, source).text), NEW lo \in 0 .. hi,
                    MayAllocateString,
                    ReturnTo(c, allocate_string_substring(Stressed(config), source, lo, hi))
             PROVE  LayoutKept
  BY DEF TakeSubstring
<1> DEFINE h == Stressed(config)
           g == allocate_string_substring(h, source, lo, hi)
<1>1. ReturnTo(c, g) /\ h = Stressed(config) /\ g = allocate_string_substring(h, source, lo, hi)
  OBVIOUS
<1> HIDE DEF h, g
<1>2. LayoutInv(heap)
  BY DEF GcLayoutInv
<1>3. StressedAs(config, h)
  BY <1>1, <1>2, StressedKeeps
<1>4. LayoutInv(h) /\ h.allocated = allocated
  BY <1>3, HeapRecord DEF StressedAs, SameButOperands
<1>5. source \in Values /\ Resolves(h, source) /\ hi \in 0 .. Len(ObjectOf(h, source).text)
  BY <1>2, <1>3, StringsAreUsable DEF StressedAs
<1>6. PICK text : TextAllocated(h, text, g)
  BY <1>1, <1>4, <1>5, SubstringKeeps
<1>7. LayoutInv(g) /\ g.extra[1] \in Ids /\ g.allocated = allocated + 1
  BY <1>4, <1>6 DEF TextAllocated
<1> QED BY <1>1, <1>7, StringReturned

LEMMA BuilderToStringStep ==
  ASSUME GcLayoutInv, BuilderToString
  PROVE  LayoutKept
<1> SUFFICES ASSUME NEW config \in host.stress, NEW c \in Registered,
                    NEW builder \in Receivers({"Builder"}), MayAllocateString,
                    ReturnTo(c, builder_to_string(Stressed(config), builder))
             PROVE  LayoutKept
  BY DEF BuilderToString
<1> DEFINE h == Stressed(config)
           g == builder_to_string(h, builder)
<1>1. ReturnTo(c, g) /\ h = Stressed(config) /\ g = builder_to_string(h, builder)
  OBVIOUS
<1> HIDE DEF h, g
<1>2. LayoutInv(heap) /\ host \in Hosts
  BY DEF GcLayoutInv
<1>3. StressedAs(config, h)
  BY <1>1, <1>2, StressedKeeps
<1>4. LayoutInv(h) /\ h.allocated = allocated
  BY <1>3, HeapRecord DEF StressedAs, SameButOperands
<1>5. builder \in Values /\ Resolves(h, builder)
  BY <1>2, <1>3, ReceiversAreUsable DEF StressedAs
<1>6. LayoutInv(g) /\ g.extra[1] \in Ids /\ g.allocated = allocated + 1
  BY <1>1, <1>4, <1>5, BuilderToStringKeeps
<1> QED BY <1>1, <1>6, StringReturned

LEMMA InternStringStep ==
  ASSUME GcLayoutInv, InternString
  PROVE  LayoutKept
<1> SUFFICES ASSUME NEW config \in host.stress, NEW c \in Registered, NEW source \in StringOperands,
                    MayAllocateString \/ CanonicalStrings(heap, ObjectOf(heap, source).text) # {},
                    ReturnTo(c, intern_string(Stressed(config), source))
             PROVE  LayoutKept
  BY DEF InternString
<1> DEFINE h == Stressed(config)
           g == intern_string(h, source)
<1>1. ReturnTo(c, g) /\ h = Stressed(config) /\ g = intern_string(h, source)
  OBVIOUS
<1> HIDE DEF h, g
<1>2. LayoutInv(heap)
  BY DEF GcLayoutInv
<1>3. StressedAs(config, h)
  BY <1>1, <1>2, StressedKeeps
<1>4. LayoutInv(h) /\ h.allocated = allocated /\ h.intern_table = heap.intern_table
  BY <1>3, HeapRecord DEF StressedAs, SameButOperands
<1>5. source \in Values /\ Resolves(h, source) /\ ObjectOf(h, source) = ObjectOf(heap, source)
  BY <1>2, <1>3, StringsAreUsable DEF StressedAs
<1>6. /\ LayoutInv(g) /\ g.extra[1] \in Ids /\ g.allocated \in {h.allocated, h.allocated + 1}
      /\ CanonicalStrings(h, ObjectOf(h, source).text) # {} => g.allocated = h.allocated
  BY <1>1, <1>4, <1>5, InternKeeps
<1>7. CanonicalStrings(h, ObjectOf(h, source).text) = CanonicalStrings(heap, ObjectOf(heap, source).text)
  BY <1>3, <1>4, <1>5 DEF CanonicalStrings, StressedAs
<1>8. CASE g.allocated = allocated + 1 /\ MayAllocateString
  BY <1>1, <1>6, <1>8, StringReturned
<1>9. CASE g.allocated = h.allocated
  <2>1. c \in Cells /\ g.extra[1] \in Values
    BY <1>6, RegisteredCells, IdsAreReferences
  <2>2. LayoutInv(heap)' /\ allocated' = g.allocated
    BY <1>1, <1>6, <2>1, ReturnKeeps
  <2> QED BY <1>4, <1>9, <2>2 DEF LayoutKept, GcLayoutInv
<1> QED BY <1>4, <1>6, <1>7, <1>8, <1>9

\* What the operands of a store are in the heap that it starts from.
LEMMA StoreStarts ==
  ASSUME GcLayoutInv, NEW config, NEW h, h = Stressed(config), NEW kinds,
         NEW owner \in Receivers(kinds), NEW value \in Operands
  PROVE  /\ LayoutInv(h) /\ h.allocated = allocated
         /\ owner \in Ids /\ owner \in Values /\ Resolves(h, owner)
         /\ ObjectOf(h, owner) = ObjectOf(heap, owner) /\ ObjectOf(h, owner).kind \in kinds
         /\ checked_slot(h, owner) \in Headers(h) /\ ObjectOf(h, owner) \in Objects
         /\ validate_descriptor_shape(ObjectOf(h, owner))
         /\ value \in Values /\ (is_object(value) => Resolves(h, value))
<1>1. LayoutInv(heap) /\ host \in Hosts
  BY DEF GcLayoutInv
<1>2. StressedAs(config, h)
  BY <1>1, StressedKeeps
<1>3. LayoutInv(h) /\ h.allocated = allocated
  BY <1>2, HeapRecord DEF StressedAs, SameButOperands
<1>4. owner \in Ids /\ owner \in Values /\ Resolves(heap, owner) /\ ObjectOf(heap, owner).kind \in kinds
  BY <1>1, ReceiversAreUsable
<1>5. value \in Values /\ (is_object(value) => Resolves(heap, value))
  BY <1>1, OperandsAreUsable
<1>6. Resolves(h, owner) /\ ObjectOf(h, owner) = ObjectOf(heap, owner)
      /\ (is_object(value) => Resolves(h, value))
  BY <1>2, <1>4, <1>5 DEF StressedAs
<1>7. /\ checked_slot(h, owner) \in Headers(h) /\ ObjectOf(h, owner) \in Objects
      /\ validate_descriptor_shape(ObjectOf(h, owner))
  BY <1>3, <1>4, <1>6, ResolvedObject
<1> QED BY <1>3, <1>4, <1>5, <1>6, <1>7

LEMMA StoreFieldStep ==
  ASSUME GcLayoutInv, StoreField
  PROVE  LayoutKept
<1> SUFFICES ASSUME NEW config \in host.stress, NEW owner \in Receivers({"Pair", "Record", "RefArray"}),
                    NEW value \in Operands, NEW i \in DOMAIN ObjectOf(heap, owner).strong,
                    Become(store_field(Stressed(config), owner, i, value))
             PROVE  LayoutKept
  BY DEF StoreField
<1> DEFINE h == Stressed(config)
           g == store_field(h, owner, i, value)
<1>1. Become(g) /\ h = Stressed(config) /\ g = store_field(h, owner, i, value)
  OBVIOUS
<1> HIDE DEF h, g
<1>2. /\ LayoutInv(h) /\ h.allocated = allocated /\ owner \in Ids /\ Resolves(h, owner)
      /\ ObjectOf(h, owner) = ObjectOf(heap, owner) /\ value \in Values
  BY <1>1, StoreStarts
<1>3. LayoutInv(g) /\ g.allocated = h.allocated
  BY <1>1, <1>2, StoreFieldKeeps
<1> QED BY <1>1, <1>2, <1>3, NothingAllocated

LEMMA StoreEphemeronValueStep ==
  ASSUME GcLayoutInv, StoreEphemeronValue
  PROVE  LayoutKept
<1> SUFFICES ASSUME NEW config \in host.stress, NEW owner \in Receivers({"Ephemeron"}),
                    NEW value \in Operands, is_object(ObjectOf(heap, owner).soft[1]),
                    Become(store_ephemeron_value(Stressed(config), owner, value))
             PROVE  LayoutKept
  BY DEF StoreEphemeronValue
<1> DEFINE h == Stressed(config)
           g == store_ephemeron_value(h, owner, value)
<1>1. Become(g) /\ h = Stressed(config) /\ g = store_ephemeron_value(h, owner, value)
  OBVIOUS
<1> DEFINE kinds == {"Ephemeron"}
<1>0. owner \in Receivers(kinds) /\ \A kind \in kinds : kind = "Ephemeron"
  OBVIOUS
<1> HIDE DEF kinds, h, g
<1>2. /\ LayoutInv(h) /\ h.allocated = allocated /\ owner \in Ids /\ Resolves(h, owner)
      /\ ObjectOf(h, owner) = ObjectOf(heap, owner) /\ ObjectOf(h, owner).kind = "Ephemeron"
      /\ value \in Values /\ (is_object(value) => Resolves(h, value))
  BY <1>0, <1>1, StoreStarts
<1>3. LayoutInv(g) /\ g.allocated = h.allocated
  BY <1>1, <1>2, StoreEphemeronKeeps
<1> QED BY <1>1, <1>2, <1>3, NothingAllocated

LEMMA KeysAreValues ==
  ASSUME LayoutInv(heap)
  PROVE  StringOperands \cup {Nil} \subseteq Values
BY StringsAreUsable DEF Values

LEMMA MapInsertStep ==
  ASSUME GcLayoutInv, MapInsert
  PROVE  LayoutKept
<1> SUFFICES ASSUME NEW config \in host.stress, NEW owner \in Receivers({"Map"}),
                    NEW key \in StringOperands \cup {Nil}, NEW value \in Operands,
                    Become(insert_map_entry(Stressed(config), owner, key, value))
             PROVE  LayoutKept
  BY DEF MapInsert
<1> DEFINE h == Stressed(config)
           g == insert_map_entry(h, owner, key, value)
<1>1. Become(g) /\ h = Stressed(config) /\ g = insert_map_entry(h, owner, key, value)
  OBVIOUS
<1> DEFINE kinds == {"Map"}
<1>0. owner \in Receivers(kinds) /\ \A kind \in kinds : kind = "Map"
  OBVIOUS
<1> HIDE DEF kinds, h, g
<1>2. /\ LayoutInv(h) /\ h.allocated = allocated /\ owner \in Values /\ Resolves(h, owner)
      /\ ObjectOf(h, owner).kind = "Map" /\ value \in Values
  BY <1>0, <1>1, StoreStarts
<1>3. key \in Values
  BY KeysAreValues DEF GcLayoutInv
<1>4. LayoutInv(g) /\ g.allocated = h.allocated
  BY <1>1, <1>2, <1>3, InsertMapKeeps
<1> QED BY <1>1, <1>2, <1>4, NothingAllocated

LEMMA MapUpdateStep ==
  ASSUME GcLayoutInv, MapUpdate
  PROVE  LayoutKept
<1> SUFFICES ASSUME NEW config \in host.stress, NEW owner \in Receivers({"Map"}), NEW value \in Operands,
                    NEW i \in 1 .. ObjectOf(heap, owner).length, NEW key \in StringOperands \cup {Nil},
                    Become(update_map_entry(Stressed(config), owner, i, key, value))
             PROVE  LayoutKept
  BY DEF MapUpdate
<1> DEFINE h == Stressed(config)
           g == update_map_entry(h, owner, i, key, value)
           o == ObjectOf(h, owner)
<1>1. Become(g) /\ h = Stressed(config) /\ g = update_map_entry(h, owner, i, key, value)
      /\ o = ObjectOf(h, owner)
  OBVIOUS
<1> DEFINE kinds == {"Map"}
<1>0. owner \in Receivers(kinds) /\ \A kind \in kinds : kind = "Map"
  OBVIOUS
<1> HIDE DEF kinds, h, g, o
<1>2. /\ LayoutInv(h) /\ h.allocated = allocated /\ owner \in Ids /\ Resolves(h, owner)
      /\ o = ObjectOf(heap, owner) /\ o \in Objects /\ o.kind = "Map"
      /\ validate_descriptor_shape(o) /\ value \in Values
  BY <1>0, <1>1, StoreStarts
<1>3. key \in Values
  BY KeysAreValues DEF GcLayoutInv
<1>4. 2 * i \in DOMAIN o.strong /\ o = ObjectOf(h, owner)
  <2>1. o.strong \in Seq(Values) /\ o.length \in Nat /\ Len(o.strong) = 2 * o.length
    BY <1>2, ObjectFields DEF validate_descriptor_shape
  <2>2. DOMAIN o.strong = 1 .. 2 * o.length
    BY <2>1, LenProperties
  <2>3. i \in 1 .. o.length
    BY <1>2
  <2> QED BY <1>1, <2>1, <2>2, <2>3
<1>5. LayoutInv(g) /\ g.allocated = h.allocated
  BY <1>1, <1>2, <1>3, <1>4, UpdateMapKeeps
<1> QED BY <1>1, <1>2, <1>5, NothingAllocated

LEMMA BuilderAppendStep ==
  ASSUME GcLayoutInv, BuilderAppend
  PROVE  LayoutKept
<1> SUFFICES ASSUME NEW owner \in Receivers({"Builder"}), NEW source \in StringOperands,
                    Become(builder_append(heap, owner, source))
             PROVE  LayoutKept
  BY DEF BuilderAppend
<1> DEFINE g == builder_append(heap, owner, source)
<1>1. Become(g) /\ g = builder_append(heap, owner, source)
  OBVIOUS
<1> HIDE DEF g
<1>2. LayoutInv(heap) /\ host \in Hosts /\ heap.allocated = allocated
  BY HeapRecord DEF GcLayoutInv
<1>3. owner \in Values /\ Resolves(heap, owner) /\ ObjectOf(heap, owner).kind = "Builder"
  BY <1>2, ReceiversAreUsable
<1>4. source \in Values /\ Resolves(heap, source)
  BY <1>2, StringsAreUsable
<1>5. LayoutInv(g) /\ g.allocated = heap.allocated
  BY <1>1, <1>2, <1>3, <1>4, BuilderAppendKeeps
<1> QED BY <1>1, <1>2, <1>5, NothingAllocated

LEMMA StoreScalarsStep ==
  ASSUME GcLayoutInv, StoreScalars
  PROVE  LayoutKept
<1> SUFFICES ASSUME NEW owner \in Receivers({"Builder", "ScalarArray"}), NEW chunk \in Chunks,
                    Become(store_scalars(heap, owner,
                             IF ObjectOf(heap, owner).kind = "Builder" THEN <<>> ELSE <<chunk>>))
             PROVE  LayoutKept
  BY DEF StoreScalars
<1> DEFINE text == IF ObjectOf(heap, owner).kind = "Builder" THEN <<>> ELSE <<chunk>>
           g == store_scalars(heap, owner, text)
<1>1. Become(g) /\ g = store_scalars(heap, owner, text)
  OBVIOUS
<1>2. text \in Seq(Chunks) /\ (ObjectOf(heap, owner).kind = "Builder" => text = <<>>)
  OBVIOUS
<1> HIDE DEF text, g
<1>3. LayoutInv(heap) /\ host \in Hosts /\ heap.allocated = allocated
  BY HeapRecord DEF GcLayoutInv
<1>4. owner \in Values /\ Resolves(heap, owner)
      /\ ObjectOf(heap, owner).kind \in {"Builder", "ScalarArray"}
  BY <1>3, ReceiversAreUsable
<1>5. LayoutInv(g) /\ g.allocated = heap.allocated
  BY <1>1, <1>2, <1>3, <1>4, StoreScalarsKeeps
<1> QED BY <1>1, <1>3, <1>5, NothingAllocated

\* The mutator keeps a reference in one of its cells.
LEMMA CellKeeps ==
  ASSUME GcLayoutInv, NEW c \in Cells, NEW v \in Values, NEW g, g = [heap EXCEPT !.cells[c] = v],
         Become(g)
  PROVE  LayoutKept
<1>1. LayoutInv(heap) /\ heap.allocated = allocated
  BY HeapRecord DEF GcLayoutInv
<1>2. SameButOperands(heap, g) /\ g.extra \in Seq(Values) /\ g.cells \in [Cells -> Values]
      /\ g.allocated = heap.allocated
  BY <1>1 DEF LayoutInv, HeapIsTyped, HeapFields, SameButOperands
<1>3. LayoutInv(g)
  BY <1>1, <1>2, OperandsKeep
<1> QED BY <1>1, <1>2, <1>3, NothingAllocated

LEMMA LoadReferenceStep ==
  ASSUME GcLayoutInv, LoadReference
  PROVE  LayoutKept
<1> SUFFICES ASSUME NEW c \in Registered, NEW owner \in ObjectOperands,
                    NEW v \in visit_reference_fields(ObjectOf(heap, owner))
                              \cup SoftReferences(ObjectOf(heap, owner)),
                    Become([heap EXCEPT !.cells[c] = canonicalize_incremental_compaction_read(heap, v)])
             PROVE  LayoutKept
  BY DEF LoadReference
<1> DEFINE w == canonicalize_incremental_compaction_read(heap, v)
           g == [heap EXCEPT !.cells[c] = w]
<1>1. Become(g) /\ w = canonicalize_incremental_compaction_read(heap, v) /\ g = [heap EXCEPT !.cells[c] = w]
  OBVIOUS
<1> HIDE DEF w, g
<1>2. LayoutInv(heap)
  BY DEF GcLayoutInv
<1>3. owner \in Values /\ Resolves(heap, owner)
  BY <1>2, OperandsAreUsable DEF ObjectOperands, is_object
<1>4. v \in Values
  BY <1>2, <1>3, ResolvedObject, FieldsAreValues
<1>5. w \in Values /\ c \in Cells
  BY <1>1, <1>2, <1>4, CanonicalReference, RegisteredCells
<1> QED BY <1>1, <1>5, CellKeeps

LEMMA AssignStep ==
  ASSUME GcLayoutInv, Assign
  PROVE  LayoutKept
<1> SUFFICES ASSUME NEW c \in Registered \cup host.raw, NEW v \in Operands,
                    Become([heap EXCEPT !.cells[c] = v])
             PROVE  LayoutKept
  BY DEF Assign
<1>1. c \in Cells
  BY RegisteredCells, HostsAssumption, CellsAssumption DEF GcLayoutInv
<1>2. v \in Values
  BY OperandsAreUsable DEF GcLayoutInv
<1> DEFINE g == [heap EXCEPT !.cells[c] = v]
<1>3. Become(g) /\ g = [heap EXCEPT !.cells[c] = v]
  OBVIOUS
<1> HIDE DEF g
<1> QED BY <1>1, <1>2, <1>3, CellKeeps

(***************************************************************************)
(* The collector's entry points.                                           *)
(***************************************************************************)
\* Outside a compaction, what is enqueued is an object.
LEMMA EnqueuedIsObject ==
  ASSUME NEW h, h.cursor = 0, NEW values, NEW kind
  PROVE  Enqueued(h, values, kind) \subseteq Headers(h)
<1> SUFFICES ASSUME NEW s \in Enqueued(h, values, kind) PROVE s \in Headers(h)
  OBVIOUS
<1>1. PICK v \in values \ {Nil} : s = checked_slot(h, v) /\ s # NoSlot
  BY DEF Enqueued
<1>2. Physical(h, v) /\ s = slot_from(v)
  BY <1>1, StillHeap
<1> QED BY <1>2 DEF Physical, Headers

LEMMA GreyIds ==
  ASSUME NEW h, LayoutInv(h), h.phase # "compacting", NEW values, NEW kind,
         NEW g, HeapIsTyped(g), g.cursor = h.cursor, g.generations = h.generations
  PROVE  {IdAt(g, s) : s \in Enqueued(g, values, kind)} \subseteq Ids
<1>1. g.cursor = 0
  BY DEF LayoutInv, PhaseIsClean
<1>2. \A s \in Headers(g) : s \in Int /\ g.generations[s] \in Nat
  BY HeaderIsObject
<1>3. Enqueued(g, values, kind) \subseteq Headers(g)
  BY <1>1, EnqueuedIsObject
<1> QED BY <1>2, <1>3 DEF IdAt, make_object_id, Ids

\* g is h with the object at slot black.
BlackAt(h, slot, g) ==
  /\ DOMAIN g = HeapFields
  /\ g.objects = [h.objects EXCEPT ![slot] = [h.objects[slot] EXCEPT !.marked = TRUE]]
  /\ g.generations = h.generations /\ g.remembered_set = h.remembered_set
  /\ g.weak_refs = h.weak_refs /\ g.intern_table = h.intern_table /\ g.ephemerons = h.ephemerons
  /\ g.cells = h.cells /\ g.extra = h.extra /\ g.phase = h.phase
  /\ g.plan = h.plan /\ g.cursor = h.cursor /\ g.shadow = h.shadow
  /\ g.allocated = h.allocated /\ g.stress = h.stress

LEMMA ScannedIs ==
  ASSUME NEW h, DOMAIN h = HeapFields, NEW slot, NEW g, g = ScanObject(h, slot)
  PROVE  BlackAt(h, slot, g) /\ g.worklist = h.worklist
BY DEF ScanObject, BlackAt, HeapFields

LEMMA BlackObjects ==
  ASSUME NEW h, LayoutInv(h), h.phase # "compacting", NEW id, NEW slot, slot = checked_slot(h, id),
         NEW g, BlackAt(h, slot, g)
  PROVE  /\ g.objects \in [0 .. Size(h) - 1 -> Objects \cup {None}]
         /\ Size(g) = Size(h) /\ Headers(g) = Headers(h)
         /\ \A s \in Headers(h) : SameContents(h.objects[s], g.objects[s])
<1>1. /\ h.cursor = 0 /\ HeapIsTyped(h) /\ Size(h) \in Nat
      /\ h.objects \in [0 .. Size(h) - 1 -> Objects \cup {None}]
  BY DEF LayoutInv, PhaseIsClean, HeapIsTyped
<1>2. slot \in Headers(h) \/ slot = NoSlot
  BY <1>1, StillHeap DEF Physical, Headers
<1> DEFINE q == [h.objects[slot] EXCEPT !.marked = TRUE]
<1>3. g.objects = [h.objects EXCEPT ![slot] = q]
  BY DEF BlackAt
<1>4. slot \in Headers(h) => q \in Objects /\ SameContents(h.objects[slot], q)
  <2> SUFFICES ASSUME slot \in Headers(h) PROVE q \in Objects /\ SameContents(h.objects[slot], q)
    OBVIOUS
  <2>1. h.objects[slot] \in Objects
    BY <1>1, HeaderIsObject
  <2> QED BY <2>1 DEF Objects, SameContents
<1> HIDE DEF q
<1>5. \A s \in Headers(h) : h.objects[s] \in Objects /\ SameContents(h.objects[s], h.objects[s])
  BY <1>1, HeaderIsObject DEF SameContents
<1>6. g.objects \in [0 .. Size(h) - 1 -> Objects \cup {None}]
  <2>1. CASE slot \in Headers(h)
    BY <1>1, <1>3, <1>4, <2>1
  <2>2. CASE slot = NoSlot
    <3>1. slot \notin 0 .. Size(h) - 1
      BY <1>1, <2>2 DEF NoSlot
    <3> QED BY <1>1, <1>3, <3>1
  <2> QED BY <1>2, <2>1, <2>2
<1>7. Size(g) = Size(h)
  BY <1>1, <1>6, SizeOf
<1>8. \A s \in Headers(h) : SameContents(h.objects[s], g.objects[s])
  BY <1>1, <1>3, <1>4, <1>5 DEF Headers
<1>9. Headers(g) = Headers(h)
  <2>1. DOMAIN g.objects = DOMAIN h.objects
    BY <1>1, <1>6
  <2>2. None \notin Objects
    BY NoneAssumption
  <2>3. \A s \in DOMAIN h.objects : g.objects[s] # None <=> h.objects[s] # None
    BY <1>1, <1>2, <1>3, <1>4, <2>2 DEF Headers, NoSlot
  <2> QED BY <2>1, <2>3 DEF Headers
<1> QED BY <1>6, <1>7, <1>8, <1>9

LEMMA MarkStepKeeps ==
  ASSUME NEW h, LayoutInv(h), h.phase = "marking", NEW id, NEW slot, slot = checked_slot(h, id),
         NEW g, BlackAt(h, slot, g), g.worklist \subseteq Ids
  PROVE  HeapIsTyped(g) /\ LayoutInv(g) /\ g.allocated = h.allocated
<1>1. /\ g.objects \in [0 .. Size(h) - 1 -> Objects \cup {None}]
      /\ Size(g) = Size(h) /\ Headers(g) = Headers(h)
      /\ \A s \in Headers(h) : SameContents(h.objects[s], g.objects[s])
  BY BlackObjects
<1>2. HeapIsTyped(g)
  BY <1>1 DEF LayoutInv, HeapIsTyped, BlackAt
<1>3. /\ g.generations = h.generations /\ g.plan = h.plan /\ g.cursor = h.cursor
      /\ (g.phase = "compacting" <=> h.phase = "compacting") /\ g.phase = "marking"
      /\ g.allocated = h.allocated /\ g.shadow = h.shadow
      /\ g.weak_refs = h.weak_refs /\ g.ephemerons = h.ephemerons /\ g.intern_table = h.intern_table
      /\ \A x \in g.remembered_set : Resolves(h, x)
  BY DEF BlackAt, LayoutInv, RegistriesName
<1>4. LayoutInv(g)
  BY <1>1, <1>2, <1>3, RemarkedKeeps
<1> QED BY <1>2, <1>3, <1>4

LEMMA collectStep ==
  ASSUME GcLayoutInv, collect \/ collect_minor
  PROVE  LayoutKept
<1>1. PICK kind : Become(collect_impl(heap, kind))
  BY DEF collect, collect_minor
<1> DEFINE g == collect_impl(heap, kind)
<1>2. Become(g) /\ g = collect_impl(heap, kind)
  BY <1>1
<1> HIDE DEF g
<1>3. LayoutInv(heap) /\ heap.allocated = allocated
  BY HeapRecord DEF GcLayoutInv
<1>4. LayoutInv(g) /\ g.allocated = heap.allocated
  BY <1>2, <1>3, CollectKeeps DEF Carries
<1> QED BY <1>2, <1>3, <1>4, NothingAllocated

LEMMA start_incremental_markingStep ==
  ASSUME GcLayoutInv, start_incremental_marking
  PROVE  LayoutKept
<1> DEFINE grey == {IdAt(heap, s) : s \in Enqueued(heap, RootValues(heap), "Major")}
           g == [heap EXCEPT !.phase = "marking", !.worklist = grey]
<1>1. Become(g) /\ g = [heap EXCEPT !.phase = "marking", !.worklist = grey] /\ phase = "idle"
  BY DEF start_incremental_marking
<1>2. LayoutInv(heap) /\ heap.allocated = allocated /\ heap.phase = "idle" /\ HeapIsTyped(heap)
  BY <1>1, HeapRecord DEF GcLayoutInv, LayoutInv
<1>3. grey \subseteq Ids
  BY <1>2, GreyIds
<1> HIDE DEF grey, g
<1>4. /\ SameButPhase(heap, g) /\ g.phase = "marking" /\ g.worklist = grey
      /\ g.allocated = heap.allocated
  BY <1>1, <1>2, HeapRecord DEF SameButPhase, HeapFields
<1>5. LayoutInv(g)
  BY <1>2, <1>3, <1>4, PhaseKeeps
<1> QED BY <1>1, <1>2, <1>4, <1>5, NothingAllocated

LEMMA incremental_mark_stepStep ==
  ASSUME GcLayoutInv, incremental_mark_step
  PROVE  LayoutKept
<1>1. PICK id \in worklist :
        LET slot == checked_slot(heap, id)
            next == ScanObject(heap, slot)
            grey == worklist \cup {IdAt(next, s) :
                      s \in Enqueued(next, visit_reference_fields(next.objects[slot]), "Major")}
        IN  Become([next EXCEPT !.worklist = {x \in grey : ~ObjectOf(next, x).marked}])
  BY DEF incremental_mark_step
<1> DEFINE slot == checked_slot(heap, id)
           next == ScanObject(heap, slot)
           values == visit_reference_fields(next.objects[slot])
           fresh == {IdAt(next, s) : s \in Enqueued(next, values, "Major")}
           ids == {x \in worklist \cup fresh : ~ObjectOf(next, x).marked}
           g == [next EXCEPT !.worklist = ids]
<1>2. Become(g) /\ g = [next EXCEPT !.worklist = ids]
  BY <1>1
<1>3. slot = checked_slot(heap, id) /\ next = ScanObject(heap, slot)
  OBVIOUS
<1>4. fresh = {IdAt(next, s) : s \in Enqueued(next, values, "Major")}
  OBVIOUS
<1>5. ids \subseteq worklist \cup fresh
  OBVIOUS
<1> HIDE DEF slot, next, values, fresh, ids, g
<1>6. /\ LayoutInv(heap) /\ HeapIsTyped(heap) /\ heap.allocated = allocated
      /\ heap.phase = "marking" /\ worklist \subseteq Ids /\ DOMAIN heap = HeapFields
  BY HeapRecord DEF GcLayoutInv, LayoutInv, HeapIsTyped, incremental_mark_step
<1>7. BlackAt(heap, slot, next) /\ next.worklist = worklist
  BY <1>3, <1>6, ScannedIs, HeapRecord
<1>8. HeapIsTyped(next)
  BY <1>3, <1>6, <1>7, MarkStepKeeps
<1>9. next.cursor = heap.cursor /\ next.generations = heap.generations
  BY <1>7 DEF BlackAt
<1> DEFINE major == "Major"
<1>10. fresh = {IdAt(next, s) : s \in Enqueued(next, values, major)} /\ heap.phase # "compacting"
  BY <1>4, <1>6
<1> HIDE DEF major
<1>11. {IdAt(next, s) : s \in Enqueued(next, values, major)} \subseteq Ids
  BY <1>6, <1>8, <1>9, <1>10, GreyIds
<1>12. ids \subseteq Ids
  BY <1>5, <1>6, <1>10, <1>11
<1>13. BlackAt(heap, slot, g) /\ g.worklist = ids
  BY <1>2, <1>7 DEF BlackAt, HeapFields
<1>14. LayoutInv(g) /\ g.allocated = heap.allocated
  BY <1>3, <1>6, <1>12, <1>13, MarkStepKeeps
<1> QED BY <1>2, <1>6, <1>14, NothingAllocated

LEMMA finish_incremental_markingStep ==
  ASSUME GcLayoutInv, finish_incremental_marking \/ finish_marking_to_compaction
  PROVE  LayoutKept
<1>1. LayoutInv(heap) /\ heap.allocated = allocated /\ heap.phase = "marking"
  BY HeapRecord DEF GcLayoutInv, finish_incremental_marking, finish_marking_to_compaction
<1>2. CASE finish_incremental_marking
  <2> DEFINE g == finish_incremental_marking_impl(heap)
  <2>1. Become(g) /\ g = finish_incremental_marking_impl(heap)
    BY <1>2 DEF finish_incremental_marking
  <2> HIDE DEF g
  <2>2. LayoutInv(g) /\ g.allocated = heap.allocated
    BY <1>1, <2>1, FinishMarkingKeeps DEF Carries
  <2> QED BY <1>1, <2>1, <2>2, NothingAllocated
<1>3. CASE finish_marking_to_compaction
  <2> DEFINE g == finish_incremental_marking_to_incremental_compaction(heap)
  <2>1. Become(g) /\ g = finish_incremental_marking_to_incremental_compaction(heap)
    BY <1>3 DEF finish_marking_to_compaction
  <2> HIDE DEF g
  <2>2. LayoutInv(g) /\ g.allocated = heap.allocated
    BY <1>1, <2>1, MarkedToCompactionKeeps
  <2> QED BY <1>1, <2>1, <2>2, NothingAllocated
<1> QED BY <1>2, <1>3

LEMMA start_incremental_compactionStep ==
  ASSUME GcLayoutInv, start_incremental_compaction
  PROVE  LayoutKept
<1> DEFINE g == prepare_incremental_compaction(heap)
<1>1. Become(g) /\ g = prepare_incremental_compaction(heap)
  BY DEF start_incremental_compaction
<1> HIDE DEF g
<1>2. LayoutInv(heap) /\ heap.allocated = allocated /\ heap.phase = "idle"
  BY HeapRecord DEF GcLayoutInv, start_incremental_compaction
<1>3. LayoutInv(g) /\ g.allocated = heap.allocated
  BY <1>1, <1>2, StartCompactionKeeps
<1> QED BY <1>1, <1>2, <1>3, NothingAllocated

LEMMA incremental_compact_stepStep ==
  ASSUME GcLayoutInv, incremental_compact_step
  PROVE  LayoutKept
<1> DEFINE g == RelocateNext(heap)
<1>1. Become(g) /\ g = RelocateNext(heap)
  BY DEF incremental_compact_step
<1> HIDE DEF g
<1>2. /\ LayoutInv(heap) /\ heap.allocated = allocated
      /\ heap.phase = "compacting" /\ heap.cursor < Len(heap.plan)
  BY HeapRecord DEF GcLayoutInv, incremental_compact_step
<1>3. LayoutInv(g) /\ g.allocated = heap.allocated
  BY <1>1, <1>2, RelocateKeeps DEF Carries
<1> QED BY <1>1, <1>2, <1>3, NothingAllocated

LEMMA finish_incremental_compactionStep ==
  ASSUME GcLayoutInv, finish_incremental_compaction
  PROVE  LayoutKept
<1> DEFINE g == finish_incremental_compaction_impl(heap)
<1>1. Become(g) /\ g = finish_incremental_compaction_impl(heap)
  BY DEF finish_incremental_compaction
<1> HIDE DEF g
<1>2. LayoutInv(heap) /\ heap.allocated = allocated /\ heap.phase = "compacting"
  BY HeapRecord DEF GcLayoutInv, finish_incremental_compaction
<1>3. LayoutInv(g) /\ g.allocated = heap.allocated
  BY <1>1, <1>2, FinishCompactionKeeps DEF Carries
<1> QED BY <1>1, <1>2, <1>3, NothingAllocated

(***************************************************************************)
(* The inductive invariant.                                                *)
(***************************************************************************)
LEMMA InitialLayout == Init => GcLayoutInv
<1> SUFFICES ASSUME Init PROVE GcLayoutInv
  OBVIOUS
<1> DEFINE h == heap
<1>1. /\ DOMAIN h = HeapFields
      /\ h.objects = <<>> /\ h.generations = <<>> /\ h.remembered_set = {}
      /\ h.weak_refs = {} /\ h.ephemerons = {} /\ h.intern_table = {}
      /\ h.cells = [c \in Cells |-> Nil] /\ h.extra = <<>> /\ h.phase = "idle"
      /\ h.worklist = {} /\ h.plan = <<>> /\ h.cursor = 0 /\ h.shadow = None /\ h.allocated = 0
  BY HeapRecord DEF Init
<1> HIDE DEF h
<1>2. Size(h) = 0 /\ DOMAIN h.objects = {}
  <2>1. DOMAIN h.objects = {}
    BY <1>1
  <2> QED BY <2>1, FS_EmptySet DEF Size
<1>3. Headers(h) = {}
  BY <1>2 DEF Headers
<1>4. HeapIsTyped(h)
  <2>1. h.objects \in [0 .. Size(h) - 1 -> Objects \cup {None}] /\ h.generations \in [0 .. Size(h) - 1 -> Nat]
    BY <1>1, <1>2
  <2>2. h.cells \in [Cells -> Values]
    BY <1>1 DEF Values
  <2>3. h.extra \in Seq(Values) /\ h.plan \in Seq(Relocations) /\ h.cursor \in 0 .. Len(h.plan)
    BY <1>1, EmptySeq
  <2> QED BY <1>1, <1>2, <2>1, <2>2, <2>3 DEF HeapIsTyped
<1>5. RunsFollow(h) /\ PhaseIsClean(h) /\ RegistriesName(h) /\ NamesAreUsed(h)
  BY <1>1, <1>3 DEF RunsFollow, PhaseIsClean, RegistriesName, NamesAreUsed, OfKind
<1>6. LayoutInv(heap)
  BY <1>4, <1>5 DEF LayoutInv, h
<1>7. host \in Hosts /\ allocated <= MaxObjects
  <2>1. host \in Hosts /\ allocated = 0
    BY DEF Init
  <2> QED BY <2>1, HostsAssumption DEF MaxObjects
<1> QED BY <1>6, <1>7 DEF GcLayoutInv

LEMMA NextKeepsLayout == GcLayoutInv /\ [Next]_<<vars, host>> => GcLayoutInv'
<1> SUFFICES ASSUME GcLayoutInv, [Next]_<<vars, host>> PROVE GcLayoutInv'
  OBVIOUS
<1>1. host' = host
  BY DEF Next
<1>2. MaxObjects' = MaxObjects /\ (LayoutKept => GcLayoutInv')
  BY <1>1 DEF MaxObjects, GcLayoutInv, LayoutKept
<1>3. CASE UNCHANGED <<vars, host>>
  <2>1. Become(heap) /\ LayoutInv(heap) /\ heap.allocated = allocated
    BY <1>3, HeapRecord DEF vars, Become, GcLayoutInv
  <2>2. LayoutKept
    BY <2>1, NothingAllocated
  <2> QED BY <1>2, <2>2
<1>4. CASE Mutator
  BY <1>2, <1>4, AllocateObjectStep, ConcatStringsStep, TakeSubstringStep, BuilderToStringStep,
     InternStringStep, StoreFieldStep, StoreEphemeronValueStep, MapInsertStep, MapUpdateStep,
     BuilderAppendStep, StoreScalarsStep, LoadReferenceStep, AssignStep DEF Mutator
<1>5. CASE CollectorCalls
  BY <1>2, <1>5, collectStep, start_incremental_markingStep, incremental_mark_stepStep,
     finish_incremental_markingStep, start_incremental_compactionStep, incremental_compact_stepStep,
     finish_incremental_compactionStep DEF CollectorCalls
<1> QED BY <1>3, <1>4, <1>5 DEF Next

\* Whatever a host does, in whatever order and in the middle of whatever
\* cycle, the heap keeps its layout: run after run without overlap, one
\* current id for each object, the registries and the plan of an active
\* compaction exact.
THEOREM LayoutIsKept == Spec => []GcLayoutInv
<1>1. Init => GcLayoutInv
  BY InitialLayout
<1>2. GcLayoutInv /\ [Next]_<<vars, host>> => GcLayoutInv'
  BY NextKeepsLayout
<1> QED BY <1>1, <1>2, PTL DEF Spec

LEMMA LayoutIsTyped == GcLayoutInv => TypeOK
<1> SUFFICES ASSUME GcLayoutInv PROVE TypeOK
  OBVIOUS
<1>1. LayoutInv(heap) /\ HeapIsTyped(heap) /\ PhaseIsClean(heap) /\ NamesAreUsed(heap)
      /\ allocated <= MaxObjects
  BY DEF GcLayoutInv, LayoutInv
<1>2. Size(heap) = Cardinality(DOMAIN objects) /\ Headers(heap) = {s \in DOMAIN objects : objects[s] # None}
  BY HeapRecord DEF Size, Headers
<1>3. /\ objects \in [0 .. Size(heap) - 1 -> Objects \cup {None}]
      /\ generations \in [0 .. Size(heap) - 1 -> Nat]
  BY <1>1, HeapRecord DEF HeapIsTyped
<1>4. /\ DOMAIN objects = 0 .. Cardinality(DOMAIN objects) - 1 /\ DOMAIN generations = DOMAIN objects
      /\ \A s \in DOMAIN generations : generations[s] \in Nat
  BY <1>2, <1>3
<1>5. allocated \in Nat /\ MaxObjects \in Nat /\ allocated \in 0 .. MaxObjects
  BY <1>1, HeapRecord, HostsAssumption DEF HeapIsTyped, GcLayoutInv, MaxObjects
<1>6. \A s \in DOMAIN objects : objects[s] = None \/ IsObject(objects[s])
  <2> SUFFICES ASSUME NEW s \in DOMAIN objects, objects[s] # None PROVE IsObject(objects[s])
    OBVIOUS
  <2>1. objects[s] \in Objects /\ s \in Headers(heap)
    BY <1>2, <1>3
  <2>2. objects[s].data < allocated
    BY <1>1, <2>1, HeapRecord DEF NamesAreUsed
  <2>3. objects[s].data \in 0 .. MaxObjects - 1
    BY <1>1, <1>5, <2>1, <2>2, ObjectFields
  <2> QED BY <2>1, <2>3, ObjectFields DEF IsObject
<1>7. /\ phase \in {"idle", "marking", "compacting"}
      /\ phase # "marking" => worklist = {}
      /\ phase # "compacting" => plan = <<>> /\ shadow = None
      /\ cursor \in 0 .. Len(plan)
  BY <1>1, HeapRecord DEF HeapIsTyped, PhaseIsClean
<1> QED BY <1>4, <1>5, <1>6, <1>7 DEF TypeOK

LEMMA RunsAreDisjoint ==
  ASSUME NEW h, LayoutInv(h)
  PROVE  validate_heap_storage_layout(h)
<1>1. HeapIsTyped(h) /\ RunsFollow(h)
  BY DEF LayoutInv
<1> SUFFICES ASSUME NEW s \in Headers(h)
             PROVE  /\ validate_descriptor_shape(h.objects[s])
                    /\ Run(s, Width(h, s)) \subseteq DOMAIN h.objects
                    /\ \A t \in Headers(h) \ {s} : Run(s, Width(h, s)) \cap Run(t, Width(h, t)) = {}
  BY DEF validate_heap_storage_layout, Width
<1>2. \A t \in Headers(h) : t \in Nat /\ Width(h, t) \in Nat
  BY <1>1, HeaderIsObject
<1>3. DOMAIN h.objects = 0 .. Size(h) - 1 /\ Size(h) \in Nat
  BY <1>1, HeaderIsObject
<1>4. validate_descriptor_shape(h.objects[s]) /\ s + Width(h, s) <= Size(h)
  BY <1>1 DEF RunsFollow
<1>5. Run(s, Width(h, s)) \subseteq DOMAIN h.objects
  BY <1>2, <1>3, <1>4 DEF Run
<1>6. ASSUME NEW t \in Headers(h) \ {s} PROVE Run(s, Width(h, s)) \cap Run(t, Width(h, t)) = {}
  <2>1. s < t \/ t < s
    BY <1>2
  <2>2. s + Width(h, s) <= t \/ t + Width(h, t) <= s
    BY <1>1, <2>1 DEF RunsFollow
  <2> QED BY <1>2, <2>2 DEF Run
<1> QED BY <1>4, <1>5, <1>6

LEMMA SoftReferencesResolve ==
  ASSUME NEW h, LayoutInv(h), NEW kind
  PROVE  \A id \in OfKind(h, kind) : \A v \in SoftReferences(ObjectOf(h, id)) : Resolves(h, v)
<1>1. HeapIsTyped(h) /\ RunsFollow(h) /\ RegistriesName(h)
  BY DEF LayoutInv
<1> SUFFICES ASSUME NEW s \in Headers(h), NEW v \in SoftReferences(ObjectOf(h, IdAt(h, s)))
             PROVE  Resolves(h, v)
  BY DEF OfKind
<1>2. ObjectOf(h, IdAt(h, s)) = h.objects[s]
  BY <1>1, IdOfBase DEF ObjectOf
<1> QED BY <1>1, <1>2 DEF RegistriesName

LEMMA RegistriesFollow ==
  ASSUME LayoutInv(heap)
  PROVE  RegistriesAreExact /\ CanonicalIsUnique
<1>1. RegistriesName(heap)
  BY DEF LayoutInv
<1>2. heap.weak_refs = OfKind(heap, "WeakRef") /\ heap.ephemerons = OfKind(heap, "Ephemeron")
  BY <1>1 DEF RegistriesName
<1> DEFINE weak == "WeakRef"  key == "Ephemeron"
<1>3. heap.weak_refs = OfKind(heap, weak) /\ heap.ephemerons = OfKind(heap, key)
  BY <1>2
<1> HIDE DEF weak, key
<1>4. \A id \in OfKind(heap, weak) : \A v \in SoftReferences(ObjectOf(heap, id)) : Resolves(heap, v)
  BY SoftReferencesResolve
<1>5. \A id \in OfKind(heap, key) : \A v \in SoftReferences(ObjectOf(heap, id)) : Resolves(heap, v)
  BY SoftReferencesResolve
<1>6. validate_weak_targets(heap) /\ validate_ephemerons(heap)
  BY <1>2, <1>3, <1>4, <1>5 DEF validate_weak_targets, validate_ephemerons
<1>7. validate_intern_table(heap)
  BY <1>1 DEF RegistriesName, validate_intern_table
<1> QED BY <1>6, <1>7 DEF RegistriesAreExact, CanonicalIsUnique

\* Every variable of the heap keeps the type heap.hpp declares, in every
\* phase, and no more objects are numbered than a host allocates.
THEOREM HeapIsTypedAlways == Spec => []TypeOK
BY LayoutIsKept, LayoutIsTyped, PTL

\* No two descriptors share a slot and none leaves the heap, after first-fit
\* allocation into holes, growth in place or at the end, atomic slides and
\* every single relocation of an incremental compaction.
THEOREM StorageStaysDisjoint == Spec => []StorageIsDisjoint
<1>1. GcLayoutInv => StorageIsDisjoint
  BY RunsAreDisjoint DEF GcLayoutInv, StorageIsDisjoint
<1> QED BY <1>1, LayoutIsKept, PTL

\* weak_refs and ephemerons name exactly the objects of their kinds under
\* their current ids, and every weak target, key and value that an object
\* still holds can be dereferenced.
THEOREM RegistriesStayExact == Spec => []RegistriesAreExact
<1>1. GcLayoutInv => RegistriesAreExact
  BY RegistriesFollow DEF GcLayoutInv
<1> QED BY <1>1, LayoutIsKept, PTL

\* The intern table holds strings only, and one for each text, though its
\* entries are weak and are renamed by every movement.
THEOREM CanonicalStaysUnique == Spec => []CanonicalIsUnique
<1>1. GcLayoutInv => CanonicalIsUnique
  BY RegistriesFollow DEF GcLayoutInv
<1> QED BY <1>1, LayoutIsKept, PTL
=============================================================================
