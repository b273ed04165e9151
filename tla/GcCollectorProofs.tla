-------------------------- MODULE GcCollectorProofs --------------------------
(***************************************************************************)
(* What the collections of Collector are made of, and that they keep the   *)
(* layout of the heap: ids and what they resolve to, the movement of       *)
(* survivors, marking, which ends and leaves no live ephemeron half        *)
(* marked, sliding, which assigns disjoint runs in slot order, and the     *)
(* plan of an incremental compaction with each of its steps.               *)
(***************************************************************************)
EXTENDS GcHeapSafety, FiniteSetTheorems, WellFoundedInduction, TLAPS

(***************************************************************************)
(* Objects and slots.                                                      *)
(***************************************************************************)
LEMMA ObjectFields ==
  ASSUME NEW o \in Objects
  PROVE  /\ o.kind \in Kinds /\ o.length \in Nat /\ o.data \in Nat /\ o.age \in {"Young", "Old"}
         /\ o.marked \in BOOLEAN /\ o.strong \in Seq(Values) /\ o.soft \in Seq(Values)
         /\ o.text \in Seq(Chunks) /\ o # None
BY NoneAssumption DEF Objects

LEMMA SlotsOfBytes ==
  ASSUME NEW bytes \in Nat
  PROVE  /\ Slots(bytes) \in Nat
         /\ kStorageSlotBytes * Slots(bytes) >= bytes
         /\ \A more \in Nat : bytes <= more => Slots(bytes) <= Slots(more)
BY DEF Slots, kStorageSlotBytes

LEMMA WidthOfObject ==
  ASSUME NEW o \in Objects
  PROVE  storage_slot_count(o) \in Nat \ {0}
<1>1. o.kind \in Kinds /\ o.length \in Nat /\ Slots(o.length) \in Nat
  BY ObjectFields, SlotsOfBytes
<1> QED BY <1>1 DEF storage_slot_count, Kinds

LEMMA SizeOf ==
  ASSUME NEW h, NEW n \in Nat, DOMAIN h.objects = 0 .. n - 1
  PROVE  Size(h) = n
<1>1. Cardinality(0 .. n - 1) = IF 0 > n - 1 THEN 0 ELSE (n - 1) - 0 + 1
  BY FS_Interval
<1> QED BY <1>1 DEF Size

LEMMA HeaderIsObject ==
  ASSUME NEW h, HeapIsTyped(h)
  PROVE  /\ DOMAIN h.objects = 0 .. Size(h) - 1 /\ DOMAIN h.generations = 0 .. Size(h) - 1
         /\ Size(h) \in Nat
         /\ Headers(h) = {s \in 0 .. Size(h) - 1 : h.objects[s] \in Objects}
         /\ Headers(h) \subseteq Nat /\ NoSlot \notin Headers(h)
         /\ \A s \in Headers(h) : /\ h.objects[s] \in Objects /\ h.generations[s] \in Nat
                                  /\ Width(h, s) \in Nat \ {0}
<1>1. /\ DOMAIN h.objects = 0 .. Size(h) - 1 /\ DOMAIN h.generations = 0 .. Size(h) - 1
      /\ Size(h) \in Nat
      /\ \A s \in 0 .. Size(h) - 1 : h.objects[s] \in Objects \cup {None} /\ h.generations[s] \in Nat
  BY DEF HeapIsTyped
<1>2. Headers(h) = {s \in 0 .. Size(h) - 1 : h.objects[s] \in Objects}
  BY <1>1, NoneAssumption DEF Headers
<1>3. Headers(h) \subseteq Nat /\ NoSlot \notin Headers(h)
  BY <1>1, <1>2 DEF NoSlot
<1> QED BY <1>1, <1>2, <1>3, WidthOfObject DEF Width

(***************************************************************************)
(* Ids and what they resolve to.                                           *)
(***************************************************************************)
LEMMA IdsAreReferences == \A v \in Ids : v # Nil /\ is_object(v) /\ v \in Values
BY NilAssumption DEF Values, is_object

LEMMA IdParts ==
  ASSUME NEW id \in Ids
  PROVE  /\ slot_from(id) \in Int /\ generation_from(id) \in Nat
         /\ id = make_object_id(slot_from(id), generation_from(id))
BY DEF Ids, slot_from, generation_from, make_object_id

LEMMA IdOfBase ==
  ASSUME NEW h, HeapIsTyped(h), RunsFollow(h), NEW s \in Headers(h)
  PROVE  /\ IdAt(h, s) \in Ids /\ Physical(h, IdAt(h, s)) /\ slot_from(IdAt(h, s)) = s
         /\ generation_from(IdAt(h, s)) = h.generations[s]
         /\ Resolves(h, IdAt(h, s)) /\ checked_slot(h, IdAt(h, s)) = s
<1>1. s \in 0 .. Size(h) - 1 /\ h.objects[s] # None /\ h.generations[s] \in Nat /\ h.generations[s] > 0
  BY HeaderIsObject DEF RunsFollow, Headers
<1>2. slot_from(IdAt(h, s)) = s /\ generation_from(IdAt(h, s)) = h.generations[s] /\ IdAt(h, s) \in Ids
  BY <1>1, HeaderIsObject DEF IdAt, make_object_id, slot_from, generation_from, Ids
<1>3. Physical(h, IdAt(h, s))
  BY <1>1, <1>2, HeaderIsObject DEF Physical
<1>4. checked_slot(h, IdAt(h, s)) = s
  BY <1>2, <1>3 DEF checked_slot
<1> QED BY <1>2, <1>3, <1>4, HeaderIsObject, IdsAreReferences DEF Resolves

LEMMA PhysicalIsId ==
  ASSUME NEW h, NEW id \in Ids, Physical(h, id)
  PROVE  /\ slot_from(id) \in Headers(h) /\ id = IdAt(h, slot_from(id))
         /\ checked_slot(h, id) = slot_from(id)
BY IdParts DEF Physical, Headers, IdAt, checked_slot

\* Outside a compaction an id is physical or names nothing.
LEMMA StillHeap ==
  ASSUME NEW h, h.cursor = 0
  PROVE  /\ \A id : checked_slot(h, id) = IF Physical(h, id) THEN slot_from(id) ELSE NoSlot
         /\ \A v : canonicalize_incremental_compaction_read(h, v) = v
<1>1. Moved(h) = {}
  BY DEF Moved
<1> QED BY <1>1 DEF checked_slot, canonicalize_incremental_compaction_read

LEMMA PlanEntry ==
  ASSUME NEW h, HeapIsTyped(h), NEW i \in DOMAIN h.plan
  PROVE  /\ DOMAIN h.plan = 1 .. Len(h.plan) /\ i \in Nat \ {0} /\ h.cursor \in Nat
         /\ h.plan[i].source_id \in Ids /\ h.plan[i].destination_id \in Ids
         /\ Source(h, i) \in Int /\ Destination(h, i) \in Int
         /\ Base(h, i) \in Int /\ Name(h, i) \in Ids
<1>1. /\ h.plan \in Seq(Relocations) /\ DOMAIN h.plan = 1 .. Len(h.plan) /\ Len(h.plan) \in Nat
      /\ h.plan[i] \in Relocations /\ h.cursor \in Nat
  BY DEF HeapIsTyped
<1>2. h.plan[i].source_id \in Ids /\ h.plan[i].destination_id \in Ids
  BY <1>1 DEF Relocations
<1> QED BY <1>1, <1>2, IdParts DEF Source, Destination, Base, Name

LEMMA SourcesDiffer ==
  ASSUME NEW h, HeapIsTyped(h), RunsFollow(h), PlanIsCurrent(h),
         NEW i \in DOMAIN h.plan, NEW j \in DOMAIN h.plan, i # j
  PROVE  /\ Source(h, i) # Source(h, j) /\ Destination(h, i) # Destination(h, j)
         /\ h.plan[i].source_id # h.plan[j].source_id
         /\ h.plan[i].destination_id # h.plan[j].destination_id
         /\ Base(h, i) # Base(h, j)
<1>1. i < j \/ j < i
  BY PlanEntry
<1>2. \A k \in DOMAIN h.plan : Base(h, k) \in Headers(h) /\ Width(h, Base(h, k)) \in Nat \ {0}
  BY HeaderIsObject DEF PlanIsCurrent
<1>3. /\ Source(h, i) \in Int /\ Source(h, j) \in Int
      /\ Destination(h, i) \in Int /\ Destination(h, j) \in Int
      /\ i \in Nat /\ j \in Nat /\ h.cursor \in Nat
  BY PlanEntry
<1>4. /\ Source(h, i) # Source(h, j) /\ Destination(h, i) # Destination(h, j)
  BY <1>1, <1>2, <1>3 DEF PlanIsCurrent, PlanSlides
<1>5. /\ i < j => Destination(h, i) < Source(h, j)
      /\ j < i => Destination(h, j) < Source(h, i)
  BY <1>2, <1>3 DEF PlanIsCurrent, PlanSlides
<1>6. Base(h, i) # Base(h, j)
  BY <1>1, <1>3, <1>4, <1>5 DEF Base
<1> QED BY <1>4, <1>6 DEF Source, Destination

\* During a compaction an id resolves when it is the current name of a
\* survivor or the source id of one that has moved.
LEMMA MovedResolves ==
  ASSUME NEW h, HeapIsTyped(h), RunsFollow(h), PlanIsCurrent(h),
         NEW i \in DOMAIN h.plan
  PROVE  /\ checked_slot(h, Name(h, i)) = Base(h, i) /\ Resolves(h, Name(h, i))
         /\ Base(h, i) \in Headers(h)
         /\ checked_slot(h, h.plan[i].source_id) = Base(h, i) /\ Resolves(h, h.plan[i].source_id)
         /\ canonicalize_incremental_compaction_read(h, h.plan[i].source_id) = Name(h, i)
         /\ canonicalize_incremental_compaction_read(h, Name(h, i)) = Name(h, i)
<1> DEFINE e == h.plan[i]
           source == h.plan[i].source_id
           canonical(v) == canonicalize_incremental_compaction_read(h, v)
<1>1. Base(h, i) \in Headers(h) /\ IdAt(h, Base(h, i)) = Name(h, i)
  BY DEF PlanIsCurrent
<1>2. checked_slot(h, Name(h, i)) = Base(h, i) /\ Resolves(h, Name(h, i)) /\ Physical(h, Name(h, i))
  BY <1>1, IdOfBase
<1>3. i \in Nat \ {0} /\ h.cursor \in 0 .. Len(h.plan) /\ Len(h.plan) \in Nat /\ DOMAIN h.plan = 1 .. Len(h.plan)
  BY PlanEntry DEF HeapIsTyped
<1>4. \A f \in Moved(h) : \E k \in DOMAIN h.plan : k <= h.cursor /\ f = h.plan[k]
  BY <1>3 DEF Moved
<1>5. \A f \in Moved(h) : f.source_id = source => f = e /\ i <= h.cursor
  BY <1>4, SourcesDiffer
<1>6. i <= h.cursor => e \in Moved(h)
  BY <1>3 DEF Moved
<1>7. source \in Ids /\ Name(h, i) \in Ids /\ source # Nil /\ Name(h, i) # Nil
  BY PlanEntry, IdsAreReferences
<1>8. CASE i > h.cursor
  <2>1. Name(h, i) = source /\ \A f \in Moved(h) : f.source_id # source
    BY <1>3, <1>5, <1>8 DEF Name
  <2> QED BY <1>1, <1>2, <2>1 DEF canonicalize_incremental_compaction_read
<1>9. CASE i <= h.cursor
  <2>1. Name(h, i) = e.destination_id
    BY <1>9 DEF Name
  <2>2. canonical(source) = Name(h, i)
    <3>1. (CHOOSE f \in Moved(h) : f.source_id = source) = e
      BY <1>5, <1>6, <1>9
    <3> QED BY <1>6, <1>7, <1>9, <2>1, <3>1 DEF canonicalize_incremental_compaction_read, is_object
  <2>3. canonical(Name(h, i)) = Name(h, i)
    <3>1. ASSUME NEW f \in Moved(h), f.source_id = Name(h, i) PROVE f = e
      <4>1. PICK k \in DOMAIN h.plan : f = h.plan[k]
        BY <1>4
      <4>2. k = i
        BY <2>1, <3>1, <4>1 DEF PlanIsCurrent, PlanSlides
      <4> QED BY <4>1, <4>2
    <3>2. CASE \E f \in Moved(h) : f.source_id = Name(h, i)
      <4>1. (CHOOSE f \in Moved(h) : f.source_id = Name(h, i)) = e
        BY <3>1, <3>2
      <4> QED BY <1>7, <2>1, <3>2, <4>1 DEF canonicalize_incremental_compaction_read
    <3>3. CASE ~ \E f \in Moved(h) : f.source_id = Name(h, i)
      BY <3>3 DEF canonicalize_incremental_compaction_read
    <3> QED BY <3>2, <3>3
  <2>4. checked_slot(h, source) = Base(h, i)
    <3>1. CASE Physical(h, source)
      <4>1. /\ slot_from(source) \in Headers(h) /\ source = IdAt(h, slot_from(source))
            /\ checked_slot(h, source) = slot_from(source)
        BY <1>7, <3>1, PhysicalIsId
      <4>2. PICK k \in DOMAIN h.plan : slot_from(source) = Base(h, k)
        BY <4>1 DEF PlanIsCurrent
      <4>3. source = Name(h, k)
        BY <4>1, <4>2 DEF PlanIsCurrent
      <4>4. k = i
        <5>1. k <= h.cursor \/ Name(h, k) = h.plan[k].source_id
          BY <4>2 DEF Name
        <5>2. k <= h.cursor => Name(h, k) = h.plan[k].destination_id
          BY DEF Name
        <5> QED BY <4>3, <5>1, <5>2, SourcesDiffer DEF PlanIsCurrent, PlanSlides
      <4> QED BY <4>1, <4>2, <4>4
    <3>2. CASE ~Physical(h, source)
      <4>1. (CHOOSE f \in Moved(h) : f.source_id = source) = e
        BY <1>5, <1>6, <1>9
      <4>2. slot_from(e.destination_id) = Base(h, i)
        BY <1>9 DEF Base, Destination
      <4>3. \E f \in Moved(h) : f.source_id = source /\ Physical(h, f.destination_id)
        BY <1>2, <1>6, <1>9, <2>1
      <4> QED BY <3>2, <4>1, <4>2, <4>3 DEF checked_slot
    <3> QED BY <3>1, <3>2
  <2>5. Resolves(h, source)
    BY <1>1, <1>7, <2>4, HeaderIsObject DEF Resolves, is_object
  <2> QED BY <1>1, <1>2, <2>2, <2>3, <2>4, <2>5
<1> QED BY <1>3, <1>8, <1>9

LEMMA ResolvedByPlan ==
  ASSUME NEW h, HeapIsTyped(h), RunsFollow(h), PlanIsCurrent(h),
         NEW v \in Ids, Resolves(h, v)
  PROVE  \E i \in DOMAIN h.plan : v = Name(h, i) \/ (i <= h.cursor /\ v = h.plan[i].source_id)
<1>1. CASE Physical(h, v)
  <2>1. slot_from(v) \in Headers(h) /\ v = IdAt(h, slot_from(v))
    BY <1>1, PhysicalIsId
  <2> QED BY <2>1 DEF PlanIsCurrent
<1>2. CASE ~Physical(h, v)
  <2>1. \E e \in Moved(h) : e.source_id = v
    BY <1>2 DEF Resolves, checked_slot
  <2>2. PICK i \in 1 .. h.cursor : h.plan[i].source_id = v
    BY <2>1 DEF Moved
  <2>3. i \in DOMAIN h.plan /\ i <= h.cursor
    BY <2>2 DEF HeapIsTyped
  <2> QED BY <2>2, <2>3
<1> QED BY <1>1, <1>2

\* Whatever resolves, resolves to an object.
LEMMA ResolvedIsHeader ==
  ASSUME NEW h, HeapIsTyped(h), RunsFollow(h), PhaseIsClean(h), NEW v \in Ids
  PROVE  /\ checked_slot(h, v) \in Headers(h) \cup {NoSlot}
         /\ Resolves(h, v) <=> checked_slot(h, v) \in Headers(h)
<1>1. Resolves(h, v) => checked_slot(h, v) \in Headers(h)
  <2>1. CASE h.phase = "compacting"
    BY <2>1, ResolvedByPlan, MovedResolves DEF PhaseIsClean
  <2>2. CASE h.phase # "compacting"
    BY <2>2, StillHeap, PhysicalIsId DEF PhaseIsClean, Resolves
  <2> QED BY <2>1, <2>2
<1> QED BY <1>1, HeaderIsObject, IdsAreReferences DEF Resolves

(***************************************************************************)
(* Movement.  Survivors s of h go to slots to[s] of a heap of n slots, the *)
(* objects mo with the generations mg, where nothing else is.              *)
(***************************************************************************)

\* Age and mark apart, q is o.
SameContents(o, q) ==
  /\ q \in Objects
  /\ q.kind = o.kind /\ q.length = o.length /\ q.data = o.data
  /\ q.strong = o.strong /\ q.soft = o.soft /\ q.text = o.text

Moves(h, to, n, mo, mg) ==
  /\ DOMAIN to \subseteq Headers(h)
  /\ n \in Nat /\ mo \in [0 .. n - 1 -> Objects \cup {None}] /\ mg \in [0 .. n - 1 -> Nat]
  /\ \A s \in DOMAIN to :
       /\ to[s] \in 0 .. n - 1 /\ to[s] + Width(h, s) <= n
       /\ SameContents(h.objects[s], mo[to[s]]) /\ mg[to[s]] > 0
  /\ \A t \in 0 .. n - 1 : mo[t] # None => \E s \in DOMAIN to : to[s] = t
  /\ \A s, t \in DOMAIN to : s # t => to[s] + Width(h, s) <= to[t] \/ to[t] + Width(h, t) <= to[s]

ForwardingOf(to, mg) == [s \in DOMAIN to |-> make_object_id(to[s], mg[to[s]])]

\* An ephemeron that moves takes its value along if its key moves.
EphemeronsKept(h, live) ==
  \A s \in live :
    /\ h.objects[s].kind = "Ephemeron"
    /\ is_object(h.objects[s].soft[1]) /\ checked_slot(h, h.objects[s].soft[1]) \in live
    /\ is_object(h.objects[s].soft[2])
    => checked_slot(h, h.objects[s].soft[2]) \in live

LEMMA RewrittenValue ==
  ASSUME NEW h, NEW to, NEW n, NEW mo, NEW mg, Moves(h, to, n, mo, mg), NEW v \in Values
  PROVE  LET f == ForwardingOf(to, mg)
             w == rewrite_value(h, f, v)
         IN  /\ w \in Values /\ (is_object(w) <=> is_object(v))
             /\ ~is_object(v) => w = v
             /\ is_object(v) /\ checked_slot(h, v) \in DOMAIN to
                  => w = make_object_id(to[checked_slot(h, v)], mg[to[checked_slot(h, v)]])
             /\ Forwarded(h, f, v) <=> is_object(v) /\ checked_slot(h, v) \in DOMAIN to
<1> DEFINE f == ForwardingOf(to, mg)
           s == checked_slot(h, v)
<1>1. DOMAIN f = DOMAIN to /\ \A t \in DOMAIN to : f[t] = make_object_id(to[t], mg[to[t]])
  BY DEF ForwardingOf
<1>2. \A t \in DOMAIN to : f[t] \in Ids
  <2>1. \A t \in DOMAIN to : to[t] \in Int /\ mg[to[t]] \in Nat
    BY DEF Moves
  <2> QED BY <1>1, <2>1 DEF Ids, make_object_id
<1>3. Lost \in Ids
  BY DEF Lost, Ids
<1> HIDE DEF f
<1>4. /\ ~is_object(v) => rewrite_value(h, f, v) = v
      /\ is_object(v) => rewrite_value(h, f, v) = IF s \in DOMAIN to THEN f[s] ELSE Lost
      /\ Forwarded(h, f, v) <=> is_object(v) /\ s \in DOMAIN to
  BY <1>1 DEF rewrite_value, Forwarded
<1> HIDE DEF s
<1>5. is_object(v) => rewrite_value(h, f, v) \in Ids
  BY <1>2, <1>3, <1>4
<1> QED BY <1>1, <1>4, <1>5, IdsAreReferences DEF f, s

\* The strong references keep their places, and what a WeakRef or an
\* Ephemeron keeps of its own has moved.
StrongFollows(h, to, mg, o, q) ==
  q.strong = [i \in DOMAIN o.strong |-> rewrite_value(h, ForwardingOf(to, mg), o.strong[i])]

SoftFollows(h, to, mg, o, q) ==
  \A w \in SoftReferences(q) :
    \E v \in SoftReferences(o) :
      /\ v \in Ids /\ checked_slot(h, v) \in DOMAIN to
      /\ w = make_object_id(to[checked_slot(h, v)], mg[to[checked_slot(h, v)]])

LEMMA RewrittenContents ==
  ASSUME NEW h, HeapIsTyped(h), NEW to, NEW n, NEW mo, NEW mg, Moves(h, to, n, mo, mg),
         EphemeronsKept(h, DOMAIN to), NEW s \in DOMAIN to,
         validate_descriptor_shape(h.objects[s]),
         NEW q, q = RewrittenObject(h, ForwardingOf(to, mg), mo[to[s]])
  PROVE  /\ q \in Objects /\ validate_descriptor_shape(q)
         /\ q.kind = h.objects[s].kind /\ q.length = h.objects[s].length
         /\ q.data = h.objects[s].data /\ q.text = h.objects[s].text
         /\ q.age = mo[to[s]].age /\ q.marked = mo[to[s]].marked
         /\ storage_slot_count(q) = Width(h, s)
         /\ StrongFollows(h, to, mg, h.objects[s], q)
         /\ SoftFollows(h, to, mg, h.objects[s], q)
<1> DEFINE f == ForwardingOf(to, mg)
           o == h.objects[s]
           p == mo[to[s]]
           rw(v) == rewrite_value(h, f, v)
           strong == [i \in DOMAIN o.strong |-> rw(o.strong[i])]
           soft == SoftAfterMove(h, f, p)
<1>1. o \in Objects /\ SameContents(o, p)
  BY HeaderIsObject DEF Moves
<1>2. /\ p \in Objects /\ p.kind = o.kind /\ p.length = o.length /\ p.data = o.data
      /\ p.strong = o.strong /\ p.soft = o.soft /\ p.text = o.text
  BY <1>1 DEF SameContents
<1>3. \A v \in Values : /\ rw(v) \in Values /\ (is_object(rw(v)) <=> is_object(v))
                        /\ ~is_object(v) => rw(v) = v
                        /\ Forwarded(h, f, v) <=> is_object(v) /\ checked_slot(h, v) \in DOMAIN to
                        /\ Forwarded(h, f, v) =>
                             rw(v) = make_object_id(to[checked_slot(h, v)], mg[to[checked_slot(h, v)]])
  BY RewrittenValue
<1>4. o.strong \in Seq(Values) /\ o.soft \in Seq(Values) /\ o.kind \in Kinds
  BY <1>1, ObjectFields
<1>5. \A i \in DOMAIN o.strong : o.strong[i] \in Values
  BY <1>4
<1>6. strong \in Seq(Values) /\ Len(strong) = Len(o.strong) /\ DOMAIN strong = DOMAIN o.strong
  <2> HIDE DEF rw
  <2> QED BY <1>3, <1>4, <1>5
<1>7. q = [[p EXCEPT !.strong = strong] EXCEPT !.soft = soft]
  BY <1>2 DEF RewrittenObject
<1> HIDE DEF f, rw
<1>8. Nil \in Values /\ ~is_object(Nil)
  BY DEF Values, is_object
<1>9. /\ soft \in Seq(Values) /\ Len(soft) = Len(o.soft)
      /\ o.kind = "Ephemeron" => (soft[1] = Nil => soft[2] = Nil)
      /\ \A i \in DOMAIN soft : is_object(soft[i]) =>
           i \in DOMAIN o.soft /\ Forwarded(h, f, o.soft[i]) /\ soft[i] = rw(o.soft[i])
  <2>1. CASE o.kind = "WeakRef"
    <3>1. Len(o.soft) = 1 /\ DOMAIN o.soft = {1} /\ o.soft[1] \in Values
      BY <1>4, <2>1 DEF validate_descriptor_shape
    <3>2. soft = IF Forwarded(h, f, o.soft[1]) THEN <<rw(o.soft[1])>> ELSE <<Nil>>
      BY <1>2, <2>1 DEF SoftAfterMove, rw
    <3> HIDE DEF soft
    <3> QED BY <1>3, <1>8, <2>1, <3>1, <3>2
  <2>2. CASE o.kind = "Ephemeron"
    <3>1. /\ Len(o.soft) = 2 /\ DOMAIN o.soft = {1, 2} /\ o.soft[1] \in Values /\ o.soft[2] \in Values
      BY <1>4, <2>2 DEF validate_descriptor_shape, EphemeronAndBuilderShape
    <3>2. soft = IF Forwarded(h, f, o.soft[1]) THEN <<rw(o.soft[1]), rw(o.soft[2])>> ELSE <<Nil, Nil>>
      BY <1>2, <2>2 DEF SoftAfterMove, rw
    <3>3. Forwarded(h, f, o.soft[1]) /\ is_object(o.soft[2]) => Forwarded(h, f, o.soft[2])
      BY <1>3, <2>2, <3>1 DEF EphemeronsKept
    <3> HIDE DEF soft
    <3> QED BY <1>3, <1>8, <2>2, <3>1, <3>2, <3>3 DEF is_object
  <2>3. CASE o.kind \notin {"WeakRef", "Ephemeron"}
    <3>1. soft = <<>> /\ o.soft = <<>>
      BY <1>2, <2>3 DEF SoftAfterMove, validate_descriptor_shape
    <3> QED BY <2>3, <3>1
  <2> QED BY <2>1, <2>2, <2>3
<1> HIDE DEF strong, soft
<1>10. /\ q \in Objects /\ q.strong = strong /\ q.soft = soft
       /\ q.kind = o.kind /\ q.length = o.length /\ q.data = o.data /\ q.text = o.text
       /\ q.age = p.age /\ q.marked = p.marked
  BY <1>2, <1>6, <1>7, <1>9 DEF Objects
<1>11. validate_descriptor_shape(q)
  <2>1. o.soft = <<>> => soft = <<>>
    BY <1>4, <1>9
  <2>2. o.strong = <<>> => strong = <<>>
    BY <1>4, <1>6
  <2>3. o.kind = "Ephemeron" => Len(o.soft) = 2
    BY DEF validate_descriptor_shape, EphemeronAndBuilderShape
  <2> QED BY <1>6, <1>9, <1>10, <2>1, <2>2, <2>3
        DEF validate_descriptor_shape, ReferenceMapShape, EphemeronAndBuilderShape
<1>12. storage_slot_count(q) = Width(h, s)
  BY <1>10 DEF storage_slot_count, Width
<1>13. ASSUME NEW w \in SoftReferences(q)
       PROVE  \E v \in SoftReferences(o) :
                /\ v \in Ids /\ checked_slot(h, v) \in DOMAIN to
                /\ w = make_object_id(to[checked_slot(h, v)], mg[to[checked_slot(h, v)]])
  <2>1. PICK i \in DOMAIN soft : is_object(soft[i]) /\ w = soft[i]
    BY <1>10 DEF SoftReferences
  <2>2. i \in DOMAIN o.soft /\ o.soft[i] \in Values /\ Forwarded(h, f, o.soft[i]) /\ w = rw(o.soft[i])
    BY <1>4, <1>9, <2>1
  <2>3. o.soft[i] \in SoftReferences(o) /\ o.soft[i] \in Ids
    BY <1>3, <2>2 DEF SoftReferences, Values, is_object
  <2> QED BY <1>3, <2>2, <2>3
<1> QED BY <1>10, <1>11, <1>12, <1>13 DEF strong, rw, f, StrongFollows, SoftFollows

(***************************************************************************)
(* What an operation does to the operands of the running method.           *)
(***************************************************************************)
SameShape(o, q) ==
  q.kind = o.kind /\ q.length = o.length /\ q.data = o.data /\ q.text = o.text
  /\ Len(q.strong) = Len(o.strong)

\* The reference v into h has become the reference w into g.
Becomes(h, v, g, w) ==
  /\ is_object(w) <=> is_object(v)
  /\ is_object(v) /\ Resolves(h, v) => Resolves(g, w) /\ SameShape(ObjectOf(h, v), ObjectOf(g, w))

\* Nothing new is canonical, nothing is allocated, and the operands follow.
Carries(h, g) ==
  /\ g.allocated = h.allocated /\ g.stress = h.stress
  /\ Len(g.extra) = Len(h.extra)
  /\ \A i \in DOMAIN h.extra : Becomes(h, h.extra[i], g, g.extra[i])
  /\ \A id \in g.intern_table : \E old \in h.intern_table : ObjectOf(h, old).text = ObjectOf(g, id).text

LEMMA RegistryOf ==
  ASSUME NEW h, HeapIsTyped(h), RunsFollow(h), NEW to, NEW n, NEW mo, NEW mg,
         Moves(h, to, n, mo, mg), NEW K, K \subseteq Headers(h),
         NEW ids, ids = {IdAt(h, s) : s \in K}
  PROVE  RewrittenRegistry(h, ForwardingOf(to, mg), ids) =
           {make_object_id(to[s], mg[to[s]]) : s \in K \cap DOMAIN to}
<1> DEFINE f == ForwardingOf(to, mg)
<1>1. ASSUME NEW s \in K
      PROVE  /\ IdAt(h, s) \in Values /\ is_object(IdAt(h, s)) /\ checked_slot(h, IdAt(h, s)) = s
             /\ Forwarded(h, f, IdAt(h, s)) <=> s \in DOMAIN to
             /\ s \in DOMAIN to => rewrite_value(h, f, IdAt(h, s)) = make_object_id(to[s], mg[to[s]])
  <2>1. IdAt(h, s) \in Ids /\ checked_slot(h, IdAt(h, s)) = s
    BY IdOfBase
  <2>2. IdAt(h, s) \in Values /\ is_object(IdAt(h, s))
    BY <2>1, IdsAreReferences
  <2> QED BY <2>1, <2>2, RewrittenValue
<1> HIDE DEF f
<1>2. RewrittenRegistry(h, f, ids) = {make_object_id(to[s], mg[to[s]]) : s \in K \cap DOMAIN to}
  BY <1>1 DEF RewrittenRegistry
<1> QED BY <1>2 DEF f

InstalledAs(h, mo, mg, f, g) ==
  /\ DOMAIN g = HeapFields
  /\ g.objects = [t \in DOMAIN mo |-> IF mo[t] = None THEN None ELSE RewrittenObject(h, f, mo[t])]
  /\ g.generations = mg
  /\ g.remembered_set = RewrittenRegistry(h, f, h.remembered_set)
  /\ g.weak_refs = RewrittenRegistry(h, f, h.weak_refs)
  /\ g.intern_table = RewrittenRegistry(h, f, h.intern_table)
  /\ g.ephemerons = RewrittenRegistry(h, f, h.ephemerons)
  /\ g.worklist = RewrittenRegistry(h, f, h.worklist)
  /\ g.cells = [c \in Cells |-> IF c \in RawCells THEN h.cells[c] ELSE rewrite_value(h, f, h.cells[c])]
  /\ g.extra = [i \in DOMAIN h.extra |-> rewrite_value(h, f, h.extra[i])]
  /\ g.phase = h.phase /\ g.plan = h.plan /\ g.cursor = h.cursor /\ g.shadow = h.shadow
  /\ g.allocated = h.allocated /\ g.stress = h.stress

LEMMA Installed ==
  ASSUME NEW h, DOMAIN h = HeapFields, NEW mo, NEW mg, NEW f
  PROVE  InstalledAs(h, mo, mg, f, InstallMovement(h, mo, mg, f))
BY DEF InstalledAs, InstallMovement, trace_collection_roots, HeapFields

LEMMA RegistryIsTyped ==
  ASSUME NEW h, NEW to, NEW n, NEW mo, NEW mg, Moves(h, to, n, mo, mg), NEW ids \in SUBSET Ids
  PROVE  RewrittenRegistry(h, ForwardingOf(to, mg), ids) \in SUBSET Ids
<1> DEFINE f == ForwardingOf(to, mg)
<1>1. \A v \in ids : v \in Values /\ is_object(v)
  BY IdsAreReferences
<1>2. \A v \in ids : rewrite_value(h, f, v) \in Values /\ is_object(rewrite_value(h, f, v))
  BY <1>1, RewrittenValue
<1> HIDE DEF f
<1>3. \A w \in Values : is_object(w) => w \in Ids
  BY DEF Values, is_object
<1>4. RewrittenRegistry(h, f, ids) \in SUBSET Ids
  BY <1>2, <1>3 DEF RewrittenRegistry
<1> QED BY <1>4 DEF f

\* The heap after a movement, where each survivor has one place.
LEMMA MovedHeap ==
  ASSUME NEW h, LayoutInv(h), h.phase # "compacting",
         NEW to, NEW n, NEW mo, NEW mg, Moves(h, to, n, mo, mg), EphemeronsKept(h, DOMAIN to),
         NEW g, g = InstallMovement(h, mo, mg, ForwardingOf(to, mg))
  PROVE  /\ HeapIsTyped(g) /\ RunsFollow(g) /\ PhaseIsClean(g) /\ g.cursor = 0
         /\ Size(g) = n
         /\ Headers(g) = {to[s] : s \in DOMAIN to}
         /\ \A s \in DOMAIN to :
              /\ g.objects[to[s]] = RewrittenObject(h, ForwardingOf(to, mg), mo[to[s]])
              /\ IdAt(g, to[s]) = make_object_id(to[s], mg[to[s]])
              /\ Width(g, to[s]) = Width(h, s)
<1> DEFINE f == ForwardingOf(to, mg)
<1>0. f = ForwardingOf(to, mg)
  OBVIOUS
<1> HIDE DEF f
<1>1. HeapIsTyped(h) /\ RunsFollow(h) /\ PhaseIsClean(h)
  BY DEF LayoutInv
<1>2. /\ DOMAIN g = HeapFields
      /\ g.objects = [t \in DOMAIN mo |-> IF mo[t] = None THEN None ELSE RewrittenObject(h, f, mo[t])]
      /\ g.generations = mg
      /\ g.remembered_set = RewrittenRegistry(h, f, h.remembered_set)
      /\ g.weak_refs = RewrittenRegistry(h, f, h.weak_refs)
      /\ g.intern_table = RewrittenRegistry(h, f, h.intern_table)
      /\ g.ephemerons = RewrittenRegistry(h, f, h.ephemerons)
      /\ g.worklist = RewrittenRegistry(h, f, h.worklist)
      /\ g.cells = [c \in Cells |-> IF c \in RawCells THEN h.cells[c] ELSE rewrite_value(h, f, h.cells[c])]
      /\ g.extra = [i \in DOMAIN h.extra |-> rewrite_value(h, f, h.extra[i])]
      /\ g.phase = h.phase /\ g.plan = h.plan /\ g.cursor = h.cursor /\ g.shadow = h.shadow
      /\ g.allocated = h.allocated /\ g.stress = h.stress
  <2>1. DOMAIN h = HeapFields /\ g = InstallMovement(h, mo, mg, f)
    BY <1>0, <1>1 DEF HeapIsTyped
  <2>2. InstalledAs(h, mo, mg, f, g)
    BY <2>1, Installed
  <2> QED BY <2>2 DEF InstalledAs
<1>3. /\ n \in Nat /\ mo \in [0 .. n - 1 -> Objects \cup {None}] /\ mg \in [0 .. n - 1 -> Nat]
      /\ \A t \in 0 .. n - 1 : mo[t] # None => \E s \in DOMAIN to : to[s] = t
      /\ \A s \in DOMAIN to : to[s] \in 0 .. n - 1 /\ mo[to[s]] # None
  BY NoneAssumption DEF Moves, SameContents
<1>4. ASSUME NEW s \in DOMAIN to
      PROVE  /\ RewrittenObject(h, f, mo[to[s]]) \in Objects
             /\ validate_descriptor_shape(RewrittenObject(h, f, mo[to[s]]))
             /\ storage_slot_count(RewrittenObject(h, f, mo[to[s]])) = Width(h, s)
  <2>1. s \in Headers(h)
    BY DEF Moves
  <2>2. validate_descriptor_shape(h.objects[s])
    BY <1>1, <2>1 DEF RunsFollow
  <2> DEFINE q == RewrittenObject(h, f, mo[to[s]])
  <2>3. q = RewrittenObject(h, ForwardingOf(to, mg), mo[to[s]])
    BY <1>0
  <2> HIDE DEF q
  <2>4. q \in Objects /\ validate_descriptor_shape(q) /\ storage_slot_count(q) = Width(h, s)
    BY <1>1, <2>2, <2>3, RewrittenContents
  <2> QED BY <2>4 DEF q
<1>5. \A s \in DOMAIN to : g.objects[to[s]] = RewrittenObject(h, f, mo[to[s]])
  BY <1>2, <1>3
<1>6. g.objects \in [0 .. n - 1 -> Objects \cup {None}]
  <2>1. \A t \in 0 .. n - 1 : g.objects[t] \in Objects \cup {None}
    BY <1>2, <1>3, <1>4
  <2> QED BY <1>2, <1>3, <2>1
<1>7. Size(g) = n
  BY <1>3, <1>6, SizeOf
<1>8. \A v \in Values : rewrite_value(h, f, v) \in Values
  BY <1>0, RewrittenValue
<1>9. /\ {g.remembered_set, g.weak_refs, g.ephemerons, g.intern_table, g.worklist} \subseteq SUBSET Ids
      /\ g.cells \in [Cells -> Values] /\ g.extra \in Seq(Values)
  <2>1. \A ids \in {h.remembered_set, h.weak_refs, h.ephemerons, h.intern_table, h.worklist} :
          RewrittenRegistry(h, f, ids) \in SUBSET Ids
    BY <1>0, <1>1, RegistryIsTyped DEF HeapIsTyped
  <2>2. h.cells \in [Cells -> Values] /\ h.extra \in Seq(Values)
    BY <1>1 DEF HeapIsTyped
  <2>3. g.cells \in [Cells -> Values]
    BY <1>2, <1>8, <2>2
  <2>4. g.extra \in Seq(Values)
    BY <1>2, <1>8, <2>2
  <2> QED BY <1>2, <2>1, <2>3, <2>4
<1>10. h.plan = <<>> /\ h.cursor = 0 /\ h.shadow = None /\ (h.phase # "marking" => h.worklist = {})
  BY <1>1 DEF PhaseIsClean
<1>11. HeapIsTyped(g)
  BY <1>1, <1>2, <1>3, <1>6, <1>7, <1>9 DEF HeapIsTyped
<1>12. PhaseIsClean(g) /\ g.cursor = 0
  <2>1. h.worklist = {} => g.worklist = {}
    BY <1>2 DEF RewrittenRegistry
  <2> QED BY <1>2, <1>10, <2>1 DEF PhaseIsClean
<1>13. Headers(g) = {to[s] : s \in DOMAIN to}
  <2>1. \A t \in 0 .. n - 1 : g.objects[t] # None <=> \E s \in DOMAIN to : to[s] = t
    BY <1>2, <1>3, <1>4, NoneAssumption
  <2> QED BY <1>3, <1>6, <2>1 DEF Headers
<1>14. \A s \in DOMAIN to : Width(g, to[s]) = Width(h, s)
  BY <1>4, <1>5 DEF Width
<1>15. RunsFollow(g)
  <2>1. ASSUME NEW s \in DOMAIN to
        PROVE  /\ validate_descriptor_shape(g.objects[to[s]]) /\ g.generations[to[s]] > 0
               /\ to[s] + Width(g, to[s]) <= Size(g)
    BY <1>2, <1>4, <1>5, <1>7, <1>14 DEF Moves
  <2>2. ASSUME NEW s \in DOMAIN to, NEW t \in DOMAIN to, to[s] < to[t]
        PROVE  to[s] + Width(g, to[s]) <= to[t]
    <3>1. s \in Headers(h) /\ t \in Headers(h) /\ to[s] \in Int /\ to[t] \in Int
      BY DEF Moves
    <3>2. Width(h, s) \in Nat \ {0} /\ Width(h, t) \in Nat \ {0}
      BY <1>1, <3>1, HeaderIsObject
    <3>3. to[s] + Width(h, s) <= to[t] \/ to[t] + Width(h, t) <= to[s]
      BY <2>2, <3>1 DEF Moves
    <3> QED BY <1>14, <2>2, <3>1, <3>2, <3>3
  <2> QED BY <1>13, <2>1, <2>2 DEF RunsFollow
<1>16. \A s \in DOMAIN to : IdAt(g, to[s]) = make_object_id(to[s], mg[to[s]])
  BY <1>2 DEF IdAt
<1> QED BY <1>0, <1>5, <1>7, <1>11, <1>12, <1>13, <1>14, <1>15, <1>16

\* A reference to a survivor is rewritten to its new id.
LEMMA MovedReference ==
  ASSUME NEW h, LayoutInv(h), h.phase # "compacting",
         NEW to, NEW n, NEW mo, NEW mg, Moves(h, to, n, mo, mg), EphemeronsKept(h, DOMAIN to),
         NEW g, g = InstallMovement(h, mo, mg, ForwardingOf(to, mg)),
         NEW v \in Ids, checked_slot(h, v) \in DOMAIN to,
         NEW w, w = rewrite_value(h, ForwardingOf(to, mg), v)
  PROVE  /\ w = IdAt(g, to[checked_slot(h, v)]) /\ Physical(g, w)
         /\ checked_slot(g, w) = to[checked_slot(h, v)]
         /\ Becomes(h, v, g, w)
<1> DEFINE s == checked_slot(h, v)
           q == RewrittenObject(h, ForwardingOf(to, mg), mo[to[s]])
<1>1. HeapIsTyped(g) /\ RunsFollow(g) /\ to[s] \in Headers(g) /\ g.objects[to[s]] = q
      /\ IdAt(g, to[s]) = make_object_id(to[s], mg[to[s]])
  BY MovedHeap
<1>2. v \in Values /\ is_object(v)
  BY IdsAreReferences
<1>3. w = IdAt(g, to[s])
  BY <1>1, <1>2, RewrittenValue
<1>4. /\ Physical(g, w) /\ checked_slot(g, w) = to[s] /\ Resolves(g, w) /\ is_object(w)
  <2> HIDE DEF s, q
  <2> QED BY <1>1, <1>3, IdOfBase DEF Resolves
<1>5. HeapIsTyped(h) /\ s \in DOMAIN to /\ s \in Headers(h) /\ validate_descriptor_shape(h.objects[s])
  BY DEF LayoutInv, RunsFollow, Moves
<1>6. q = RewrittenObject(h, ForwardingOf(to, mg), mo[to[s]])
  OBVIOUS
<1> HIDE DEF s, q
<1>7. SameShape(h.objects[s], q)
  <2>1. /\ q.kind = h.objects[s].kind /\ q.length = h.objects[s].length
        /\ q.data = h.objects[s].data /\ q.text = h.objects[s].text
        /\ StrongFollows(h, to, mg, h.objects[s], q) /\ q \in Objects
    BY <1>5, <1>6, RewrittenContents
  <2>2. Len(q.strong) = Len(h.objects[s].strong)
    <3>1. q.strong \in Seq(Values) /\ h.objects[s].strong \in Seq(Values)
      BY <1>5, <2>1, HeaderIsObject, ObjectFields
    <3>2. DOMAIN q.strong = DOMAIN h.objects[s].strong
      BY <2>1 DEF StrongFollows
    <3> QED BY <3>1, <3>2
  <2> QED BY <2>1, <2>2 DEF SameShape
<1>8. ObjectOf(h, v) = h.objects[s] /\ ObjectOf(g, w) = q
  BY <1>1, <1>4 DEF ObjectOf, s
<1> QED BY <1>2, <1>3, <1>4, <1>7, <1>8 DEF Becomes, s

\* The operands that name survivors.
OperandsMove(h, live) ==
  \A i \in DOMAIN h.extra :
    is_object(h.extra[i]) /\ Resolves(h, h.extra[i]) => checked_slot(h, h.extra[i]) \in live

LEMMA MovementKeeps ==
  ASSUME NEW h, LayoutInv(h), h.phase # "compacting",
         NEW to, NEW n, NEW mo, NEW mg, Moves(h, to, n, mo, mg), EphemeronsKept(h, DOMAIN to),
         OperandsMove(h, DOMAIN to),
         NEW g, g = InstallMovement(h, mo, mg, ForwardingOf(to, mg))
  PROVE  LayoutInv(g) /\ Carries(h, g) /\ g.phase = h.phase
<1> DEFINE f == ForwardingOf(to, mg)
           Kept(kind) == {s \in DOMAIN to : h.objects[s].kind = kind}
<1>1. HeapIsTyped(h) /\ RunsFollow(h) /\ PhaseIsClean(h) /\ RegistriesName(h) /\ NamesAreUsed(h)
  BY DEF LayoutInv
<1>2. /\ HeapIsTyped(g) /\ RunsFollow(g) /\ PhaseIsClean(g) /\ Headers(g) = {to[s] : s \in DOMAIN to}
  BY MovedHeap
<1>3. /\ g.remembered_set = RewrittenRegistry(h, f, h.remembered_set)
      /\ g.weak_refs = RewrittenRegistry(h, f, h.weak_refs)
      /\ g.intern_table = RewrittenRegistry(h, f, h.intern_table)
      /\ g.ephemerons = RewrittenRegistry(h, f, h.ephemerons)
      /\ g.extra = [i \in DOMAIN h.extra |-> rewrite_value(h, f, h.extra[i])]
      /\ g.phase = h.phase /\ g.allocated = h.allocated /\ g.stress = h.stress
  <2>1. DOMAIN h = HeapFields /\ g = InstallMovement(h, mo, mg, f)
    BY <1>1 DEF HeapIsTyped
  <2> HIDE DEF f
  <2>2. InstalledAs(h, mo, mg, f, g)
    BY <2>1, Installed
  <2> QED BY <2>2 DEF InstalledAs
<1>4. ASSUME NEW s \in DOMAIN to
      PROVE  /\ s \in Headers(h) /\ to[s] \in Headers(g)
             /\ IdAt(g, to[s]) = make_object_id(to[s], mg[to[s]])
             /\ g.objects[to[s]].kind = h.objects[s].kind /\ g.objects[to[s]].text = h.objects[s].text
             /\ g.objects[to[s]].data = h.objects[s].data
             /\ g.objects[to[s]].length = h.objects[s].length
             /\ SoftFollows(h, to, mg, h.objects[s], g.objects[to[s]])
  <2>1. s \in Headers(h) /\ validate_descriptor_shape(h.objects[s])
    BY <1>1 DEF Moves, RunsFollow
  <2>2. /\ to[s] \in Headers(g) /\ IdAt(g, to[s]) = make_object_id(to[s], mg[to[s]])
        /\ g.objects[to[s]] = RewrittenObject(h, f, mo[to[s]])
    BY MovedHeap
  <2> QED BY <1>1, <2>1, <2>2, RewrittenContents
<1> HIDE DEF f
<1>5. ASSUME NEW kind
      PROVE  OfKind(g, kind) = {make_object_id(to[s], mg[to[s]]) : s \in Kept(kind)}
  BY <1>2, <1>4 DEF OfKind
<1>6. ASSUME NEW kind, NEW ids, ids = OfKind(h, kind)
      PROVE  RewrittenRegistry(h, f, ids) = OfKind(g, kind)
  <2> DEFINE K == {t \in Headers(h) : h.objects[t].kind = kind}
  <2>1. K \subseteq Headers(h) /\ ids = {IdAt(h, s) : s \in K}
    BY <1>6 DEF OfKind
  <2>2. K \cap DOMAIN to = Kept(kind)
    BY <1>4
  <2> HIDE DEF K
  <2>3. RewrittenRegistry(h, f, ids) = {make_object_id(to[s], mg[to[s]]) : s \in K \cap DOMAIN to}
    BY <1>1, <2>1, RegistryOf DEF f
  <2> QED BY <1>5, <2>2, <2>3
<1>7. ASSUME NEW id \in g.intern_table
      PROVE  \E s \in DOMAIN to : /\ IdAt(h, s) \in h.intern_table /\ h.objects[s].kind = "Str"
                                  /\ id = IdAt(g, to[s]) /\ ObjectOf(g, id).text = h.objects[s].text
                                  /\ ObjectOf(h, IdAt(h, s)).text = h.objects[s].text
  <2>1. PICK old \in h.intern_table : Forwarded(h, f, old) /\ id = rewrite_value(h, f, old)
    BY <1>3 DEF RewrittenRegistry
  <2>2. PICK s \in Headers(h) : old = IdAt(h, s) /\ h.objects[s].kind = "Str"
    BY <1>1, <2>1 DEF RegistriesName, OfKind
  <2>3. old \in Ids /\ checked_slot(h, old) = s
    BY <1>1, <2>2, IdOfBase
  <2>4. old \in Values /\ is_object(old)
    BY <2>3, IdsAreReferences
  <2>5. s \in DOMAIN to /\ id = make_object_id(to[s], mg[to[s]])
    BY <2>1, <2>3, <2>4, RewrittenValue DEF f
  <2>6. id = IdAt(g, to[s]) /\ checked_slot(g, id) = to[s]
    BY <1>2, <1>4, <2>5, IdOfBase
  <2> QED BY <1>4, <2>1, <2>2, <2>3, <2>5, <2>6 DEF ObjectOf
<1>8. RegistriesName(g)
  <2>1. g.weak_refs = OfKind(g, "WeakRef") /\ g.ephemerons = OfKind(g, "Ephemeron")
    BY <1>1, <1>3, <1>6 DEF RegistriesName
  <2>2. g.intern_table \subseteq OfKind(g, "Str")
    BY <1>4, <1>7 DEF OfKind
  <2>3. ASSUME NEW t \in Headers(g), NEW w \in SoftReferences(g.objects[t]) PROVE Resolves(g, w)
    <3>1. PICK s \in DOMAIN to : t = to[s]
      BY <1>2
    <3>2. PICK v \in SoftReferences(h.objects[s]) :
            /\ v \in Ids /\ checked_slot(h, v) \in DOMAIN to
            /\ w = make_object_id(to[checked_slot(h, v)], mg[to[checked_slot(h, v)]])
      BY <1>4, <2>3, <3>1 DEF SoftFollows
    <3>3. w = IdAt(g, to[checked_slot(h, v)]) /\ to[checked_slot(h, v)] \in Headers(g)
      BY <1>4, <3>2
    <3> QED BY <1>2, <3>3, IdOfBase
  <2>4. ASSUME NEW a \in g.intern_table, NEW b \in g.intern_table,
               ObjectOf(g, a).text = ObjectOf(g, b).text
        PROVE  a = b
    <3>1. PICK s \in DOMAIN to : /\ IdAt(h, s) \in h.intern_table
                                 /\ a = IdAt(g, to[s]) /\ ObjectOf(g, a).text = h.objects[s].text
                                 /\ ObjectOf(h, IdAt(h, s)).text = h.objects[s].text
      BY <1>7
    <3>2. PICK t \in DOMAIN to : /\ IdAt(h, t) \in h.intern_table
                                 /\ b = IdAt(g, to[t]) /\ ObjectOf(g, b).text = h.objects[t].text
                                 /\ ObjectOf(h, IdAt(h, t)).text = h.objects[t].text
      BY <1>7
    <3>3. IdAt(h, s) = IdAt(h, t)
      BY <1>1, <2>4, <3>1, <3>2 DEF RegistriesName
    <3>4. s = t
      BY <1>1, <1>4, <3>3, IdOfBase
    <3> QED BY <3>1, <3>2, <3>4
  <2>5. ASSUME NEW id \in g.remembered_set PROVE Resolves(g, id)
    <3>1. g.remembered_set = RewrittenRegistry(h, f, h.remembered_set)
      BY <1>3
    <3>2. PICK old \in h.remembered_set : Forwarded(h, f, old) /\ id = rewrite_value(h, f, old)
      BY <3>1 DEF RewrittenRegistry
    <3>3. old \in Ids /\ old \in Values
      BY <1>1, IdsAreReferences DEF HeapIsTyped
    <3>4. /\ checked_slot(h, old) \in DOMAIN to
          /\ id = make_object_id(to[checked_slot(h, old)], mg[to[checked_slot(h, old)]])
      BY <3>2, <3>3, RewrittenValue DEF f
    <3>5. id = IdAt(g, to[checked_slot(h, old)]) /\ to[checked_slot(h, old)] \in Headers(g)
      BY <1>4, <3>4
    <3> QED BY <1>2, <3>5, IdOfBase
  <2> QED BY <2>1, <2>2, <2>3, <2>4, <2>5 DEF RegistriesName
<1>9. NamesAreUsed(g)
  BY <1>1, <1>2, <1>3, <1>4 DEF NamesAreUsed
<1>10. Carries(h, g)
  <2>1. h.extra \in Seq(Values) /\ g.extra \in Seq(Values)
    BY <1>1, <1>2 DEF HeapIsTyped
  <2>2. Len(g.extra) = Len(h.extra)
    BY <1>3, <2>1
  <2>3. ASSUME NEW i \in DOMAIN h.extra PROVE Becomes(h, h.extra[i], g, g.extra[i])
    <3> DEFINE v == h.extra[i]
               w == g.extra[i]
    <3>1. v \in Values /\ w = rewrite_value(h, f, v)
      BY <1>3, <2>1
    <3>2. is_object(w) <=> is_object(v)
      BY <3>1, RewrittenValue DEF f
    <3>3. CASE is_object(v) /\ Resolves(h, v)
      <4>1. v \in Ids /\ checked_slot(h, v) \in DOMAIN to
        BY <3>1, <3>3 DEF Values, is_object, OperandsMove
      <4>2. w = rewrite_value(h, ForwardingOf(to, mg), v)
        BY <3>1 DEF f
      <4> HIDE DEF v, w
      <4>3. Becomes(h, v, g, w)
        BY <4>1, <4>2, MovedReference
      <4> QED BY <4>3 DEF v, w
    <3> QED BY <3>2, <3>3 DEF Becomes
  <2>4. \A id \in g.intern_table :
          \E old \in h.intern_table : ObjectOf(h, old).text = ObjectOf(g, id).text
    <3> SUFFICES ASSUME NEW id \in g.intern_table
                 PROVE  \E old \in h.intern_table : ObjectOf(h, old).text = ObjectOf(g, id).text
      OBVIOUS
    <3> QED BY <1>7
  <2> QED BY <1>3, <2>2, <2>3, <2>4 DEF Carries
<1> QED BY <1>2, <1>3, <1>8, <1>9, <1>10 DEF LayoutInv

(***************************************************************************)
(* Loops.                                                                  *)
(***************************************************************************)

\* A set that contains 0 and the next number of each of its numbers below n
\* contains them all.
LEMMA CountingUp ==
  ASSUME NEW n \in Nat, NEW T, 0 \in T, \A i \in 0 .. n : i < n /\ i \in T => i + 1 \in T
  PROVE  \A i \in 0 .. n : i \in T
<1> DEFINE R == OpToRel(<, Nat)
           Left == (0 .. n) \ T
<1>1. SUFFICES ASSUME Left # {} PROVE FALSE
  OBVIOUS
<1>2. IsWellFoundedOn(R, Nat)
  BY NatLessThanWellFounded, Zenon
<1>3. \A x, y \in Nat : <<y, x>> \in R <=> y < x
  BY DEF OpToRel
<1>4. Left \subseteq Nat
  OBVIOUS
<1> HIDE DEF R
<1>5. PICK least \in Left : \A k \in Left : ~(<<k, least>> \in R)
  BY <1>1, <1>2, <1>4, WFMin
<1>6. least - 1 \in Left /\ least - 1 < least
  BY <1>5
<1> QED BY <1>3, <1>4, <1>5, <1>6

\* Every nonempty set of numbers has a least one.
LEMMA LeastNumber ==
  ASSUME NEW S, S \subseteq Nat, S # {}
  PROVE  \E least \in S : \A k \in S : least <= k
<1> DEFINE R == OpToRel(<, Nat)
<1>1. IsWellFoundedOn(R, Nat)
  BY NatLessThanWellFounded, Zenon
<1>2. \A x, y \in Nat : <<y, x>> \in R <=> y < x
  BY DEF OpToRel
<1> HIDE DEF R
<1>3. PICK least \in S : \A k \in S : ~(<<k, least>> \in R)
  BY <1>1, WFMin
<1>4. \A k \in S : k \in Nat /\ least \in Nat /\ ~(k < least)
  BY <1>2, <1>3
<1>5. \A k \in S : least <= k
  BY <1>4
<1> QED BY <1>5

\* The loop that starts from x, stops in Stop and otherwise goes on with F[x].
Loops(f, D, Stop, F) == f = [x \in D |-> IF x \in Stop THEN x ELSE f[F[x]]]

\* Every such loop has a value, the end of a run that is not left open: the
\* values a run from x passes are those of every set that contains x and is
\* closed under F outside Stop.
Passed(D, Stop, F, x) ==
  {y \in D : \A A \in SUBSET D : x \in A /\ (\A z \in A \ Stop : F[z] \in A) => y \in A}

LEMMA PassedStepwise ==
  ASSUME NEW D, NEW Stop, NEW F, \A x \in D \ Stop : F[x] \in D, NEW x \in D
  PROVE  /\ x \in Stop => Passed(D, Stop, F, x) = {x}
         /\ x \notin Stop => Passed(D, Stop, F, x) = {x} \cup Passed(D, Stop, F, F[x])
<1>1. x \in Stop => Passed(D, Stop, F, x) = {x}
  <2>1. x \in Passed(D, Stop, F, x)
    BY DEF Passed
  <2>2. ASSUME x \in Stop, NEW y \in Passed(D, Stop, F, x) PROVE y = x
    <3>1. {x} \in SUBSET D /\ x \in {x} /\ \A z \in {x} \ Stop : F[z] \in {x}
      BY <2>2
    <3>2. y \in {x}
      BY <2>2, <3>1 DEF Passed
    <3> QED BY <3>2
  <2> QED BY <2>1, <2>2
<1>2. ASSUME x \notin Stop PROVE Passed(D, Stop, F, x) = {x} \cup Passed(D, Stop, F, F[x])
  <2> DEFINE P == Passed(D, Stop, F, F[x])
             Q == {x} \cup P
  <2>1. F[x] \in P /\ P \subseteq D
    BY <1>2 DEF Passed
  <2>2. \A z \in P \ Stop : F[z] \in P
    BY DEF Passed
  <2>3. Q \in SUBSET D /\ x \in Q /\ \A z \in Q \ Stop : F[z] \in Q
    <3> HIDE DEF P
    <3> QED BY <2>1, <2>2
  <2>4. Passed(D, Stop, F, x) \subseteq Q
    <3> HIDE DEF Q
    <3> QED BY <2>3 DEF Passed
  <2>5. ASSUME NEW A \in SUBSET D, x \in A, \A z \in A \ Stop : F[z] \in A
        PROVE  P \subseteq A
    <3>1. F[x] \in A
      BY <1>2, <2>5
    <3> QED BY <2>5, <3>1 DEF Passed
  <2>6. Q \subseteq Passed(D, Stop, F, x)
    <3>1. \A y \in P : y \in D /\ \A A \in SUBSET D : x \in A /\ (\A z \in A \ Stop : F[z] \in A) => y \in A
      <4> HIDE DEF P
      <4> QED BY <2>1, <2>5
    <3>2. P \subseteq Passed(D, Stop, F, x)
      <4> HIDE DEF P
      <4> QED BY <3>1 DEF Passed
    <3>3. x \in Passed(D, Stop, F, x)
      BY DEF Passed
    <3> QED BY <3>2, <3>3
  <2> QED BY <2>4, <2>6
<1> QED BY <1>1, <1>2

LEMMA LoopExists ==
  ASSUME NEW D, NEW Stop, NEW F, \A x \in D \ Stop : F[x] \in D
  PROVE  \E f : Loops(f, D, Stop, F)
<1> DEFINE f == [x \in D |-> CHOOSE y : y \in Passed(D, Stop, F, x) \cap Stop]
           g == [x \in D |-> IF x \in Stop THEN x ELSE f[F[x]]]
<1>1. ASSUME NEW x \in D PROVE f[x] = g[x]
  <2>1. CASE x \in Stop
    <3>1. Passed(D, Stop, F, x) \cap Stop = {x}
      BY <2>1, PassedStepwise
    <3>2. f[x] = CHOOSE y : y \in {x}
      BY <3>1
    <3> QED BY <2>1, <3>2
  <2>2. CASE x \notin Stop
    <3>1. Passed(D, Stop, F, x) \cap Stop = Passed(D, Stop, F, F[x]) \cap Stop
      BY <2>2, PassedStepwise
    <3> QED BY <2>2, <3>1
  <2> QED BY <2>1, <2>2
<1>2. f = g
  <2>1. DOMAIN f = D /\ DOMAIN g = D /\ f = [x \in D |-> f[x]] /\ g = [x \in D |-> g[x]]
    OBVIOUS
  <2> HIDE DEF f, g
  <2> QED BY <1>1, <2>1
<1>3. f = [x \in D |-> IF x \in Stop THEN x ELSE f[F[x]]]
  BY <1>2
<1> HIDE DEF f
<1> QED BY <1>3 DEF Loops

\* A loop over subsets of a finite set that always adds something ends, with
\* all it started from and in every set P of subsets that it does not leave.
Growing(X, Stop, F, P) ==
  /\ P \subseteq SUBSET X
  /\ \A S \in P \ Stop : F[S] \in P /\ S \subseteq F[S] /\ S # F[S]

Ends(f, Stop, P) == \A S \in P : f[S] \in P \cap Stop /\ S \subseteq f[S]

LEMMA GrowingLoopEnds ==
  ASSUME NEW X, IsFiniteSet(X), NEW Stop, NEW F, NEW f, Loops(f, SUBSET X, Stop, F),
         NEW P, Growing(X, Stop, F, P)
  PROVE  Ends(f, Stop, P)
<1> DEFINE Good(S) == f[S] \in P \cap Stop /\ S \subseteq f[S]
           Bad == {S \in P : ~Good(S)}
           Rest1 == {X \ S : S \in Bad}
           R == StrictSubsetOrdering(X)
<1>1. IsWellFoundedOn(R, FiniteSubsetsOf(X))
  BY FS_StrictSubsetOrderingWellFounded
<1>2. Rest1 \subseteq FiniteSubsetsOf(X)
  BY FS_Subset DEF FiniteSubsetsOf, Growing
<1>3. SUFFICES ASSUME NEW bad \in P, ~Good(bad) PROVE FALSE
  BY DEF Ends
<1>4. PICK least \in Rest1 : \A T \in Rest1 : ~(<<T, least>> \in R)
  <2>1. X \ bad \in Rest1
    BY <1>3
  <2> HIDE DEF R, Rest1
  <2> QED BY <1>1, <1>2, <2>1, WFMin
<1>5. PICK S \in Bad : least = X \ S
  BY <1>4
<1>6. S \in P /\ S \subseteq X /\ ~Good(S)
  BY <1>5 DEF Growing
<1>7. S \notin Stop
  BY <1>6 DEF Loops
<1> DEFINE T == F[S]
<1>8. T \in P /\ T \subseteq X /\ S \subseteq T /\ S # T /\ f[S] = f[T]
  BY <1>6, <1>7 DEF Loops, Growing
<1> HIDE DEF T
<1>9. T \in Bad
  BY <1>6, <1>8
<1>10. X \ T \in Rest1 /\ <<X \ T, X \ S>> \in R
  BY <1>6, <1>8, <1>9 DEF StrictSubsetOrdering
<1> QED BY <1>4, <1>5, <1>10

(***************************************************************************)
(* Marking.                                                                *)
(***************************************************************************)

\* An object that a reference can be resolved to is where it should be.
Sound(h) == HeapIsTyped(h) /\ RunsFollow(h) /\ PhaseIsClean(h)

LEMMA HeadersAreFinite ==
  ASSUME NEW h, HeapIsTyped(h)
  PROVE  IsFiniteSet(Headers(h))
<1>1. IsFiniteSet(0 .. Size(h) - 1)
  BY HeaderIsObject, FS_Interval
<1>2. Headers(h) \subseteq 0 .. Size(h) - 1
  BY HeaderIsObject
<1> QED BY <1>1, <1>2, FS_Subset

LEMMA ValueIsId == \A v \in Values : is_object(v) <=> v \in Ids
BY NilAssumption DEF Values, is_object

\* A reference is enqueued unless its object is live already.
LEMMA EnqueuedSlots ==
  ASSUME NEW h, Sound(h), NEW values, values \subseteq Values, NEW kind
  PROVE  /\ Enqueued(h, values, kind) \subseteq Headers(h)
         /\ \A black : \A v \in values : is_object(v) /\ Resolves(h, v)
              => checked_slot(h, v) \in Enqueued(h, values, kind) \/ IsLive(h, black, checked_slot(h, v), kind)
         /\ \A s \in Enqueued(h, values, kind) :
              \E v \in values : is_object(v) /\ Resolves(h, v) /\ s = checked_slot(h, v)
<1>1. \A v \in values \ {Nil} : /\ is_object(v) /\ v \in Ids
                                /\ checked_slot(h, v) \in Headers(h) \cup {NoSlot}
                                /\ Resolves(h, v) <=> checked_slot(h, v) \in Headers(h)
  BY ResolvedIsHeader DEF Sound, Values, is_object
<1>2. \A s \in Headers(h) : s # NoSlot /\ h.objects[s].marked \in BOOLEAN
                            /\ h.objects[s].age \in {"Young", "Old"}
  BY HeaderIsObject, ObjectFields DEF Sound
<1>3. Enqueued(h, values, kind) \subseteq Headers(h)
  BY <1>1 DEF Enqueued
<1>4. ASSUME NEW v \in values, NEW black, is_object(v), Resolves(h, v),
             ~IsLive(h, black, checked_slot(h, v), kind)
      PROVE  checked_slot(h, v) \in Enqueued(h, values, kind)
  <2>1. v \in values \ {Nil} /\ checked_slot(h, v) \in Headers(h)
    BY <1>1, <1>4 DEF is_object
  <2>2. ~h.objects[checked_slot(h, v)].marked /\ (kind = "Minor" => is_young_slot(h, checked_slot(h, v)))
    BY <1>2, <1>4, <2>1 DEF IsLive, is_old_slot, is_young_slot
  <2> QED BY <1>2, <2>1, <2>2 DEF Enqueued
<1>5. ASSUME NEW s \in Enqueued(h, values, kind)
      PROVE  \E v \in values : is_object(v) /\ Resolves(h, v) /\ s = checked_slot(h, v)
  <2>1. PICK v \in values \ {Nil} : s = checked_slot(h, v)
    BY <1>5 DEF Enqueued
  <2> QED BY <1>1, <1>3, <2>1
<1> QED BY <1>3, <1>4, <1>5

LEMMA FieldsAreValues ==
  ASSUME NEW o \in Objects
  PROVE  visit_reference_fields(o) \subseteq Values \ {Nil} /\ SoftReferences(o) \subseteq Values \ {Nil}
<1>1. o.strong \in Seq(Values) /\ o.soft \in Seq(Values)
  BY ObjectFields
<1> QED BY <1>1 DEF visit_reference_fields, SoftReferences, is_object

LEMMA ScannedGrows ==
  ASSUME NEW h, Sound(h), NEW kind, NEW black \in SUBSET Headers(h)
  PROVE  black \subseteq Scanned(h, black, kind) /\ Scanned(h, black, kind) \in SUBSET Headers(h)
<1>1. ASSUME NEW s \in black PROVE Enqueued(h, visit_reference_fields(h.objects[s]), kind) \subseteq Headers(h)
  <2>1. visit_reference_fields(h.objects[s]) \subseteq Values
    BY HeaderIsObject, FieldsAreValues DEF Sound
  <2> QED BY <2>1, EnqueuedSlots
<1> QED BY <1>1 DEF Scanned

\* The worklist empties: what is marked then refers to nothing that is not,
\* and is in every set C that references do not leave.
LEMMA DrainStaysIn ==
  ASSUME NEW h, Sound(h), NEW kind, NEW C \in SUBSET Headers(h),
         \A B \in SUBSET C : Scanned(h, B, kind) \subseteq C, NEW grey \in SUBSET C,
         NEW black, black = drain_mark_worklist(h, grey, kind)
  PROVE  /\ grey \subseteq black /\ black \in SUBSET C
         /\ Scanned(h, black, kind) = black
<1> DEFINE X == Headers(h)
           Stop == {B \in SUBSET X : Scanned(h, B, kind) = B}
           F == [B \in SUBSET X |-> Scanned(h, B, kind)]
           Unrolled(f) == [B \in SUBSET X |->
                             IF Scanned(h, B, kind) = B THEN B ELSE f[Scanned(h, B, kind)]]
           drain == CHOOSE f : f = Unrolled(f)
<1>1. \A B \in SUBSET X : F[B] \in SUBSET X /\ B \subseteq F[B] /\ (B \notin Stop => B # F[B])
  BY ScannedGrows
<1>2. \A f : Loops(f, SUBSET X, Stop, F) <=> f = Unrolled(f)
  <2>1. SUFFICES ASSUME NEW f
                 PROVE  [B \in SUBSET X |-> IF B \in Stop THEN B ELSE f[F[B]]] = Unrolled(f)
    BY DEF Loops
  <2>2. \A B \in SUBSET X : (IF B \in Stop THEN B ELSE f[F[B]]) = Unrolled(f)[B]
    OBVIOUS
  <2>3. Unrolled(f) = [B \in SUBSET X |-> Unrolled(f)[B]]
    OBVIOUS
  <2> HIDE DEF Unrolled, Stop, F
  <2> QED BY <2>2, <2>3
<1>3. black = drain[grey]
  BY DEF drain_mark_worklist
<1>4. \E f : Loops(f, SUBSET X, Stop, F)
  <2> HIDE DEF Stop, F
  <2> QED BY <1>1, LoopExists
<1>5. Loops(drain, SUBSET X, Stop, F)
  <2> HIDE DEF Stop, F, Unrolled
  <2> QED BY <1>2, <1>4
<1>6. IsFiniteSet(X)
  BY HeadersAreFinite DEF Sound
<1>7. drain[grey] \in (SUBSET C) \cap Stop /\ grey \subseteq drain[grey]
  <2> DEFINE f == drain
             P == SUBSET C
  <2>1. Loops(f, SUBSET X, Stop, F)
    BY <1>5
  <2>2. Growing(X, Stop, F, P) /\ grey \in P
    <3>1. P \subseteq SUBSET X /\ grey \in P
      OBVIOUS
    <3>2. \A S \in P : F[S] \in P
      BY <3>1
    <3> HIDE DEF P, F, Stop
    <3> QED BY <1>1, <3>1, <3>2 DEF Growing
  <2> HIDE DEF f, Stop, F, X, P
  <2>3. Ends(f, Stop, P)
    BY <1>6, <2>1, <2>2, GrowingLoopEnds
  <2> QED BY <2>2, <2>3 DEF f, P, Ends
<1> QED BY <1>3, <1>7

LEMMA DrainEnds ==
  ASSUME NEW h, Sound(h), NEW kind, NEW grey \in SUBSET Headers(h),
         NEW black, black = drain_mark_worklist(h, grey, kind)
  PROVE  /\ grey \subseteq black /\ black \in SUBSET Headers(h)
         /\ Scanned(h, black, kind) = black
<1>1. \A B \in SUBSET Headers(h) : Scanned(h, B, kind) \subseteq Headers(h)
  BY ScannedGrows
<1> DEFINE C == Headers(h)
<1>2. C \in SUBSET Headers(h) /\ grey \in SUBSET C
  OBVIOUS
<1> HIDE DEF C
<1>3. \A B \in SUBSET C : Scanned(h, B, kind) \subseteq C
  BY <1>1 DEF C
<1> QED BY <1>2, <1>3, DrainStaysIn

LEMMA RegisteredEphemerons ==
  ASSUME NEW h, LayoutInv(h)
  PROVE  /\ {checked_slot(h, id) : id \in h.ephemerons} =
              {s \in Headers(h) : h.objects[s].kind = "Ephemeron"}
         /\ \A s \in Headers(h) : h.objects[s].kind = "Ephemeron" =>
              /\ h.objects[s].soft[1] \in Values /\ h.objects[s].soft[2] \in Values
              /\ \A i \in {1, 2} : is_object(h.objects[s].soft[i]) => Resolves(h, h.objects[s].soft[i])
<1>1. HeapIsTyped(h) /\ RunsFollow(h) /\ RegistriesName(h)
  BY DEF LayoutInv
<1>2. \A s \in Headers(h) : checked_slot(h, IdAt(h, s)) = s
  BY <1>1, IdOfBase
<1>3. {checked_slot(h, id) : id \in h.ephemerons} = {s \in Headers(h) : h.objects[s].kind = "Ephemeron"}
  BY <1>1, <1>2 DEF RegistriesName, OfKind
<1>4. ASSUME NEW s \in Headers(h), h.objects[s].kind = "Ephemeron"
      PROVE  /\ h.objects[s].soft[1] \in Values /\ h.objects[s].soft[2] \in Values
             /\ \A i \in {1, 2} : is_object(h.objects[s].soft[i]) => Resolves(h, h.objects[s].soft[i])
  <2> DEFINE soft == h.objects[s].soft
  <2>1. soft \in Seq(Values)
    BY <1>1, HeaderIsObject, ObjectFields
  <2>2. Len(soft) = 2
    BY <1>1, <1>4 DEF RunsFollow, validate_descriptor_shape, EphemeronAndBuilderShape
  <2>3. \A v \in SoftReferences(h.objects[s]) : Resolves(h, v)
    BY <1>1 DEF RegistriesName
  <2>4. DOMAIN soft = {1, 2} /\ soft[1] \in Values /\ soft[2] \in Values
    BY <2>1, <2>2
  <2> QED BY <2>3, <2>4 DEF SoftReferences
<1> QED BY <1>3, <1>4

LEMMA ActivatedNotLive ==
  ASSUME NEW h, LayoutInv(h), NEW black, NEW kind,
         NEW values, values = ActivatedValues(h, black, kind)
  PROVE  /\ values \subseteq Values
         /\ \A v \in values : is_object(v) /\ Resolves(h, v) /\ ~IsLive(h, black, checked_slot(h, v), kind)
<1> DEFINE E == {s \in Headers(h) : h.objects[s].kind = "Ephemeron"}
<1>1. {checked_slot(h, id) : id \in h.ephemerons} = E
  BY RegisteredEphemerons
<1>2. ASSUME NEW v \in values
      PROVE  \E s \in E : /\ v = h.objects[s].soft[2] /\ is_object(v)
                          /\ ~IsLive(h, black, checked_slot(h, v), kind)
  BY <1>1, <1>2 DEF ActivatedValues
<1>3. \A s \in E : h.objects[s].soft[2] \in Values
                   /\ (is_object(h.objects[s].soft[2]) => Resolves(h, h.objects[s].soft[2]))
  BY RegisteredEphemerons
<1> HIDE DEF E
<1> QED BY <1>2, <1>3

\* When no value is activated any more, live keys have live values.
LEMMA NothingActivated ==
  ASSUME NEW h, LayoutInv(h), NEW black, NEW kind, ActivatedValues(h, black, kind) = {},
         NEW live, live = {s \in Headers(h) : IsLive(h, black, s, kind)}
  PROVE  EphemeronsKept(h, live)
<1> SUFFICES ASSUME NEW s \in live, h.objects[s].kind = "Ephemeron",
                    is_object(h.objects[s].soft[1]), checked_slot(h, h.objects[s].soft[1]) \in live,
                    is_object(h.objects[s].soft[2])
             PROVE  checked_slot(h, h.objects[s].soft[2]) \in live
  BY DEF EphemeronsKept
<1>1. s \in {checked_slot(h, id) : id \in h.ephemerons}
  BY RegisteredEphemerons
<1>2. IsLive(h, black, s, kind) /\ IsLive(h, black, checked_slot(h, h.objects[s].soft[1]), kind)
  OBVIOUS
<1>3. IsLive(h, black, checked_slot(h, h.objects[s].soft[2]), kind)
  BY <1>1, <1>2 DEF ActivatedValues
<1>4. Resolves(h, h.objects[s].soft[2]) /\ h.objects[s].soft[2] \in Ids
  BY RegisteredEphemerons, ValueIsId
<1>5. checked_slot(h, h.objects[s].soft[2]) \in Headers(h)
  BY <1>4, ResolvedIsHeader DEF LayoutInv
<1> QED BY <1>3, <1>5

LEMMA ActivatedGrows ==
  ASSUME NEW h, LayoutInv(h), NEW kind, NEW black \in SUBSET Headers(h),
         NEW next, next = Activated(h, black, kind)
  PROVE  /\ next \in SUBSET Headers(h) /\ black \subseteq next /\ Scanned(h, next, kind) = next
         /\ ActivatedValues(h, black, kind) # {} => next # black
<1> DEFINE values == ActivatedValues(h, black, kind)
           grey == black \cup Enqueued(h, values, kind)
<1>1. Sound(h)
  BY DEF LayoutInv, Sound
<1>2. /\ values \subseteq Values
      /\ \A v \in values : is_object(v) /\ Resolves(h, v) /\ ~IsLive(h, black, checked_slot(h, v), kind)
  BY ActivatedNotLive
<1>3. next = drain_mark_worklist(h, grey, kind)
  BY DEF Activated
<1> HIDE DEF values
<1>4. grey \in SUBSET Headers(h)
  BY <1>1, <1>2, EnqueuedSlots
<1>5. \A v \in values : checked_slot(h, v) \in grey /\ checked_slot(h, v) \notin black
  BY <1>1, <1>2, EnqueuedSlots DEF IsLive
<1> HIDE DEF grey
<1>6. grey \subseteq next /\ next \in SUBSET Headers(h) /\ Scanned(h, next, kind) = next
  BY <1>1, <1>3, <1>4, DrainEnds
<1>7. black \subseteq grey
  BY DEF grey
<1> QED BY <1>5, <1>6, <1>7 DEF values

\* Marking does not leave C: neither by a reference nor by an ephemeron.
MarkingStaysIn(h, kind, C) ==
  /\ C \in SUBSET Headers(h)
  /\ \A B \in SUBSET C : /\ Scanned(h, B, kind) \subseteq C
                         /\ Enqueued(h, ActivatedValues(h, B, kind), kind) \subseteq C

LEMMA HeadersStay ==
  ASSUME NEW h, LayoutInv(h), NEW kind
  PROVE  MarkingStaysIn(h, kind, Headers(h))
<1>1. Sound(h)
  BY DEF LayoutInv, Sound
<1>2. \A B \in SUBSET Headers(h) : Scanned(h, B, kind) \subseteq Headers(h)
  BY <1>1, ScannedGrows
<1>3. ASSUME NEW B \in SUBSET Headers(h)
      PROVE  Enqueued(h, ActivatedValues(h, B, kind), kind) \subseteq Headers(h)
  <2> DEFINE values == ActivatedValues(h, B, kind)
  <2>1. values = ActivatedValues(h, B, kind)
    OBVIOUS
  <2> HIDE DEF values
  <2>2. values \subseteq Values
    BY <2>1, ActivatedNotLive
  <2>3. Enqueued(h, values, kind) \subseteq Headers(h)
    BY <1>1, <2>2, EnqueuedSlots
  <2> QED BY <2>3 DEF values
<1> QED BY <1>2, <1>3 DEF MarkingStaysIn

LEMMA FixpointStaysIn ==
  ASSUME NEW h, LayoutInv(h), NEW kind, NEW C, MarkingStaysIn(h, kind, C),
         NEW start \in SUBSET C, Scanned(h, start, kind) = start,
         NEW black, black = process_ephemeron_fixpoint(h, start, kind)
  PROVE  /\ start \subseteq black /\ black \in SUBSET C
         /\ Scanned(h, black, kind) = black
         /\ ActivatedValues(h, black, kind) = {}
<1> DEFINE X == Headers(h)
           P == {B \in SUBSET C : Scanned(h, B, kind) = B}
           Stop == {B \in SUBSET X : ActivatedValues(h, B, kind) = {}}
           F == [B \in SUBSET X |-> Activated(h, B, kind)]
           Unrolled(f) == [B \in SUBSET X |->
                             IF ActivatedValues(h, B, kind) = {} THEN B ELSE f[Activated(h, B, kind)]]
           pass == CHOOSE f : f = Unrolled(f)
<1>1. \A B \in SUBSET X : /\ F[B] \in SUBSET X /\ B \subseteq F[B] /\ (B \notin Stop => B # F[B])
                          /\ Scanned(h, F[B], kind) = F[B]
  BY ActivatedGrows
<1>11. ASSUME NEW B \in SUBSET C PROVE F[B] \in SUBSET C
  <2> DEFINE next == Activated(h, B, kind)
             grey == B \cup Enqueued(h, ActivatedValues(h, B, kind), kind)
  <2>1. Sound(h) /\ next = drain_mark_worklist(h, grey, kind) /\ F[B] = next
    BY DEF LayoutInv, Sound, Activated, MarkingStaysIn
  <2>2. C \in SUBSET Headers(h) /\ grey \in SUBSET C /\ \A A \in SUBSET C : Scanned(h, A, kind) \subseteq C
    BY DEF MarkingStaysIn
  <2> HIDE DEF next, grey, F
  <2>3. next \in SUBSET C
    BY <2>1, <2>2, DrainStaysIn
  <2> QED BY <2>1, <2>3
<1>12. P \subseteq SUBSET X
  BY DEF MarkingStaysIn
<1>2. \A f : Loops(f, SUBSET X, Stop, F) <=> f = Unrolled(f)
  <2>1. SUFFICES ASSUME NEW f
                 PROVE  [B \in SUBSET X |-> IF B \in Stop THEN B ELSE f[F[B]]] = Unrolled(f)
    BY DEF Loops
  <2>2. \A B \in SUBSET X : (IF B \in Stop THEN B ELSE f[F[B]]) = Unrolled(f)[B]
    OBVIOUS
  <2>3. Unrolled(f) = [B \in SUBSET X |-> Unrolled(f)[B]]
    OBVIOUS
  <2> HIDE DEF Unrolled, Stop, F
  <2> QED BY <2>2, <2>3
<1>3. black = pass[start]
  BY DEF process_ephemeron_fixpoint
<1>4. \E f : Loops(f, SUBSET X, Stop, F)
  <2>1. \A B \in SUBSET X : F[B] \in SUBSET X
    BY <1>1
  <2> HIDE DEF Stop, F
  <2> QED BY <2>1, LoopExists
<1>5. Loops(pass, SUBSET X, Stop, F)
  <2> HIDE DEF Stop, F, Unrolled
  <2> QED BY <1>2, <1>4
<1>6. IsFiniteSet(X)
  BY HeadersAreFinite DEF LayoutInv
<1>7. pass[start] \in P \cap Stop /\ start \subseteq pass[start]
  <2> DEFINE f == pass
  <2>1. Loops(f, SUBSET X, Stop, F)
    BY <1>5
  <2>2. start \in P
    OBVIOUS
  <2>3. Growing(X, Stop, F, P)
    <3>1. \A S \in P : F[S] \in SUBSET X /\ Scanned(h, F[S], kind) = F[S] /\ F[S] \in SUBSET C
      BY <1>1, <1>11, <1>12
    <3> HIDE DEF F, Stop
    <3>2. \A S \in P : F[S] \in P
      BY <3>1
    <3> HIDE DEF P
    <3> QED BY <1>1, <1>12, <3>2 DEF Growing
  <2> HIDE DEF f, Stop, F, X, P
  <2>4. Ends(f, Stop, P)
    BY <1>6, <2>1, <2>3, GrowingLoopEnds
  <2> QED BY <2>2, <2>4 DEF f, Ends
<1> QED BY <1>3, <1>7

LEMMA FixpointEnds ==
  ASSUME NEW h, LayoutInv(h), NEW kind, NEW start \in SUBSET Headers(h), Scanned(h, start, kind) = start,
         NEW black, black = process_ephemeron_fixpoint(h, start, kind)
  PROVE  /\ start \subseteq black /\ black \in SUBSET Headers(h)
         /\ Scanned(h, black, kind) = black
         /\ ActivatedValues(h, black, kind) = {}
BY HeadersStay, FixpointStaysIn

(***************************************************************************)
(* Overwriting: every object keeps its place and its name.                 *)
(***************************************************************************)
SamePlaces(h, g) ==
  /\ HeapIsTyped(g) /\ Headers(g) = Headers(h)
  /\ \A s \in Headers(h) : g.generations[s] = h.generations[s]
  /\ g.plan = h.plan /\ g.cursor = h.cursor

LEMMA SamePlacesResolve ==
  ASSUME NEW h, HeapIsTyped(h), NEW g, SamePlaces(h, g)
  PROVE  /\ \A v : /\ checked_slot(g, v) = checked_slot(h, v)
                   /\ Resolves(g, v) <=> Resolves(h, v)
                   /\ canonicalize_incremental_compaction_read(g, v) =
                        canonicalize_incremental_compaction_read(h, v)
         /\ \A s \in Headers(h) : IdAt(g, s) = IdAt(h, s)
         /\ \A i : Base(g, i) = Base(h, i) /\ Name(g, i) = Name(h, i)
                   /\ Source(g, i) = Source(h, i) /\ Destination(g, i) = Destination(h, i)
<1>1. Moved(g) = Moved(h) /\ g.plan = h.plan /\ g.cursor = h.cursor
  BY DEF Moved, SamePlaces
<1>2. \A v : Physical(g, v) <=> Physical(h, v)
  <2>1. \A k, v : HeapIsTyped(k) =>
          (Physical(k, v) <=> /\ slot_from(v) \in Headers(k) /\ generation_from(v) # 0
                              /\ k.generations[slot_from(v)] = generation_from(v))
    BY DEF Physical, Headers
  <2> QED BY <2>1 DEF SamePlaces
<1>3. \A v : checked_slot(g, v) = checked_slot(h, v)
  BY <1>1, <1>2 DEF checked_slot
<1> QED BY <1>1, <1>3 DEF SamePlaces, Resolves, canonicalize_incremental_compaction_read, IdAt,
                        Base, Name, Source, Destination

Overwrites(h, g) ==
  /\ SamePlaces(h, g) /\ RunsFollow(g) /\ Size(h) <= Size(g)
  /\ g.phase = "compacting" <=> h.phase = "compacting"
  /\ g.allocated = h.allocated
  /\ g.weak_refs = h.weak_refs /\ g.ephemerons = h.ephemerons /\ g.intern_table = h.intern_table
  /\ \A id \in g.remembered_set : Resolves(h, id)
  /\ g.phase # "marking" => g.worklist = {}
  /\ g.phase # "compacting" => g.shadow = None
  /\ g.phase = "compacting" => \A s \in Headers(h) : Width(g, s) = Width(h, s)
  /\ \A s \in Headers(h) :
       /\ g.objects[s].kind = h.objects[s].kind /\ g.objects[s].data = h.objects[s].data
       /\ g.objects[s].kind = "Str" => g.objects[s].text = h.objects[s].text
       /\ g.objects[s].kind = "Builder" => g.objects[s].length > 0
       /\ \A v \in SoftReferences(g.objects[s]) : Resolves(h, v)

LEMMA OverwritesKeep ==
  ASSUME NEW h, LayoutInv(h), NEW g, Overwrites(h, g)
  PROVE  LayoutInv(g)
<1>1. HeapIsTyped(h) /\ RunsFollow(h) /\ PhaseIsClean(h) /\ RegistriesName(h) /\ NamesAreUsed(h)
  BY DEF LayoutInv
<1>2. /\ HeapIsTyped(g) /\ RunsFollow(g) /\ Headers(g) = Headers(h) /\ SamePlaces(h, g)
      /\ g.plan = h.plan /\ g.cursor = h.cursor /\ (g.phase = "compacting" <=> h.phase = "compacting")
  BY DEF Overwrites, SamePlaces
<1>3. /\ \A v : checked_slot(g, v) = checked_slot(h, v) /\ (Resolves(g, v) <=> Resolves(h, v))
      /\ \A s \in Headers(h) : IdAt(g, s) = IdAt(h, s)
      /\ \A i : Base(g, i) = Base(h, i) /\ Name(g, i) = Name(h, i)
                /\ Source(g, i) = Source(h, i) /\ Destination(g, i) = Destination(h, i)
  BY <1>1, <1>2, SamePlacesResolve
<1>4. PhaseIsClean(g)
  <2>1. CASE h.phase = "compacting"
    <3>1. PlanIsCurrent(h)
      BY <1>1, <2>1 DEF PhaseIsClean
    <3>2. \A i \in DOMAIN h.plan : Base(h, i) \in Headers(h) /\ Width(g, Base(h, i)) = Width(h, Base(h, i))
      BY <1>2, <2>1, <3>1 DEF PlanIsCurrent, Overwrites
    <3>3. Size(h) \in Nat /\ Size(g) \in Nat /\ Size(h) <= Size(g)
      BY <1>1, <1>2, HeaderIsObject DEF Overwrites
    <3>4. \A i \in DOMAIN h.plan : Source(h, i) \in Int /\ Width(h, Base(h, i)) \in Nat
      BY <1>1, <3>2, PlanEntry, HeaderIsObject
    <3>5. PlanSlides(g)
      BY <1>2, <1>3, <3>1, <3>2, <3>3, <3>4 DEF PlanIsCurrent, PlanSlides
    <3>6. PlanIsCurrent(g)
      BY <1>2, <1>3, <3>1, <3>2, <3>5 DEF PlanIsCurrent
    <3>7. g.phase # "marking" => g.worklist = {}
      BY DEF Overwrites
    <3> QED BY <1>2, <2>1, <3>6, <3>7 DEF PhaseIsClean
  <2>2. CASE h.phase # "compacting"
    BY <1>1, <1>2, <2>2 DEF PhaseIsClean, Overwrites
  <2> QED BY <2>1, <2>2
<1>5. /\ \A kind : OfKind(g, kind) = OfKind(h, kind)
      /\ \A id \in h.intern_table : ObjectOf(g, id).text = ObjectOf(h, id).text
  <2>1. \A s \in Headers(h) : /\ g.objects[s].kind = h.objects[s].kind
                              /\ g.objects[s].kind = "Str" => g.objects[s].text = h.objects[s].text
    BY DEF Overwrites
  <2>2. \A kind : {s \in Headers(g) : g.objects[s].kind = kind} = {s \in Headers(h) : h.objects[s].kind = kind}
    BY <1>2, <2>1
  <2>3. \A kind : OfKind(g, kind) = OfKind(h, kind)
    BY <1>3, <2>2 DEF OfKind
  <2>4. ASSUME NEW id \in h.intern_table PROVE ObjectOf(g, id).text = ObjectOf(h, id).text
    <3>1. PICK s \in Headers(h) : h.objects[s].kind = "Str" /\ id = IdAt(h, s)
      BY <1>1 DEF RegistriesName, OfKind
    <3>2. checked_slot(h, id) = s /\ checked_slot(g, id) = s
      BY <1>1, <1>3, <3>1, IdOfBase
    <3> QED BY <2>1, <3>1, <3>2 DEF ObjectOf
  <2> QED BY <2>3, <2>4
<1>6. RegistriesName(g)
  <2>1. /\ g.weak_refs = h.weak_refs /\ g.ephemerons = h.ephemerons /\ g.intern_table = h.intern_table
        /\ \A s \in Headers(h) : \A v \in SoftReferences(g.objects[s]) : Resolves(h, v)
    BY DEF Overwrites
  <2>2. \A a, b \in h.intern_table : ObjectOf(h, a).text = ObjectOf(h, b).text => a = b
    BY <1>1 DEF RegistriesName
  <2>3. \A a, b \in g.intern_table : ObjectOf(g, a).text = ObjectOf(g, b).text => a = b
    BY <1>5, <2>1, <2>2
  <2>4. /\ g.weak_refs = OfKind(g, "WeakRef") /\ g.ephemerons = OfKind(g, "Ephemeron")
        /\ g.intern_table \subseteq OfKind(g, "Str")
    BY <1>1, <1>5, <2>1 DEF RegistriesName
  <2>5. \A s \in Headers(g) : \A v \in SoftReferences(g.objects[s]) : Resolves(g, v)
    BY <1>2, <1>3, <2>1
  <2>6. \A id \in g.remembered_set : Resolves(g, id)
    BY <1>3 DEF Overwrites
  <2> QED BY <2>3, <2>4, <2>5, <2>6 DEF RegistriesName
<1>7. NamesAreUsed(g)
  <2>1. \A s \in Headers(h) : /\ g.objects[s].data = h.objects[s].data
                              /\ g.objects[s].kind = "Builder" => g.objects[s].length > 0
    BY DEF Overwrites
  <2> QED BY <1>1, <1>2, <2>1 DEF NamesAreUsed, Overwrites
<1> QED BY <1>2, <1>4, <1>6, <1>7 DEF LayoutInv

LEMMA SameContentsAgree ==
  ASSUME NEW o, NEW q, SameContents(o, q)
  PROVE  /\ storage_slot_count(q) = storage_slot_count(o)
         /\ SoftReferences(q) = SoftReferences(o)
         /\ visit_reference_fields(q) = visit_reference_fields(o)
         /\ validate_descriptor_shape(o) => validate_descriptor_shape(q)
<1>1. /\ q.kind = o.kind /\ q.length = o.length /\ q.strong = o.strong
      /\ q.soft = o.soft /\ q.text = o.text
  BY DEF SameContents
<1>2. storage_slot_count(q) = storage_slot_count(o)
  BY <1>1 DEF storage_slot_count
<1>3. SoftReferences(q) = SoftReferences(o) /\ visit_reference_fields(q) = visit_reference_fields(o)
  BY <1>1 DEF SoftReferences, visit_reference_fields
<1>4. ReferenceMapShape(q) <=> ReferenceMapShape(o)
  BY <1>1 DEF ReferenceMapShape
<1>5. EphemeronAndBuilderShape(q) <=> EphemeronAndBuilderShape(o)
  BY <1>1 DEF EphemeronAndBuilderShape
<1>6. validate_descriptor_shape(o) => validate_descriptor_shape(q)
  BY <1>1, <1>4, <1>5 DEF validate_descriptor_shape
<1> QED BY <1>2, <1>3, <1>6

LEMMA RemarkedKeeps ==
  ASSUME NEW h, LayoutInv(h), NEW g, HeapIsTyped(g), Headers(g) = Headers(h), Size(g) = Size(h),
         \A s \in Headers(h) : SameContents(h.objects[s], g.objects[s]),
         g.generations = h.generations, g.plan = h.plan, g.cursor = h.cursor,
         g.phase = "compacting" <=> h.phase = "compacting",
         g.allocated = h.allocated, g.shadow = h.shadow,
         g.weak_refs = h.weak_refs, g.ephemerons = h.ephemerons, g.intern_table = h.intern_table,
         \A id \in g.remembered_set : Resolves(h, id), g.phase # "marking" => g.worklist = {}
  PROVE  /\ LayoutInv(g) /\ SamePlaces(h, g)
         /\ g.extra = h.extra /\ g.stress = h.stress => Carries(h, g)
<1>1. HeapIsTyped(h) /\ RunsFollow(h) /\ PhaseIsClean(h) /\ RegistriesName(h) /\ NamesAreUsed(h)
  BY DEF LayoutInv
<1>2. SamePlaces(h, g)
  BY DEF SamePlaces
<1>3. \A s \in Headers(h) : h.objects[s] \in Objects /\ g.objects[s] \in Objects
  BY <1>1, HeaderIsObject
<1>4. \A s \in Headers(h) : /\ Width(g, s) = Width(h, s)
                            /\ SoftReferences(g.objects[s]) = SoftReferences(h.objects[s])
                            /\ validate_descriptor_shape(h.objects[s]) => validate_descriptor_shape(g.objects[s])
  BY SameContentsAgree DEF Width
<1>5. RunsFollow(g)
  BY <1>1, <1>4 DEF RunsFollow
<1>6. \A s \in Headers(h) :
        /\ g.objects[s].kind = h.objects[s].kind /\ g.objects[s].data = h.objects[s].data
        /\ g.objects[s].text = h.objects[s].text /\ g.objects[s].length = h.objects[s].length
        /\ g.objects[s].strong = h.objects[s].strong
  BY DEF SameContents
<1>7. Overwrites(h, g)
  <2>1. \A s \in Headers(h) : g.objects[s].kind = "Builder" => g.objects[s].length > 0
    BY <1>1, <1>6 DEF NamesAreUsed
  <2>2. \A s \in Headers(h) : \A v \in SoftReferences(g.objects[s]) : Resolves(h, v)
    BY <1>1, <1>4 DEF RegistriesName
  <2>3. Size(h) <= Size(g)
    BY <1>1, HeaderIsObject
  <2>4. g.phase # "compacting" => g.shadow = None
    BY <1>1 DEF PhaseIsClean
  <2> QED BY <1>2, <1>4, <1>5, <1>6, <2>1, <2>2, <2>3, <2>4 DEF Overwrites
<1>8. LayoutInv(g)
  BY <1>7, OverwritesKeep
<1>9. ASSUME g.extra = h.extra, g.stress = h.stress PROVE Carries(h, g)
  <2>1. \A v : checked_slot(g, v) = checked_slot(h, v) /\ (Resolves(g, v) <=> Resolves(h, v))
    BY <1>1, <1>2, SamePlacesResolve
  <2>2. \A s \in Headers(h) : SameShape(h.objects[s], g.objects[s])
    BY <1>6 DEF SameShape
  <2>3. \A v \in Ids : Resolves(h, v) => checked_slot(h, v) \in Headers(h)
    BY <1>1, ResolvedIsHeader
  <2>4. \A v \in Ids : Resolves(h, v) => SameShape(ObjectOf(h, v), ObjectOf(g, v))
    BY <2>1, <2>2, <2>3 DEF ObjectOf
  <2>5. \A v \in Values : Becomes(h, v, g, v)
    BY <2>1, <2>4, ValueIsId DEF Becomes
  <2>6. \A i \in DOMAIN h.extra : h.extra[i] \in Values
    BY <1>1 DEF HeapIsTyped
  <2>7. \A id \in g.intern_table : ObjectOf(h, id).text = ObjectOf(g, id).text
    <3>1. \A id \in h.intern_table : id \in Ids /\ Resolves(h, id)
      BY <1>1, IdOfBase DEF RegistriesName, OfKind
    <3> QED BY <2>4, <3>1 DEF SameShape
  <2> QED BY <1>9, <2>5, <2>6, <2>7 DEF Carries
<1> QED BY <1>2, <1>8, <1>9

(***************************************************************************)
(* The heap with the marks of a finished marking.                          *)
(***************************************************************************)
MarkedAs(h, black, g) ==
  /\ LayoutInv(g) /\ SamePlaces(h, g) /\ Carries(h, g)
  /\ g.phase = h.phase /\ g.extra = h.extra /\ g.cells = h.cells
  /\ g.remembered_set = h.remembered_set /\ g.worklist = h.worklist
  /\ \A s \in Headers(h) : /\ SameContents(h.objects[s], g.objects[s])
                           /\ g.objects[s].age = h.objects[s].age
                           /\ g.objects[s].marked <=> s \in black \/ h.objects[s].marked

LEMMA BlackenedKeeps ==
  ASSUME NEW h, LayoutInv(h), NEW black \in SUBSET Headers(h), NEW g, g = Blackened(h, black)
  PROVE  MarkedAs(h, black, g)
<1>1. HeapIsTyped(h) /\ PhaseIsClean(h)
  BY DEF LayoutInv
<1>2. /\ DOMAIN h = HeapFields /\ Size(h) \in Nat /\ DOMAIN h.objects = 0 .. Size(h) - 1
      /\ Headers(h) \subseteq DOMAIN h.objects
  BY <1>1, HeaderIsObject DEF HeapIsTyped, Headers
<1>3. /\ DOMAIN g = HeapFields
      /\ g.objects = [s \in DOMAIN h.objects |-> IF s \in black THEN [h.objects[s] EXCEPT !.marked = TRUE]
                                                 ELSE h.objects[s]]
      /\ g.generations = h.generations /\ g.remembered_set = h.remembered_set
      /\ g.weak_refs = h.weak_refs /\ g.intern_table = h.intern_table /\ g.ephemerons = h.ephemerons
      /\ g.worklist = h.worklist /\ g.cells = h.cells /\ g.extra = h.extra /\ g.phase = h.phase
      /\ g.plan = h.plan /\ g.cursor = h.cursor /\ g.shadow = h.shadow
      /\ g.allocated = h.allocated /\ g.stress = h.stress
  BY <1>2 DEF Blackened, HeapFields
<1>4. ASSUME NEW s \in Headers(h)
      PROVE  /\ SameContents(h.objects[s], g.objects[s])
             /\ g.objects[s].age = h.objects[s].age
             /\ g.objects[s].marked <=> s \in black \/ h.objects[s].marked
  <2>1. h.objects[s] \in Objects /\ s \in DOMAIN h.objects
    BY <1>1, <1>2, HeaderIsObject
  <2>2. g.objects[s] = IF s \in black THEN [h.objects[s] EXCEPT !.marked = TRUE] ELSE h.objects[s]
    BY <1>3, <2>1
  <2>3. h.objects[s].marked \in BOOLEAN
    BY <2>1, ObjectFields
  <2> DEFINE o == h.objects[s]
             q == g.objects[s]
  <2> HIDE DEF o, q
  <2>4. o \in Objects /\ q = IF s \in black THEN [o EXCEPT !.marked = TRUE] ELSE o
    BY <2>1, <2>2 DEF o, q
  <2>5. SameContents(o, q) /\ q.age = o.age /\ (s \in black => q.marked = TRUE)
        /\ (s \notin black => q.marked = o.marked)
    BY <2>4 DEF SameContents, Objects
  <2>6. q.marked <=> s \in black \/ o.marked
    BY <2>3, <2>5 DEF o
  <2> QED BY <2>5, <2>6 DEF o, q
<1>5. ASSUME NEW s \in DOMAIN h.objects
      PROVE  g.objects[s] \in Objects \cup {None} /\ (g.objects[s] = None <=> h.objects[s] = None)
  <2>1. CASE s \in Headers(h)
    <3>1. g.objects[s] \in Objects /\ h.objects[s] # None
      BY <1>4, <2>1 DEF SameContents, Headers
    <3> QED BY <3>1, NoneAssumption
  <2>2. CASE s \notin Headers(h)
    BY <1>3, <2>2 DEF Headers
  <2> QED BY <2>1, <2>2
<1>6. Headers(g) = Headers(h)
  BY <1>3, <1>5 DEF Headers
<1>7. Size(g) = Size(h)
  BY <1>3 DEF Size
<1>8. HeapIsTyped(g)
  <2>1. g.objects \in [0 .. Size(h) - 1 -> Objects \cup {None}]
    BY <1>2, <1>3, <1>5
  <2> QED BY <1>1, <1>3, <1>7, <2>1 DEF HeapIsTyped
<1>9. g.phase # "marking" => g.worklist = {}
  BY <1>1, <1>3 DEF PhaseIsClean
<1>10. LayoutInv(g) /\ SamePlaces(h, g) /\ Carries(h, g)
  <2>1. \A id \in g.remembered_set : Resolves(h, id)
    BY <1>3 DEF LayoutInv, RegistriesName
  <2> QED BY <1>3, <1>4, <1>6, <1>7, <1>8, <1>9, <2>1, RemarkedKeeps
<1> QED BY <1>3, <1>4, <1>10 DEF MarkedAs

LEMMA LiveAsMarked ==
  ASSUME NEW h, LayoutInv(h), NEW black \in SUBSET Headers(h), NEW g, MarkedAs(h, black, g), NEW kind
  PROVE  \A s \in Headers(h) : IsLive(g, {}, s, kind) <=> IsLive(h, black, s, kind)
BY DEF MarkedAs, IsLive, is_old_slot

LEMMA RootsAreValues ==
  ASSUME NEW h, LayoutInv(h), NEW kind
  PROVE  MarkRoots(h, kind) \subseteq Values
<1>1. h.cells \in [Cells -> Values] /\ h.extra \in Seq(Values) /\ h.remembered_set \subseteq Ids
  BY DEF LayoutInv, HeapIsTyped
<1>2. RootValues(h) \subseteq Values
  BY <1>1 DEF RootValues
<1>3. ASSUME NEW id \in h.remembered_set PROVE visit_reference_fields(ObjectOf(h, id)) \subseteq Values
  <2>1. checked_slot(h, id) \in Headers(h)
    BY <1>1, ResolvedIsHeader DEF LayoutInv, RegistriesName
  <2>2. ObjectOf(h, id) \in Objects
    BY <2>1, HeaderIsObject DEF LayoutInv, ObjectOf
  <2> QED BY <2>2, FieldsAreValues
<1> QED BY <1>2, <1>3 DEF MarkRoots, RememberedReferences

\* A collection may move what is live now: ephemerons are kept whole, and
\* the operands of the running method are among the survivors.
\* Marking ends, and stays in every set that has the roots and that it does
\* not leave.
LEMMA MarkStaysIn ==
  ASSUME NEW h, LayoutInv(h), NEW kind, NEW C, MarkingStaysIn(h, kind, C),
         Enqueued(h, MarkRoots(h, kind), kind) \subseteq C, NEW g, g = Mark(h, kind)
  PROVE  \E black \in SUBSET C :
           /\ black \in SUBSET Headers(h) /\ MarkedAs(h, black, g)
           /\ Scanned(h, black, kind) = black
           /\ ActivatedValues(h, black, kind) = {}
           /\ \A v \in MarkRoots(h, kind) : is_object(v) /\ Resolves(h, v)
                => IsLive(h, black, checked_slot(h, v), kind)
<1> DEFINE roots == MarkRoots(h, kind)
           grey == Enqueued(h, roots, kind)
           drained == drain_mark_worklist(h, grey, kind)
           black == process_ephemeron_fixpoint(h, drained, kind)
<1>1. Sound(h)
  BY DEF LayoutInv, Sound
<1>2. roots \subseteq Values
  BY RootsAreValues
<1>3. g = Blackened(h, black)
  BY DEF Mark
<1>4. black = process_ephemeron_fixpoint(h, drained, kind)
  OBVIOUS
<1>5. drained = drain_mark_worklist(h, grey, kind)
  OBVIOUS
<1>6. grey = Enqueued(h, roots, kind) /\ roots = MarkRoots(h, kind)
  OBVIOUS
<1> HIDE DEF black, drained, grey, roots
<1>7. C \in SUBSET Headers(h) /\ grey \in SUBSET C
  BY <1>6 DEF MarkingStaysIn
<1>8. grey \subseteq drained /\ drained \in SUBSET C /\ Scanned(h, drained, kind) = drained
  BY <1>1, <1>5, <1>7, DrainStaysIn DEF MarkingStaysIn
<1>9. /\ drained \subseteq black /\ black \in SUBSET C /\ black \in SUBSET Headers(h)
      /\ Scanned(h, black, kind) = black /\ ActivatedValues(h, black, kind) = {}
  <2>1. drained \subseteq black /\ black \in SUBSET C
        /\ Scanned(h, black, kind) = black /\ ActivatedValues(h, black, kind) = {}
    BY <1>4, <1>8, FixpointStaysIn
  <2> QED BY <1>7, <2>1
<1>10. MarkedAs(h, black, g)
  BY <1>3, <1>9, BlackenedKeeps
<1>11. ASSUME NEW v \in roots, is_object(v), Resolves(h, v)
       PROVE  IsLive(h, black, checked_slot(h, v), kind)
  <2>1. checked_slot(h, v) \in grey \/ IsLive(h, black, checked_slot(h, v), kind)
    BY <1>1, <1>2, <1>6, <1>11, EnqueuedSlots
  <2> QED BY <1>8, <1>9, <2>1 DEF IsLive
<1> QED BY <1>6, <1>9, <1>10, <1>11

LEMMA MarkEnds ==
  ASSUME NEW h, LayoutInv(h), NEW kind, NEW g, g = Mark(h, kind)
  PROVE  \E black \in SUBSET Headers(h) :
           /\ MarkedAs(h, black, g)
           /\ Scanned(h, black, kind) = black
           /\ ActivatedValues(h, black, kind) = {}
           /\ \A v \in MarkRoots(h, kind) : is_object(v) /\ Resolves(h, v)
                => IsLive(h, black, checked_slot(h, v), kind)
<1>1. MarkingStaysIn(h, kind, Headers(h))
  BY HeadersStay
<1>2. Enqueued(h, MarkRoots(h, kind), kind) \subseteq Headers(h)
  <2> DEFINE roots == MarkRoots(h, kind)
  <2>1. roots \subseteq Values /\ Sound(h)
    BY RootsAreValues DEF LayoutInv, Sound
  <2> HIDE DEF roots
  <2>2. Enqueued(h, roots, kind) \subseteq Headers(h)
    BY <2>1, EnqueuedSlots
  <2> QED BY <2>2 DEF roots
<1> QED BY <1>1, <1>2, MarkStaysIn

LEMMA MarkReady ==
  ASSUME NEW h, LayoutInv(h), NEW kind, NEW g, g = Mark(h, kind),
         NEW live, live = {s \in Headers(g) : IsLive(g, {}, s, kind)}
  PROVE  /\ LayoutInv(g) /\ Carries(h, g) /\ g.phase = h.phase /\ g.extra = h.extra
         /\ EphemeronsKept(g, live) /\ OperandsMove(g, live)
<1>1. PICK black \in SUBSET Headers(h) :
           /\ MarkedAs(h, black, g)
           /\ ActivatedValues(h, black, kind) = {}
           /\ \A v \in MarkRoots(h, kind) : is_object(v) /\ Resolves(h, v)
                => IsLive(h, black, checked_slot(h, v), kind)
  BY MarkEnds
<1>2. /\ LayoutInv(g) /\ Carries(h, g) /\ g.phase = h.phase /\ g.extra = h.extra /\ SamePlaces(h, g)
      /\ \A s \in Headers(h) : SameContents(h.objects[s], g.objects[s])
  BY <1>1 DEF MarkedAs
<1>3. live = {s \in Headers(h) : IsLive(h, black, s, kind)}
  BY <1>1, <1>2, LiveAsMarked DEF SamePlaces
<1>4. \A v : checked_slot(g, v) = checked_slot(h, v) /\ (Resolves(g, v) <=> Resolves(h, v))
  BY <1>2, SamePlacesResolve DEF LayoutInv
<1>5. EphemeronsKept(h, live)
  BY <1>1, <1>3, NothingActivated
<1>6. EphemeronsKept(g, live)
  <2>1. \A s \in live : g.objects[s].kind = h.objects[s].kind /\ g.objects[s].soft = h.objects[s].soft
    BY <1>2, <1>3 DEF SameContents
  <2> QED BY <1>4, <1>5, <2>1 DEF EphemeronsKept
<1>7. OperandsMove(g, live)
  <2> SUFFICES ASSUME NEW i \in DOMAIN g.extra, is_object(g.extra[i]), Resolves(g, g.extra[i])
               PROVE  checked_slot(g, g.extra[i]) \in live
    BY DEF OperandsMove
  <2>1. g.extra[i] \in MarkRoots(h, kind) /\ g.extra[i] \in Values
    BY <1>2 DEF MarkRoots, RootValues, LayoutInv, HeapIsTyped
  <2>2. IsLive(h, black, checked_slot(h, g.extra[i]), kind)
    BY <1>1, <1>4, <2>1
  <2>3. g.extra[i] \in Ids
    BY <2>1, ValueIsId
  <2>4. checked_slot(h, g.extra[i]) \in Headers(h)
    BY <1>4, <2>3, ResolvedIsHeader DEF LayoutInv
  <2> QED BY <1>3, <1>4, <2>2, <2>4
<1> QED BY <1>2, <1>6, <1>7

(***************************************************************************)
(* Sliding.                                                                *)
(***************************************************************************)

\* The cursor of Destinations after each slot.
CursorIs(next, objs, live, n) ==
  next = [s \in 0 .. n |->
            IF s = 0 THEN 0
            ELSE next[s - 1] + (IF s - 1 \in live THEN storage_slot_count(objs[s - 1]) ELSE 0)]

LEMMA CursorExists ==
  ASSUME NEW objs, NEW live, NEW n \in Nat
  PROVE  \E next : CursorIs(next, objs, live, n)
<1> DEFINE w(s) == IF s \in live THEN storage_slot_count(objs[s]) ELSE 0
           Unrolled(k, f) == [s \in 0 .. k |-> IF s = 0 THEN 0 ELSE f[s - 1] + w(s - 1)]
           T == {k \in 0 .. n : \E f : f = Unrolled(k, f)}
<1>1. 0 \in T
  <2> DEFINE f == [s \in 0 .. 0 |-> 0]
  <2>1. f = Unrolled(0, f)
    OBVIOUS
  <2> HIDE DEF f, Unrolled
  <2> QED BY <2>1
<1>2. ASSUME NEW k \in 0 .. n, k < n, k \in T PROVE k + 1 \in T
  <2>1. PICK f : f = Unrolled(k, f)
    BY <1>2
  <2> DEFINE g == [s \in 0 .. k + 1 |-> IF s = k + 1 THEN f[k] + w(k) ELSE f[s]]
  <2> HIDE DEF w
  <2>2. \A s \in 0 .. k : g[s] = f[s]
    OBVIOUS
  <2>3. \A s \in 0 .. k + 1 : g[s] = IF s = 0 THEN 0 ELSE g[s - 1] + w(s - 1)
    BY <2>1, <2>2
  <2>4. g = Unrolled(k + 1, g)
    <3>1. g = [s \in 0 .. k + 1 |-> g[s]]
      OBVIOUS
    <3> HIDE DEF g
    <3> QED BY <2>3, <3>1
  <2> HIDE DEF g
  <2> QED BY <1>2, <2>4
<1>3. n \in T
  <2> HIDE DEF T
  <2> QED BY <1>1, <1>2, CountingUp
<1>4. PICK f : f = Unrolled(n, f)
  BY <1>3
<1>5. CursorIs(f, objs, live, n)
  BY <1>4 DEF CursorIs
<1> QED BY <1>5

LEMMA CursorSteps ==
  ASSUME NEW objs, NEW live, NEW n \in Nat, NEW next, CursorIs(next, objs, live, n)
  PROVE  /\ next[0] = 0
         /\ \A s \in 0 .. n : s < n =>
              next[s + 1] = next[s] + (IF s \in live THEN storage_slot_count(objs[s]) ELSE 0)
<1>1. \A s \in 0 .. n : next[s] = IF s = 0 THEN 0
        ELSE next[s - 1] + (IF s - 1 \in live THEN storage_slot_count(objs[s - 1]) ELSE 0)
  BY DEF CursorIs
<1>2. next[0] = 0
  BY <1>1
<1>3. ASSUME NEW s \in 0 .. n, s < n
      PROVE  next[s + 1] = next[s] + (IF s \in live THEN storage_slot_count(objs[s]) ELSE 0)
  <2> DEFINE t == s + 1
  <2>1. t \in 0 .. n /\ t # 0 /\ t - 1 = s
    BY <1>3
  <2>2. next[t] = next[t - 1] + (IF t - 1 \in live THEN storage_slot_count(objs[t - 1]) ELSE 0)
    BY <1>1, <2>1
  <2> QED BY <2>1, <2>2
<1> QED BY <1>2, <1>3

\* The cursor never passes the slot that it is read at, and two survivors
\* never overlap.
LEMMA CursorBounds ==
  ASSUME NEW h, HeapIsTyped(h), RunsFollow(h), NEW live, live \subseteq Headers(h),
         NEW next, CursorIs(next, h.objects, live, Size(h))
  PROVE  \A s \in 0 .. Size(h) :
           /\ next[s] \in Nat
           /\ \A t \in 0 .. s : t < s /\ t \in live => next[t] + Width(h, t) <= next[s]
           /\ \A k \in Nat : s <= k /\ (\A t \in live : t < s => t + Width(h, t) <= k) => next[s] <= k
<1> DEFINE n == Size(h)
           Far(s, k) == \A t \in live : t < s => t + Width(h, t) <= k
           Good(s) == /\ next[s] \in Nat
                      /\ \A t \in 0 .. s : t < s /\ t \in live => next[t] + Width(h, t) <= next[s]
                      /\ \A t \in 0 .. s : next[t] \in Nat /\ next[t] <= next[s]
                      /\ \A k \in Nat : s <= k /\ Far(s, k) => next[s] <= k
           T == {s \in 0 .. n : Good(s)}
<1>1. n \in Nat /\ \A s \in live : s \in 0 .. n - 1 /\ Width(h, s) \in Nat \ {0}
  BY HeaderIsObject
<1>2. /\ next[0] = 0
      /\ \A s \in 0 .. n : s < n => next[s + 1] = next[s] + (IF s \in live THEN Width(h, s) ELSE 0)
  BY <1>1, CursorSteps DEF Width
<1>3. 0 \in T
  BY <1>1, <1>2
<1>4. ASSUME NEW s \in 0 .. n, s < n, s \in T PROVE s + 1 \in T
  <2>1. Good(s)
    BY <1>4
  <2>2. next[s + 1] = next[s] + (IF s \in live THEN Width(h, s) ELSE 0)
    BY <1>2, <1>4
  <2>3. next[s] \in Nat /\ next[s + 1] \in Nat /\ next[s] <= next[s + 1]
    BY <1>1, <2>1, <2>2
  <2>4. ASSUME NEW t \in 0 .. s + 1 PROVE next[t] \in Nat /\ next[t] <= next[s + 1]
    BY <1>1, <2>1, <2>2, <2>3
  <2>5. ASSUME NEW t \in 0 .. s + 1, t < s + 1, t \in live PROVE next[t] + Width(h, t) <= next[s + 1]
    <3>1. CASE t = s
      BY <2>2, <2>3, <2>5, <3>1, <1>1
    <3>2. CASE t < s
      <4>1. next[t] + Width(h, t) <= next[s] /\ next[t] \in Nat /\ Width(h, t) \in Nat
        BY <1>1, <2>1, <2>5, <3>2
      <4> QED BY <2>3, <4>1
    <3> QED BY <2>5, <3>1, <3>2
  <2>6. ASSUME NEW k \in Nat, s + 1 <= k, Far(s + 1, k) PROVE next[s + 1] <= k
    <3>1. CASE s \in live
      <4>1. Far(s, s)
        <5> SUFFICES ASSUME NEW t \in live, t < s PROVE t + Width(h, t) <= s
          OBVIOUS
        <5> QED BY <3>1 DEF RunsFollow
      <4>2. next[s] <= s
        BY <2>1, <4>1
      <4>3. s + Width(h, s) <= k
        BY <2>6, <3>1
      <4> QED BY <1>1, <2>2, <2>3, <3>1, <4>2, <4>3
    <3>2. CASE s \notin live
      <4>1. Far(s, k) /\ s <= k
        <5>1. \A t \in live : t \in Int
          BY <1>1
        <5> QED BY <2>6, <5>1
      <4>2. next[s] <= k
        BY <2>1, <4>1
      <4> QED BY <2>2, <2>3, <3>2, <4>2
    <3> QED BY <3>1, <3>2
  <2>7. Good(s + 1)
    <3> HIDE DEF Far
    <3> QED BY <2>3, <2>4, <2>5, <2>6
  <2>8. s + 1 \in 0 .. n
    BY <1>1, <1>4
  <2> HIDE DEF Good
  <2> QED BY <2>7, <2>8
<1>5. \A s \in 0 .. n : s \in T
  <2> HIDE DEF T
  <2> QED BY <1>1, <1>3, <1>4, CountingUp
<1> QED BY <1>5

\* Where a slide puts the survivors.
Slides(h, live, to) ==
  /\ DOMAIN to = live
  /\ \A s \in live : to[s] \in Nat /\ to[s] <= s
  /\ \A s, t \in live : s < t => to[s] + Width(h, s) <= to[t]

LEMMA DestinationsSlide ==
  ASSUME NEW h, HeapIsTyped(h), RunsFollow(h), NEW live, live \subseteq Headers(h),
         NEW to, to = Destinations(h.objects, live)
  PROVE  Slides(h, live, to)
<1> DEFINE n == Cardinality(DOMAIN h.objects)
           Unrolled(f) == [s \in 0 .. n |->
             IF s = 0 THEN 0
             ELSE f[s - 1] + (IF s - 1 \in live THEN storage_slot_count(h.objects[s - 1]) ELSE 0)]
           next == CHOOSE f : f = Unrolled(f)
<1>1. n = Size(h) /\ n \in Nat
  BY HeaderIsObject DEF Size
<1>2. to = [s \in live |-> next[s]]
  BY DEF Destinations
<1>3. \A f : CursorIs(f, h.objects, live, n) <=> f = Unrolled(f)
  BY DEF CursorIs
<1>4. CursorIs(next, h.objects, live, n)
  <2>1. \E f : CursorIs(f, h.objects, live, n)
    BY <1>1, CursorExists
  <2> HIDE DEF n, Unrolled
  <2> QED BY <1>3, <2>1
<1> DEFINE f == next
<1>5. CursorIs(f, h.objects, live, Size(h)) /\ to = [s \in live |-> f[s]]
  BY <1>1, <1>2, <1>4
<1> HIDE DEF f, n
<1>6. \A s \in 0 .. Size(h) :
        /\ f[s] \in Nat
        /\ \A t \in 0 .. s : t < s /\ t \in live => f[t] + Width(h, t) <= f[s]
        /\ \A k \in Nat : s <= k /\ (\A t \in live : t < s => t + Width(h, t) <= k) => f[s] <= k
  BY <1>5, CursorBounds
<1>7. Size(h) \in Nat /\ \A s \in live : s \in 0 .. Size(h) - 1
  BY HeaderIsObject
<1>8. ASSUME NEW s \in live PROVE to[s] \in Nat /\ to[s] <= s
  <2>1. s \in 0 .. Size(h) /\ s \in Nat
    BY <1>7
  <2>2. \A t \in live : t < s => t + Width(h, t) <= s
    BY DEF RunsFollow
  <2> QED BY <1>5, <1>6, <2>1, <2>2
<1>9. ASSUME NEW s \in live, NEW t \in live, s < t PROVE to[s] + Width(h, s) <= to[t]
  <2>1. t \in 0 .. Size(h) /\ s \in 0 .. t
    BY <1>7, <1>9
  <2> QED BY <1>5, <1>6, <1>9, <2>1
<1> QED BY <1>5, <1>8, <1>9 DEF Slides

\* The generations after a slide.
Minted(h, live, to, mg) ==
  /\ mg \in [0 .. Size(h) - 1 -> Nat]
  /\ \A s \in live : /\ to[s] \in 0 .. Size(h) - 1 /\ to[s] + Width(h, s) <= Size(h)
                     /\ mg[to[s]] > 0 /\ mg[to[s]] \in Nat
                     /\ to[s] = s => mg[to[s]] = h.generations[s]
  /\ \A s, t \in live : s # t => to[s] # to[t]
  /\ \A s, t \in live : s # t /\ to[s] = t => mg[to[s]] = h.generations[t] + 1

LEMMA MovedGenerationsAre ==
  ASSUME NEW h, HeapIsTyped(h), RunsFollow(h), NEW live, live \subseteq Headers(h),
         NEW to, Slides(h, live, to), NEW mg, mg = MovedGenerations(h.generations, to)
  PROVE  Minted(h, live, to, mg)
<1>1. /\ Size(h) \in Nat /\ DOMAIN h.generations = 0 .. Size(h) - 1
      /\ \A t \in 0 .. Size(h) - 1 : h.generations[t] \in Nat
      /\ \A s \in live : /\ s \in 0 .. Size(h) - 1 /\ Width(h, s) \in Nat \ {0}
                         /\ h.generations[s] > 0 /\ s + Width(h, s) <= Size(h)
  BY HeaderIsObject DEF HeapIsTyped, RunsFollow
<1>2. DOMAIN to = live /\ (\A s \in live : to[s] \in Nat /\ to[s] <= s)
      /\ \A s, t \in live : s < t => to[s] + Width(h, s) <= to[t]
  BY DEF Slides
<1>3. /\ DOMAIN mg = 0 .. Size(h) - 1
      /\ \A t \in 0 .. Size(h) - 1 : mg[t] = IF \E s \in live : to[s] = t /\ s # t
                                             THEN h.generations[t] + 1 ELSE h.generations[t]
      /\ mg = [t \in DOMAIN mg |-> mg[t]]
  BY <1>1, <1>2 DEF MovedGenerations, generation_for_new_base
<1>4. \A s \in live : to[s] \in 0 .. Size(h) - 1 /\ to[s] + Width(h, s) <= Size(h)
  BY <1>1, <1>2
<1>5. ASSUME NEW s \in live, NEW t \in live, s # t PROVE to[s] # to[t]
  <2>1. s < t \/ t < s
    BY <1>1, <1>5
  <2> QED BY <1>1, <1>2, <2>1
<1>6. ASSUME NEW s \in live
      PROVE  /\ mg[to[s]] > 0 /\ mg[to[s]] \in Nat
             /\ to[s] = s => mg[to[s]] = h.generations[s]
  <2>1. CASE to[s] = s
    <3>1. ~ \E t \in live : to[t] = s /\ t # s
      BY <1>5, <2>1
    <3> QED BY <1>1, <1>3, <1>4, <2>1, <3>1
  <2>2. CASE to[s] # s
    <3>1. mg[to[s]] = h.generations[to[s]] + 1
      BY <1>3, <1>4, <2>2
    <3> QED BY <1>1, <1>4, <2>2, <3>1
  <2> QED BY <2>1, <2>2
<1>7. \A s, t \in live : s # t /\ to[s] = t => mg[to[s]] = h.generations[t] + 1
  BY <1>3, <1>4
<1>8. mg \in [0 .. Size(h) - 1 -> Nat]
  <2>1. \A t \in 0 .. Size(h) - 1 : mg[t] \in Nat
    BY <1>1, <1>3
  <2> QED BY <1>3, <2>1
<1> QED BY <1>4, <1>5, <1>6, <1>7, <1>8 DEF Minted

LEMMA SurvivorKeeps ==
  ASSUME NEW o \in Objects
  PROVE  /\ SameContents(o, Survivor(o))
         /\ Survivor(o).age = "Old" /\ Survivor(o).marked = FALSE
BY DEF Survivor, SameContents, Objects

LEMMA SlideMoves ==
  ASSUME NEW h, HeapIsTyped(h), RunsFollow(h), NEW live, live \subseteq Headers(h),
         NEW to, to = Destinations(h.objects, live), NEW c, c = compact_live_objects(h, live)
  PROVE  /\ Moves(h, to, Size(h), c.objects, c.generations)
         /\ c.forwarding = ForwardingOf(to, c.generations)
         /\ Slides(h, live, to) /\ c.generations = MovedGenerations(h.generations, to)
<1> DEFINE mg == MovedGenerations(h.generations, to)
           at(t) == CHOOSE s \in live : to[s] = t
<1>1. Slides(h, live, to)
  BY DestinationsSlide
<1>0. mg = MovedGenerations(h.generations, to)
  OBVIOUS
<1> HIDE DEF mg
<1>2. /\ mg \in [0 .. Size(h) - 1 -> Nat]
      /\ \A s \in live : /\ to[s] \in 0 .. Size(h) - 1 /\ to[s] + Width(h, s) <= Size(h)
                         /\ mg[to[s]] > 0
      /\ \A s, t \in live : s # t => to[s] # to[t]
  <2>1. Minted(h, live, to, mg)
    BY <1>0, <1>1, MovedGenerationsAre
  <2> QED BY <2>1 DEF Minted
<1>3. /\ c.generations = mg
      /\ c.objects = [t \in DOMAIN h.objects |->
                        IF \E s \in live : to[s] = t THEN Survivor(h.objects[at(t)]) ELSE None]
      /\ c.forwarding = [s \in live |-> make_object_id(to[s], mg[to[s]])]
  BY DEF compact_live_objects, mg
<1>4. Size(h) \in Nat /\ DOMAIN h.objects = 0 .. Size(h) - 1
      /\ \A s \in live : s \in 0 .. Size(h) - 1 /\ h.objects[s] \in Objects /\ Width(h, s) \in Nat \ {0}
  BY HeaderIsObject
<1>5. DOMAIN to = live
  BY <1>1 DEF Slides
<1>6. ASSUME NEW s \in live PROVE SameContents(h.objects[s], c.objects[to[s]])
  <2>1. at(to[s]) = s
    BY <1>2
  <2> HIDE DEF at
  <2>2. to[s] \in DOMAIN h.objects /\ \E r \in live : to[r] = to[s]
    BY <1>2, <1>4
  <2>3. c.objects[to[s]] = Survivor(h.objects[at(to[s])])
    BY <1>3, <2>2
  <2> QED BY <1>4, <2>1, <2>3, SurvivorKeeps
<1>7. \A t \in 0 .. Size(h) - 1 : c.objects[t] # None => \E s \in live : to[s] = t
  BY <1>3, <1>4
<1>8. c.objects \in [0 .. Size(h) - 1 -> Objects \cup {None}]
  <2>1. ASSUME NEW t \in 0 .. Size(h) - 1 PROVE c.objects[t] \in Objects \cup {None}
    <3>1. CASE \E s \in live : to[s] = t
      <4>1. PICK s \in live : to[s] = t
        BY <3>1
      <4> QED BY <1>6, <4>1 DEF SameContents
    <3>2. CASE ~ \E s \in live : to[s] = t
      BY <1>7, <3>2
    <3> QED BY <3>1, <3>2
  <2>2. DOMAIN c.objects = 0 .. Size(h) - 1 /\ c.objects = [t \in DOMAIN c.objects |-> c.objects[t]]
    BY <1>3, <1>4
  <2> QED BY <2>1, <2>2
<1>9. \A s, t \in live : s # t => to[s] + Width(h, s) <= to[t] \/ to[t] + Width(h, t) <= to[s]
  <2>1. \A s, t \in live : s # t => s < t \/ t < s
    BY <1>4
  <2> QED BY <1>1, <2>1 DEF Slides
<1>10. Moves(h, to, Size(h), c.objects, c.generations)
  BY <1>2, <1>3, <1>4, <1>5, <1>6, <1>7, <1>8, <1>9 DEF Moves
<1> QED BY <1>1, <1>3, <1>5, <1>10 DEF ForwardingOf, mg

LEMMA RememberingKeeps ==
  ASSUME NEW h, LayoutInv(h), NEW ids, ids \subseteq Ids, \A id \in ids : Resolves(h, id),
         NEW g, g = [h EXCEPT !.remembered_set = ids]
  PROVE  LayoutInv(g) /\ Carries(h, g) /\ SamePlaces(h, g) /\ g.objects = h.objects
<1>1. HeapIsTyped(h) /\ PhaseIsClean(h)
  BY DEF LayoutInv
<1>2. DOMAIN h = HeapFields
  BY <1>1 DEF HeapIsTyped
<1>3. /\ DOMAIN g = HeapFields /\ g.remembered_set = ids
      /\ g.objects = h.objects /\ g.generations = h.generations
      /\ g.weak_refs = h.weak_refs /\ g.intern_table = h.intern_table /\ g.ephemerons = h.ephemerons
      /\ g.worklist = h.worklist /\ g.cells = h.cells /\ g.extra = h.extra /\ g.phase = h.phase
      /\ g.plan = h.plan /\ g.cursor = h.cursor /\ g.shadow = h.shadow
      /\ g.allocated = h.allocated /\ g.stress = h.stress
  BY <1>2 DEF HeapFields
<1>4. Size(g) = Size(h) /\ Headers(g) = Headers(h)
  BY <1>3 DEF Size, Headers
<1>5. HeapIsTyped(g)
  BY <1>1, <1>3, <1>4 DEF HeapIsTyped
<1>6. \A s \in Headers(h) : SameContents(h.objects[s], g.objects[s])
  BY <1>1, <1>3, HeaderIsObject DEF SameContents
<1>7. g.phase # "marking" => g.worklist = {}
  BY <1>1, <1>3 DEF PhaseIsClean
<1> QED BY <1>3, <1>4, <1>5, <1>6, <1>7, RemarkedKeeps

LEMMA PruneKeeps ==
  ASSUME NEW h, LayoutInv(h), NEW g, g = prune_remembered_set(h)
  PROVE  LayoutInv(g) /\ Carries(h, g) /\ SamePlaces(h, g) /\ g.objects = h.objects
<1> DEFINE ids == {IdAt(h, s) : s \in {t \in Headers(h) : is_old_slot(h, t) /\ HasYoungReference(h, t)}}
<1>1. ids \subseteq Ids /\ \A id \in ids : Resolves(h, id)
  BY IdOfBase DEF LayoutInv
<1>2. g = [h EXCEPT !.remembered_set = ids]
  BY DEF prune_remembered_set
<1> HIDE DEF ids
<1> QED BY <1>1, <1>2, RememberingKeeps

LEMMA CarriesOn ==
  ASSUME NEW h, NEW g, NEW k, LayoutInv(h), LayoutInv(g), Carries(h, g), Carries(g, k)
  PROVE  Carries(h, k)
<1>1. h.extra \in Seq(Values) /\ g.extra \in Seq(Values)
  BY DEF LayoutInv, HeapIsTyped
<1>2. DOMAIN g.extra = DOMAIN h.extra
  BY <1>1 DEF Carries
<1>3. ASSUME NEW i \in DOMAIN h.extra PROVE Becomes(h, h.extra[i], k, k.extra[i])
  <2>1. Becomes(h, h.extra[i], g, g.extra[i]) /\ Becomes(g, g.extra[i], k, k.extra[i])
    BY <1>2 DEF Carries
  <2> QED BY <2>1 DEF Becomes, SameShape
<1>4. \A id \in k.intern_table : \E old \in h.intern_table : ObjectOf(h, old).text = ObjectOf(k, id).text
  <2> SUFFICES ASSUME NEW id \in k.intern_table
               PROVE  \E old \in h.intern_table : ObjectOf(h, old).text = ObjectOf(k, id).text
    OBVIOUS
  <2>1. PICK mid \in g.intern_table : ObjectOf(g, mid).text = ObjectOf(k, id).text
    BY DEF Carries
  <2>2. PICK old \in h.intern_table : ObjectOf(h, old).text = ObjectOf(g, mid).text
    BY DEF Carries
  <2> QED BY <2>1, <2>2
<1> QED BY <1>3, <1>4 DEF Carries

LEMMA EvacuateKeeps ==
  ASSUME NEW h, LayoutInv(h), h.phase # "compacting", NEW kind,
         NEW live, live = {s \in Headers(h) : IsLive(h, {}, s, kind)},
         EphemeronsKept(h, live), OperandsMove(h, live),
         NEW g, g = Evacuate(h, kind)
  PROVE  LayoutInv(g) /\ Carries(h, g) /\ g.phase = h.phase /\ (h.worklist = {} => g.worklist = {})
<1> DEFINE c == compact_live_objects(h, live)
           to == Destinations(h.objects, live)
           moved == InstallMovement(h, c.objects, c.generations, c.forwarding)
<1>1. g = prune_remembered_set(moved)
  BY DEF Evacuate
<1>2. HeapIsTyped(h) /\ RunsFollow(h) /\ live \subseteq Headers(h)
  BY DEF LayoutInv
<1>3. c = compact_live_objects(h, live) /\ to = Destinations(h.objects, live)
      /\ moved = InstallMovement(h, c.objects, c.generations, c.forwarding)
  OBVIOUS
<1> HIDE DEF c, to, moved
<1>4. /\ Moves(h, to, Size(h), c.objects, c.generations)
      /\ c.forwarding = ForwardingOf(to, c.generations) /\ Slides(h, live, to)
  BY <1>2, <1>3, SlideMoves
<1>5. EphemeronsKept(h, DOMAIN to) /\ OperandsMove(h, DOMAIN to)
  BY <1>4 DEF Slides
<1> DEFINE mo == c.objects
           mg == c.generations
<1>6. moved = InstallMovement(h, mo, mg, ForwardingOf(to, mg)) /\ Moves(h, to, Size(h), mo, mg)
  BY <1>3, <1>4
<1> HIDE DEF mo, mg
<1>7. LayoutInv(moved) /\ Carries(h, moved) /\ moved.phase = h.phase
  BY <1>5, <1>6, MovementKeeps
<1>8. h.worklist = {} => moved.worklist = {}
  <2> DEFINE f == ForwardingOf(to, mg)
  <2>1. DOMAIN h = HeapFields /\ moved = InstallMovement(h, mo, mg, f)
    BY <1>2, <1>6 DEF HeapIsTyped
  <2> HIDE DEF f
  <2>2. InstalledAs(h, mo, mg, f, moved)
    BY <2>1, Installed
  <2>3. moved.worklist = RewrittenRegistry(h, f, h.worklist)
    BY <2>2 DEF InstalledAs
  <2> QED BY <2>3 DEF RewrittenRegistry
<1>9. LayoutInv(g) /\ Carries(moved, g)
  BY <1>1, <1>7, PruneKeeps
<1>10. g.phase = moved.phase /\ g.worklist = moved.worklist
  <2>1. DOMAIN moved = HeapFields
    BY <1>7 DEF LayoutInv, HeapIsTyped
  <2> QED BY <1>1, <2>1 DEF prune_remembered_set, HeapFields
<1> QED BY <1>7, <1>8, <1>9, <1>10, CarriesOn

(***************************************************************************)
(* The atomic collections and the final pause of incremental marking.      *)
(***************************************************************************)
SameButPhase(h, g) ==
  /\ DOMAIN g = HeapFields
  /\ g.objects = h.objects /\ g.generations = h.generations /\ g.remembered_set = h.remembered_set
  /\ g.weak_refs = h.weak_refs /\ g.intern_table = h.intern_table /\ g.ephemerons = h.ephemerons
  /\ g.cells = h.cells /\ g.extra = h.extra /\ g.plan = h.plan /\ g.cursor = h.cursor
  /\ g.shadow = h.shadow /\ g.allocated = h.allocated /\ g.stress = h.stress

LEMMA PhaseKeeps ==
  ASSUME NEW h, LayoutInv(h), h.phase # "compacting", NEW g, SameButPhase(h, g),
         g.phase \in {"idle", "marking"}, g.worklist \subseteq Ids,
         g.phase = "idle" => g.worklist = {}
  PROVE  LayoutInv(g) /\ Carries(h, g) /\ SamePlaces(h, g) /\ g.objects = h.objects
<1>1. HeapIsTyped(h)
  BY DEF LayoutInv
<1>2. Size(g) = Size(h) /\ Headers(g) = Headers(h)
  BY DEF Size, Headers, SameButPhase
<1>3. HeapIsTyped(g)
  BY <1>1, <1>2 DEF HeapIsTyped, SameButPhase
<1>4. \A s \in Headers(h) : SameContents(h.objects[s], g.objects[s])
  BY <1>1, HeaderIsObject DEF SameContents, SameButPhase
<1>5. \A id \in g.remembered_set : Resolves(h, id)
  BY DEF LayoutInv, RegistriesName, SameButPhase
<1>6. LayoutInv(g) /\ SamePlaces(h, g) /\ Carries(h, g)
  BY <1>2, <1>3, <1>4, <1>5, RemarkedKeeps DEF SameButPhase
<1> QED BY <1>6 DEF SameButPhase

LEMMA CollectedKeeps ==
  ASSUME NEW h, LayoutInv(h), h.phase # "compacting", NEW kind,
         NEW g, g = Evacuate(Mark(h, kind), kind)
  PROVE  LayoutInv(g) /\ Carries(h, g) /\ g.phase = h.phase
<1> DEFINE m == Mark(h, kind)
           live == {s \in Headers(m) : IsLive(m, {}, s, kind)}
<1>1. m = Mark(h, kind) /\ g = Evacuate(m, kind)
  OBVIOUS
<1> HIDE DEF m
<1>2. /\ LayoutInv(m) /\ Carries(h, m) /\ m.phase = h.phase
      /\ EphemeronsKept(m, live) /\ OperandsMove(m, live)
  BY <1>1, MarkReady
<1>3. LayoutInv(g) /\ Carries(m, g) /\ g.phase = m.phase
  BY <1>1, <1>2, EvacuateKeeps
<1> QED BY <1>2, <1>3, CarriesOn

LEMMA UnmarkedKeeps ==
  ASSUME NEW h, LayoutInv(h), NEW g, g = Unmarked(h)
  PROVE  /\ LayoutInv(g) /\ Carries(h, g) /\ SamePlaces(h, g)
         /\ g.phase = h.phase /\ g.extra = h.extra /\ g.cells = h.cells
         /\ \A s \in Headers(h) : /\ SameContents(h.objects[s], g.objects[s])
                                  /\ g.objects[s].age = h.objects[s].age
                                  /\ g.objects[s].marked = FALSE
<1>1. HeapIsTyped(h) /\ PhaseIsClean(h)
  BY DEF LayoutInv
<1>2. /\ DOMAIN h = HeapFields /\ Size(h) \in Nat /\ DOMAIN h.objects = 0 .. Size(h) - 1
      /\ Headers(h) \subseteq DOMAIN h.objects
  BY <1>1, HeaderIsObject DEF HeapIsTyped, Headers
<1>3. /\ DOMAIN g = HeapFields
      /\ g.objects = [s \in DOMAIN h.objects |-> IF h.objects[s] = None THEN None
                                                 ELSE [h.objects[s] EXCEPT !.marked = FALSE]]
      /\ g.generations = h.generations /\ g.remembered_set = h.remembered_set
      /\ g.weak_refs = h.weak_refs /\ g.intern_table = h.intern_table /\ g.ephemerons = h.ephemerons
      /\ g.worklist = h.worklist /\ g.cells = h.cells /\ g.extra = h.extra /\ g.phase = h.phase
      /\ g.plan = h.plan /\ g.cursor = h.cursor /\ g.shadow = h.shadow
      /\ g.allocated = h.allocated /\ g.stress = h.stress
  BY <1>2 DEF Unmarked, HeapFields
<1>4. ASSUME NEW s \in Headers(h)
      PROVE  /\ SameContents(h.objects[s], g.objects[s])
             /\ g.objects[s].age = h.objects[s].age
             /\ g.objects[s].marked = FALSE
  <2>1. h.objects[s] \in Objects /\ s \in DOMAIN h.objects /\ h.objects[s] # None
    BY <1>1, <1>2, HeaderIsObject DEF Headers
  <2> DEFINE o == h.objects[s]
             q == g.objects[s]
  <2>2. q = [o EXCEPT !.marked = FALSE] /\ o \in Objects
    BY <1>3, <2>1
  <2> HIDE DEF o, q
  <2>3. SameContents(o, q) /\ q.age = o.age /\ q.marked = FALSE
    BY <2>2 DEF SameContents, Objects
  <2> QED BY <2>3 DEF o, q
<1>5. ASSUME NEW s \in DOMAIN h.objects
      PROVE  g.objects[s] \in Objects \cup {None} /\ (g.objects[s] = None <=> h.objects[s] = None)
  <2>1. CASE s \in Headers(h)
    <3>1. g.objects[s] \in Objects /\ h.objects[s] # None
      BY <1>4, <2>1 DEF SameContents, Headers
    <3> QED BY <3>1, NoneAssumption
  <2>2. CASE s \notin Headers(h)
    BY <1>3, <2>2 DEF Headers
  <2> QED BY <2>1, <2>2
<1>6. Headers(g) = Headers(h)
  BY <1>3, <1>5 DEF Headers
<1>7. Size(g) = Size(h)
  BY <1>3 DEF Size
<1>8. HeapIsTyped(g)
  <2>1. g.objects \in [0 .. Size(h) - 1 -> Objects \cup {None}]
    BY <1>2, <1>3, <1>5
  <2> QED BY <1>1, <1>3, <1>7, <2>1 DEF HeapIsTyped
<1>9. g.phase # "marking" => g.worklist = {}
  BY <1>1, <1>3 DEF PhaseIsClean
<1>10. LayoutInv(g) /\ SamePlaces(h, g) /\ Carries(h, g)
  <2>1. \A id \in g.remembered_set : Resolves(h, id)
    BY <1>3 DEF LayoutInv, RegistriesName
  <2>2. \A s \in Headers(h) : SameContents(h.objects[s], g.objects[s])
    BY <1>4
  <2>3. g.phase = "compacting" <=> h.phase = "compacting"
    BY <1>3
  <2> QED BY <1>3, <1>6, <1>7, <1>8, <1>9, <2>1, <2>2, <2>3, RemarkedKeeps
<1> QED BY <1>3, <1>4, <1>10

\* The liveness of the final pause, with an empty worklist.
FinalMarks(h) == [finish_incremental_marking_liveness(h) EXCEPT !.worklist = {}]

LEMMA FinalMarksReady ==
  ASSUME NEW h, LayoutInv(h), h.phase = "marking", NEW g, g = FinalMarks(h),
         NEW live, live = {s \in Headers(g) : IsLive(g, {}, s, "Major")}
  PROVE  /\ LayoutInv(g) /\ Carries(h, g) /\ g.phase = "marking" /\ g.worklist = {}
         /\ EphemeronsKept(g, live) /\ OperandsMove(g, live)
<1> DEFINE u == Unmarked(h)
           m == Mark(u, "Major")
           held == {s \in Headers(m) : IsLive(m, {}, s, "Major")}
<1>1. u = Unmarked(h) /\ m = Mark(u, "Major") /\ g = [m EXCEPT !.worklist = {}]
  BY DEF FinalMarks, finish_incremental_marking_liveness
<1> HIDE DEF u, m
<1>2. LayoutInv(u) /\ Carries(h, u) /\ u.phase = "marking"
  BY <1>1, UnmarkedKeeps
<1>3. /\ LayoutInv(m) /\ Carries(u, m) /\ m.phase = "marking"
      /\ EphemeronsKept(m, held) /\ OperandsMove(m, held)
  <2> DEFINE major == "Major"
  <2>1. m = Mark(u, major) /\ held = {s \in Headers(m) : IsLive(m, {}, s, major)}
    BY <1>1
  <2> HIDE DEF major, held
  <2> QED BY <1>2, <2>1, MarkReady
<1>4. SameButPhase(m, g) /\ g.phase = "marking" /\ g.worklist = {}
  <2>1. DOMAIN m = HeapFields
    BY <1>3 DEF LayoutInv, HeapIsTyped
  <2> QED BY <1>1, <1>3, <2>1 DEF HeapFields, SameButPhase
<1>5. LayoutInv(g) /\ Carries(m, g) /\ SamePlaces(m, g) /\ g.objects = m.objects
  BY <1>3, <1>4, PhaseKeeps
<1>6. /\ \A v : checked_slot(g, v) = checked_slot(m, v) /\ (Resolves(g, v) <=> Resolves(m, v))
      /\ Headers(g) = Headers(m) /\ g.extra = m.extra
  BY <1>3, <1>4, <1>5, SamePlacesResolve DEF LayoutInv, SamePlaces, SameButPhase
<1>7. live = held
  BY <1>5, <1>6 DEF IsLive, is_old_slot
<1>8. EphemeronsKept(g, live) /\ OperandsMove(g, live)
  BY <1>3, <1>5, <1>6, <1>7 DEF EphemeronsKept, OperandsMove
<1> QED BY <1>2, <1>3, <1>4, <1>5, <1>8, CarriesOn

LEMMA FinishMarkingKeeps ==
  ASSUME NEW h, LayoutInv(h), h.phase = "marking", NEW g, g = finish_incremental_marking_impl(h)
  PROVE  LayoutInv(g) /\ Carries(h, g) /\ g.phase = "idle"
<1> DEFINE m == FinalMarks(h)
           e == Evacuate(m, "Major")
           live == {s \in Headers(m) : IsLive(m, {}, s, "Major")}
<1>1. m = FinalMarks(h) /\ e = Evacuate(m, "Major") /\ g = [e EXCEPT !.phase = "idle"]
  BY DEF FinalMarks, finish_incremental_marking_impl
<1> HIDE DEF m, e
<1>2. /\ LayoutInv(m) /\ Carries(h, m) /\ m.phase = "marking" /\ m.worklist = {}
      /\ EphemeronsKept(m, live) /\ OperandsMove(m, live)
  BY <1>1, FinalMarksReady
<1>3. LayoutInv(e) /\ Carries(m, e) /\ e.phase = "marking" /\ e.worklist = {}
  <2> DEFINE major == "Major"
  <2>1. e = Evacuate(m, major) /\ live = {s \in Headers(m) : IsLive(m, {}, s, major)}
    BY <1>1
  <2> HIDE DEF major, live
  <2> QED BY <1>2, <2>1, EvacuateKeeps
<1>4. SameButPhase(e, g) /\ g.phase = "idle" /\ g.worklist = {}
  <2>1. DOMAIN e = HeapFields
    BY <1>3 DEF LayoutInv, HeapIsTyped
  <2> QED BY <1>1, <1>3, <2>1 DEF HeapFields, SameButPhase
<1>5. LayoutInv(g) /\ Carries(e, g)
  BY <1>3, <1>4, PhaseKeeps
<1>6. Carries(h, e)
  BY <1>2, <1>3, CarriesOn
<1> QED BY <1>2, <1>3, <1>4, <1>5, <1>6, CarriesOn

(***************************************************************************)
(* The plan of an incremental compaction.                                  *)
(***************************************************************************)
EntryOf(h, to, gens, s) ==
  [source_id |-> IdAt(h, s), destination_id |-> make_object_id(to[s], gens[s])]

\* The loop over all slots, after each of them.
Lists(entries, h, live, to, gens) ==
  entries = [s \in 0 .. Size(h) |->
               IF s = 0 THEN <<>>
               ELSE IF s - 1 \in live THEN Append(entries[s - 1], EntryOf(h, to, gens, s - 1))
               ELSE entries[s - 1]]

LEMMA ListExists ==
  ASSUME NEW h, NEW live, NEW to, NEW gens, Size(h) \in Nat
  PROVE  \E entries : Lists(entries, h, live, to, gens)
<1> DEFINE Step(v, s) == IF s \in live THEN Append(v, EntryOf(h, to, gens, s)) ELSE v
           Unrolled(k, f) == [s \in 0 .. k |-> IF s = 0 THEN <<>> ELSE Step(f[s - 1], s - 1)]
           T == {k \in 0 .. Size(h) : \E f : f = Unrolled(k, f)}
<1>1. 0 \in T
  <2> DEFINE f == [s \in 0 .. 0 |-> <<>>]
  <2>1. f = Unrolled(0, f)
    OBVIOUS
  <2> HIDE DEF f, Unrolled
  <2> QED BY <2>1
<1>2. ASSUME NEW k \in 0 .. Size(h), k < Size(h), k \in T PROVE k + 1 \in T
  <2>1. PICK f : f = Unrolled(k, f)
    BY <1>2
  <2> DEFINE g == [s \in 0 .. k + 1 |-> IF s = k + 1 THEN Step(f[k], k) ELSE f[s]]
  <2> HIDE DEF Step
  <2>2. \A s \in 0 .. k : g[s] = f[s]
    OBVIOUS
  <2>3. \A s \in 0 .. k + 1 : g[s] = IF s = 0 THEN <<>> ELSE Step(g[s - 1], s - 1)
    BY <2>1, <2>2
  <2>4. g = Unrolled(k + 1, g)
    <3>1. g = [s \in 0 .. k + 1 |-> g[s]]
      OBVIOUS
    <3> HIDE DEF g
    <3> QED BY <2>3, <3>1
  <2>5. k + 1 \in 0 .. Size(h)
    BY <1>2
  <2> HIDE DEF g, Unrolled
  <2> QED BY <2>4, <2>5
<1>3. Size(h) \in T
  <2> HIDE DEF T
  <2> QED BY <1>1, <1>2, CountingUp
<1>4. PICK f : f = Unrolled(Size(h), f)
  BY <1>3
<1>5. Lists(f, h, live, to, gens)
  BY <1>4 DEF Lists
<1> QED BY <1>5

\* p lists the entries of the live slots below s, in slot order.
ListsUpTo(p, h, live, to, gens, s) ==
  /\ p \in Seq(Relocations)
  /\ \A i \in DOMAIN p : \E t \in live : t < s /\ p[i] = EntryOf(h, to, gens, t)
  /\ \A t \in live : t < s => \E i \in DOMAIN p : p[i] = EntryOf(h, to, gens, t)
  /\ \A i, j \in DOMAIN p : i < j => slot_from(p[i].source_id) < slot_from(p[j].source_id)

LEMMA PlanLists ==
  ASSUME NEW h, HeapIsTyped(h), NEW live, live \subseteq Headers(h), NEW to, NEW gens,
         \A s \in live : to[s] \in Nat /\ gens[s] \in Nat
  PROVE  ListsUpTo(PlanEntries(h, live, to, gens), h, live, to, gens, Size(h))
<1> DEFINE n == Size(h)
           Step(v, s) == IF s \in live THEN Append(v, EntryOf(h, to, gens, s)) ELSE v
           Unrolled(f) == [s \in 0 .. n |->
             IF s = 0 THEN <<>>
             ELSE IF s - 1 \in live THEN Append(f[s - 1], EntryOf(h, to, gens, s - 1))
             ELSE f[s - 1]]
           entries == CHOOSE f : f = Unrolled(f)
           T == {s \in 0 .. n : ListsUpTo(entries[s], h, live, to, gens, s)}
<1>1. n \in Nat /\ \A s \in live : s \in 0 .. n - 1 /\ h.generations[s] \in Nat
  BY HeaderIsObject
<1>2. PlanEntries(h, live, to, gens) = entries[n]
  BY DEF PlanEntries, EntryOf
<1>3. Lists(entries, h, live, to, gens)
  <2>1. \A f : Lists(f, h, live, to, gens) <=> f = Unrolled(f)
    BY DEF Lists
  <2>2. \E f : Lists(f, h, live, to, gens)
    BY <1>1, ListExists
  <2> HIDE DEF Unrolled
  <2> QED BY <2>1, <2>2
<1> HIDE DEF entries
<1>4. entries[0] = <<>> /\ \A s \in 0 .. n : s < n => entries[s + 1] = Step(entries[s], s)
  <2>1. \A s \in 0 .. n : entries[s] = IF s = 0 THEN <<>> ELSE Step(entries[s - 1], s - 1)
    BY <1>3 DEF Lists
  <2> HIDE DEF Step
  <2>2. ASSUME NEW s \in 0 .. n, s < n PROVE entries[s + 1] = Step(entries[s], s)
    <3> DEFINE t == s + 1
    <3>1. t \in 0 .. n /\ t # 0 /\ t - 1 = s
      BY <1>1, <2>2
    <3>2. entries[t] = Step(entries[t - 1], t - 1)
      BY <2>1, <3>1
    <3> QED BY <3>1, <3>2
  <2>3. entries[0] = <<>>
    BY <1>1, <2>1
  <2> QED BY <2>2, <2>3
<1>5. ASSUME NEW s \in live
      PROVE  /\ EntryOf(h, to, gens, s) \in Relocations
             /\ slot_from(EntryOf(h, to, gens, s).source_id) = s
  <2>1. to[s] \in Nat /\ gens[s] \in Nat /\ s \in Int /\ h.generations[s] \in Nat
    BY <1>1
  <2> QED BY <2>1 DEF EntryOf, Relocations, Ids, IdAt, make_object_id, slot_from
<1>6. 0 \in T
  <2>1. ListsUpTo(<<>>, h, live, to, gens, 0)
    BY <1>1 DEF ListsUpTo
  <2> QED BY <1>1, <1>4, <2>1
<1>7. ASSUME NEW s \in 0 .. n, s < n, s \in T PROVE s + 1 \in T
  <2> DEFINE p == entries[s]
             q == entries[s + 1]
             e == EntryOf(h, to, gens, s)
  <2>1. ListsUpTo(p, h, live, to, gens, s)
    BY <1>7
  <2>2. CASE s \notin live
    <3>1. q = p
      BY <1>4, <1>7, <2>2
    <3>2. \A t \in live : t < s <=> t < s + 1
      BY <1>1, <2>2
    <3> HIDE DEF p, q
    <3>3. ListsUpTo(q, h, live, to, gens, s + 1)
      BY <2>1, <3>1, <3>2 DEF ListsUpTo
    <3> QED BY <1>1, <1>7, <3>3 DEF q
  <2>3. CASE s \in live
    <3>1. q = Append(p, e) /\ e \in Relocations /\ slot_from(e.source_id) = s
      BY <1>4, <1>5, <1>7, <2>3
    <3>2. \A t \in live : t < s + 1 <=> t < s \/ t = s
      BY <1>1
    <3>3. e = EntryOf(h, to, gens, s)
      OBVIOUS
    <3> HIDE DEF p, q, e
    <3>4. p \in Seq(Relocations)
      BY <2>1 DEF ListsUpTo
    <3>5. /\ q \in Seq(Relocations) /\ Len(q) = Len(p) + 1 /\ q[Len(q)] = e
          /\ \A i \in DOMAIN p : q[i] = p[i] /\ i \in DOMAIN q
          /\ \A i \in DOMAIN q : i \in DOMAIN p \/ i = Len(q)
          /\ Len(q) \in DOMAIN q /\ DOMAIN p = 1 .. Len(p) /\ DOMAIN q = 1 .. Len(q)
      BY <3>1, <3>4
    <3>6. \A i \in DOMAIN q : \E t \in live : t < s + 1 /\ q[i] = EntryOf(h, to, gens, t)
      BY <2>1, <2>3, <3>2, <3>3, <3>5 DEF ListsUpTo
    <3>7. \A t \in live : t < s + 1 => \E i \in DOMAIN q : q[i] = EntryOf(h, to, gens, t)
      BY <2>1, <2>3, <3>2, <3>3, <3>5 DEF ListsUpTo
    <3>8. ASSUME NEW i \in DOMAIN q, NEW j \in DOMAIN q, i < j
          PROVE  slot_from(q[i].source_id) < slot_from(q[j].source_id)
      <4>1. i \in DOMAIN p
        BY <3>5, <3>8
      <4>2. PICK t \in live : t < s /\ p[i] = EntryOf(h, to, gens, t)
        BY <2>1, <4>1 DEF ListsUpTo
      <4>3. CASE j \in DOMAIN p
        BY <2>1, <3>5, <3>8, <4>1, <4>3 DEF ListsUpTo
      <4>4. CASE j = Len(q)
        <5>1. slot_from(q[i].source_id) = t
          BY <1>5, <3>5, <4>1, <4>2
        <5>2. slot_from(q[j].source_id) = s
          BY <3>1, <3>5, <4>4
        <5> QED BY <4>2, <5>1, <5>2
      <4> QED BY <3>5, <4>3, <4>4
    <3>9. ListsUpTo(q, h, live, to, gens, s + 1)
      BY <3>5, <3>6, <3>7, <3>8 DEF ListsUpTo
    <3> QED BY <1>1, <1>7, <3>9 DEF q
  <2> QED BY <2>2, <2>3
<1>8. n \in T
  <2> HIDE DEF T
  <2> QED BY <1>1, <1>6, <1>7, CountingUp
<1> QED BY <1>2, <1>8

\* A sliding plan over the survivors of h.
LEMMA PlanOfSlide ==
  ASSUME NEW h, HeapIsTyped(h), RunsFollow(h), NEW live, live \subseteq Headers(h),
         NEW plan1, plan1 = CompactionPlan(h, live)
  PROVE  \E to, gens :
           /\ Slides(h, live, to)
           /\ \A s \in live : /\ gens[s] \in Nat /\ gens[s] > 0
                              /\ to[s] = s => gens[s] = h.generations[s]
           /\ \A s, t \in live : s # t => to[s] # to[t]
           /\ \A s, t \in live : s # t /\ to[s] = t => gens[s] = h.generations[t] + 1
           /\ ListsUpTo(plan1, h, live, to, gens, Size(h))
<1> DEFINE to == Destinations(h.objects, live)
           mg == MovedGenerations(h.generations, to)
           gens == [s \in live |-> mg[to[s]]]
<1>1. plan1 = PlanEntries(h, live, to, gens)
  BY DEF CompactionPlan
<1>2. Slides(h, live, to)
  BY DestinationsSlide
<1>3. to = Destinations(h.objects, live) /\ mg = MovedGenerations(h.generations, to)
      /\ \A s \in live : gens[s] = mg[to[s]]
  OBVIOUS
<1> HIDE DEF to, mg, gens
<1>4. Minted(h, live, to, mg)
  BY <1>2, <1>3, MovedGenerationsAre
<1>5. /\ \A s \in live : /\ gens[s] \in Nat /\ gens[s] > 0
                         /\ to[s] = s => gens[s] = h.generations[s]
      /\ \A s, t \in live : s # t => to[s] # to[t]
      /\ \A s, t \in live : s # t /\ to[s] = t => gens[s] = h.generations[t] + 1
  BY <1>3, <1>4 DEF Minted
<1>6. \A s \in live : to[s] \in Nat /\ gens[s] \in Nat
  BY <1>2, <1>5 DEF Slides
<1>7. ListsUpTo(plan1, h, live, to, gens, Size(h))
  BY <1>1, <1>6, PlanLists
<1> QED BY <1>2, <1>5, <1>7

\* What the clearing of dead targets leaves resolves to survivors.
ClearedAs(h, live, s, q) ==
  /\ q \in Objects /\ validate_descriptor_shape(q) /\ storage_slot_count(q) = Width(h, s)
  /\ q.kind = h.objects[s].kind /\ q.data = h.objects[s].data /\ q.text = h.objects[s].text
  /\ q.length = h.objects[s].length /\ q.strong = h.objects[s].strong
  /\ q.age = h.objects[s].age /\ q.marked = FALSE
  /\ s \in live => \A v \in SoftReferences(q) :
       /\ v \in SoftReferences(h.objects[s]) /\ v \in Ids /\ Resolves(h, v)
       /\ checked_slot(h, v) \in live

LEMMA ClearedKeeps ==
  ASSUME NEW h, LayoutInv(h), NEW live, live = {s \in Headers(h) : h.objects[s].marked},
         EphemeronsKept(h, live), NEW s \in Headers(h),
         NEW q, q = [h.objects[s] EXCEPT !.marked = FALSE, !.soft = ClearedSoft(h, h.objects[s])]
  PROVE  ClearedAs(h, live, s, q)
<1> DEFINE o == h.objects[s]
           soft == ClearedSoft(h, o)
           dead(v) == is_object(v) /\ ~ObjectOf(h, v).marked
<1>1. /\ o \in Objects /\ validate_descriptor_shape(o)
      /\ \A v \in SoftReferences(o) : Resolves(h, v)
  BY HeaderIsObject DEF LayoutInv, RunsFollow, RegistriesName
<1>2. o.strong \in Seq(Values) /\ o.soft \in Seq(Values) /\ o.kind \in Kinds
  BY <1>1, ObjectFields
<1>3. \A v \in SoftReferences(o) : /\ v \in Ids /\ is_object(v) /\ checked_slot(h, v) \in Headers(h)
                                   /\ ~dead(v) => checked_slot(h, v) \in live
  <2>1. ASSUME NEW v \in SoftReferences(o) PROVE v \in Ids /\ is_object(v) /\ checked_slot(h, v) \in Headers(h)
    <3>1. v \in Values /\ is_object(v)
      BY <1>1, FieldsAreValues DEF is_object
    <3> QED BY <1>1, <3>1, ValueIsId, ResolvedIsHeader DEF LayoutInv
  <2> QED BY <2>1 DEF ObjectOf
<1>4. Nil \in Values /\ ~is_object(Nil)
  BY DEF Values, is_object
<1>5. /\ soft \in Seq(Values) /\ Len(soft) = Len(o.soft)
      /\ o.kind = "Ephemeron" => (soft[1] = Nil => soft[2] = Nil)
      /\ s \in live => \A i \in DOMAIN soft : is_object(soft[i]) =>
           /\ i \in DOMAIN o.soft /\ soft[i] = o.soft[i]
           /\ o.soft[i] \in SoftReferences(o) /\ checked_slot(h, o.soft[i]) \in live
  <2>1. CASE o.kind = "WeakRef"
    <3>1. Len(o.soft) = 1 /\ DOMAIN o.soft = {1} /\ o.soft[1] \in Values
      BY <1>1, <1>2, <2>1 DEF validate_descriptor_shape
    <3>2. soft = IF dead(o.soft[1]) THEN <<Nil>> ELSE o.soft
      BY <2>1 DEF ClearedSoft
    <3>3. is_object(o.soft[1]) => o.soft[1] \in SoftReferences(o)
      BY <3>1 DEF SoftReferences
    <3> HIDE DEF soft, o, dead
    <3> QED BY <1>2, <1>3, <1>4, <2>1, <3>1, <3>2, <3>3
  <2>2. CASE o.kind = "Ephemeron"
    <3>1. /\ Len(o.soft) = 2 /\ DOMAIN o.soft = {1, 2} /\ o.soft[1] \in Values /\ o.soft[2] \in Values
          /\ o.soft[1] = Nil => o.soft[2] = Nil
      BY <1>1, <1>2, <2>2 DEF validate_descriptor_shape, EphemeronAndBuilderShape
    <3>2. soft = IF dead(o.soft[1]) THEN <<Nil, Nil>> ELSE o.soft
      BY <2>2 DEF ClearedSoft
    <3>3. \A i \in {1, 2} : is_object(o.soft[i]) => o.soft[i] \in SoftReferences(o)
      BY <3>1 DEF SoftReferences
    <3>4. s \in live /\ is_object(o.soft[1]) /\ checked_slot(h, o.soft[1]) \in live /\ is_object(o.soft[2])
            => checked_slot(h, o.soft[2]) \in live
      BY <2>2 DEF EphemeronsKept
    <3>5. is_object(o.soft[2]) => is_object(o.soft[1])
      BY <3>1 DEF is_object
    <3> HIDE DEF soft, o, dead
    <3>6. CASE dead(o.soft[1])
      BY <1>4, <3>1, <3>2, <3>6
    <3>7. CASE ~dead(o.soft[1])
      <4>1. soft = o.soft
        BY <3>2, <3>7
      <4>2. is_object(o.soft[1]) => checked_slot(h, o.soft[1]) \in live
        BY <1>3, <3>3, <3>7
      <4>3. s \in live => \A i \in {1, 2} : is_object(o.soft[i]) => checked_slot(h, o.soft[i]) \in live
        BY <3>4, <3>5, <4>2
      <4> QED BY <1>2, <3>1, <3>3, <4>1, <4>3
    <3> QED BY <3>6, <3>7
  <2>3. CASE o.kind \notin {"WeakRef", "Ephemeron"}
    <3>1. soft = <<>> /\ o.soft = <<>>
      BY <1>1, <2>3 DEF ClearedSoft, validate_descriptor_shape
    <3> QED BY <2>3, <3>1
  <2> QED BY <2>1, <2>2, <2>3
<1>6. q = [[o EXCEPT !.marked = FALSE] EXCEPT !.soft = soft]
  OBVIOUS
<1> HIDE DEF soft, o, dead
<1>7. /\ q \in Objects /\ q.soft = soft /\ q.strong = o.strong /\ q.marked = FALSE
      /\ q.kind = o.kind /\ q.length = o.length /\ q.data = o.data /\ q.text = o.text /\ q.age = o.age
  BY <1>1, <1>5, <1>6 DEF Objects
<1>8. validate_descriptor_shape(q)
  <2>1. o.soft = <<>> => soft = <<>>
    BY <1>2, <1>5
  <2>2. o.kind = "Ephemeron" => Len(o.soft) = 2
    BY <1>1 DEF validate_descriptor_shape, EphemeronAndBuilderShape
  <2> QED BY <1>1, <1>5, <1>7, <2>1, <2>2
        DEF validate_descriptor_shape, ReferenceMapShape, EphemeronAndBuilderShape
<1>9. storage_slot_count(q) = Width(h, s)
  BY <1>7 DEF storage_slot_count, Width, o
<1>10. s \in live => \A v \in SoftReferences(q) : v \in SoftReferences(o) /\ checked_slot(h, v) \in live
  BY <1>5, <1>7 DEF SoftReferences
<1> QED BY <1>1, <1>3, <1>7, <1>8, <1>9, <1>10 DEF o, ClearedAs

\* Outside a compaction a reference is the current id of what it resolves to.
LEMMA StillReference ==
  ASSUME NEW h, HeapIsTyped(h), RunsFollow(h), h.cursor = 0, NEW v \in Ids
  PROVE  Resolves(h, v) => checked_slot(h, v) \in Headers(h) /\ v = IdAt(h, checked_slot(h, v))
<1> SUFFICES ASSUME Resolves(h, v)
             PROVE  checked_slot(h, v) \in Headers(h) /\ v = IdAt(h, checked_slot(h, v))
  OBVIOUS
<1>1. Physical(h, v)
  BY StillHeap DEF Resolves
<1> QED BY <1>1, PhysicalIsId

\* h with its dead objects swept and a plan for the live ones.
PreparedAs(h, live, g) ==
  /\ DOMAIN g = HeapFields
  /\ g.objects = [s \in DOMAIN h.objects |->
                    IF s \in live
                    THEN [h.objects[s] EXCEPT !.marked = FALSE, !.soft = ClearedSoft(h, h.objects[s])]
                    ELSE None]
  /\ g.generations = h.generations
  /\ g.weak_refs = MarkedIds(h, h.weak_refs) /\ g.intern_table = MarkedIds(h, h.intern_table)
  /\ g.ephemerons = MarkedIds(h, h.ephemerons)
  /\ g.remembered_set = MarkedIds(h, h.remembered_set)
  /\ g.plan = CompactionPlan(h, live) /\ g.cursor = 0 /\ g.phase = "compacting"
  /\ g.worklist = h.worklist /\ g.cells = h.cells /\ g.extra = h.extra
  /\ g.allocated = h.allocated /\ g.stress = h.stress

LEMMA PreparedIs ==
  ASSUME NEW h, DOMAIN h = HeapFields, NEW live, live = {s \in Headers(h) : h.objects[s].marked},
         NEW g, g = prepare_incremental_compaction_from_marked(h)
  PROVE  PreparedAs(h, live, g)
BY DEF prepare_incremental_compaction_from_marked, PreparedAs, HeapFields

LEMMA PreparedPlan ==
  ASSUME NEW h, HeapIsTyped(h), RunsFollow(h), NEW live, live \subseteq Headers(h),
         NEW g, HeapIsTyped(g), Headers(g) = live, Size(g) = Size(h), g.generations = h.generations,
         g.cursor = 0, g.plan = CompactionPlan(h, live), \A s \in live : Width(g, s) = Width(h, s)
  PROVE  PlanIsCurrent(g)
<1> DEFINE plan1 == g.plan
<1>1. PICK to, gens :
           /\ Slides(h, live, to)
           /\ \A s \in live : /\ gens[s] \in Nat /\ gens[s] > 0
                              /\ to[s] = s => gens[s] = h.generations[s]
           /\ \A s, t \in live : s # t => to[s] # to[t]
           /\ \A s, t \in live : s # t /\ to[s] = t => gens[s] = h.generations[t] + 1
           /\ ListsUpTo(plan1, h, live, to, gens, Size(h))
  BY PlanOfSlide
<1>2. /\ Size(h) \in Nat /\ \A s \in live : /\ s \in 0 .. Size(h) - 1 /\ Width(h, s) \in Nat \ {0}
                                            /\ h.generations[s] \in Nat /\ h.generations[s] > 0
                                            /\ s + Width(h, s) <= Size(h)
                                            /\ to[s] \in Nat /\ to[s] <= s
  BY <1>1, HeaderIsObject DEF RunsFollow, Slides
<1>3. \A s \in live : LET e == EntryOf(h, to, gens, s) IN
        /\ e.source_id = IdAt(h, s) /\ slot_from(e.source_id) = s
        /\ generation_from(e.source_id) = h.generations[s]
        /\ slot_from(e.destination_id) = to[s] /\ generation_from(e.destination_id) = gens[s]
        /\ e.source_id = make_object_id(s, h.generations[s])
        /\ e.destination_id = make_object_id(to[s], gens[s])
  BY DEF EntryOf, IdAt, make_object_id, slot_from, generation_from
<1>4. DOMAIN plan1 = 1 .. Len(plan1)
  BY <1>1 DEF ListsUpTo
<1> DEFINE At(i) == slot_from(plan1[i].source_id)
<1>5. ASSUME NEW i \in DOMAIN plan1
      PROVE  /\ At(i) \in live /\ plan1[i] = EntryOf(h, to, gens, At(i))
             /\ Source(g, i) = At(i) /\ Destination(g, i) = to[At(i)]
             /\ Base(g, i) = At(i) /\ Name(g, i) = IdAt(h, At(i))
             /\ generation_from(plan1[i].source_id) = h.generations[At(i)]
             /\ generation_from(plan1[i].destination_id) = gens[At(i)]
             /\ plan1[i].source_id = make_object_id(At(i), h.generations[At(i)])
             /\ plan1[i].destination_id = make_object_id(to[At(i)], gens[At(i)])
  <2>1. PICK s \in live : plan1[i] = EntryOf(h, to, gens, s)
    BY <1>1 DEF ListsUpTo
  <2>2. At(i) = s
    BY <1>3, <2>1
  <2>3. ~(i <= g.cursor)
    BY <1>4
  <2> QED BY <1>3, <2>1, <2>2, <2>3 DEF Source, Destination, Base, Name
<1>6. \A s \in live : \E i \in DOMAIN plan1 : At(i) = s
  <2> SUFFICES ASSUME NEW s \in live PROVE \E i \in DOMAIN plan1 : At(i) = s
    OBVIOUS
  <2>1. PICK i \in DOMAIN plan1 : plan1[i] = EntryOf(h, to, gens, s)
    BY <1>1, <1>2 DEF ListsUpTo
  <2> QED BY <1>3, <2>1
<1>7. \A i, j \in DOMAIN plan1 : i < j => At(i) < At(j)
  BY <1>1 DEF ListsUpTo
<1> HIDE DEF At
<1>8. Headers(g) = {Base(g, i) : i \in DOMAIN g.plan}
  BY <1>5, <1>6
<1>9. \A i \in DOMAIN g.plan : IdAt(g, Base(g, i)) = Name(g, i)
  BY <1>5 DEF IdAt
<1>10. PlanSlides(g)
  <2>1. ASSUME NEW i \in DOMAIN g.plan
        PROVE  /\ 0 <= Destination(g, i) /\ Destination(g, i) <= Source(g, i)
               /\ Source(g, i) + Width(g, Base(g, i)) <= Size(g)
               /\ Destination(g, i) = Source(g, i) => g.plan[i].destination_id = g.plan[i].source_id
               /\ generation_from(g.plan[i].source_id) > 0
               /\ generation_from(g.plan[i].destination_id) > 0
    BY <1>1, <1>2, <1>5
  <2>2. ASSUME NEW i \in DOMAIN g.plan, NEW j \in DOMAIN g.plan, i < j
        PROVE  /\ Source(g, i) + Width(g, Base(g, i)) <= Source(g, j)
               /\ Destination(g, i) + Width(g, Base(g, i)) <= Destination(g, j)
    <3>1. At(i) \in live /\ At(j) \in live /\ At(i) < At(j)
      BY <1>5, <1>7, <2>2
    <3>2. At(i) + Width(h, At(i)) <= At(j) /\ to[At(i)] + Width(h, At(i)) <= to[At(j)]
      BY <1>1, <3>1 DEF RunsFollow, Slides
    <3> QED BY <1>5, <3>1, <3>2
  <2>3. ASSUME NEW i \in DOMAIN g.plan, NEW j \in DOMAIN g.plan, i # j
        PROVE  g.plan[i].source_id # g.plan[j].destination_id
    <3>1. SUFFICES ASSUME g.plan[i].source_id = g.plan[j].destination_id PROVE FALSE
      OBVIOUS
    <3>2. i < j \/ j < i
      BY <1>4, <2>3
    <3>3. At(i) \in live /\ At(j) \in live /\ At(i) # At(j)
      BY <1>2, <1>5, <1>7, <3>2
    <3>4. At(i) = to[At(j)] /\ h.generations[At(i)] = gens[At(j)]
      BY <1>5, <3>1 DEF make_object_id
    <3>5. gens[At(j)] = h.generations[At(i)] + 1
      BY <1>1, <3>3, <3>4
    <3> QED BY <1>2, <3>3, <3>4, <3>5
  <2> QED BY <2>1, <2>2, <2>3 DEF PlanSlides
<1> QED BY <1>8, <1>9, <1>10 DEF PlanIsCurrent

LEMMA PrepareKeeps ==
  ASSUME NEW h, LayoutInv(h), h.phase # "compacting", h.worklist = {},
         NEW live, live = {s \in Headers(h) : h.objects[s].marked}, EphemeronsKept(h, live),
         NEW g, g = prepare_incremental_compaction_from_marked(h)
  PROVE  LayoutInv(g) /\ g.phase = "compacting" /\ g.extra = h.extra /\ g.stress = h.stress
         /\ g.allocated = h.allocated /\ PreparedAs(h, live, g) /\ Headers(g) = live
<1>1. /\ HeapIsTyped(h) /\ RunsFollow(h) /\ RegistriesName(h) /\ NamesAreUsed(h)
      /\ DOMAIN h = HeapFields /\ h.cursor = 0 /\ h.plan = <<>>
  BY DEF LayoutInv, PhaseIsClean, HeapIsTyped
<1>2. PreparedAs(h, live, g)
  BY <1>1, PreparedIs
<1>3. /\ Size(h) \in Nat /\ DOMAIN h.objects = 0 .. Size(h) - 1
      /\ live \subseteq Headers(h) /\ Headers(h) \subseteq DOMAIN h.objects
  BY <1>1, HeaderIsObject DEF Headers
<1>4. ASSUME NEW s \in live
      PROVE  /\ g.objects[s] \in Objects /\ validate_descriptor_shape(g.objects[s])
             /\ Width(g, s) = Width(h, s) /\ g.objects[s].kind = h.objects[s].kind
             /\ g.objects[s].data = h.objects[s].data /\ g.objects[s].text = h.objects[s].text
             /\ g.objects[s].length = h.objects[s].length
             /\ \A v \in SoftReferences(g.objects[s]) :
                  /\ v \in Ids /\ Resolves(h, v) /\ checked_slot(h, v) \in live
  <2> DEFINE q == g.objects[s]
  <2>1. q = [h.objects[s] EXCEPT !.marked = FALSE, !.soft = ClearedSoft(h, h.objects[s])]
    BY <1>2, <1>3 DEF PreparedAs
  <2>2. s \in Headers(h)
    BY <1>3
  <2> HIDE DEF q
  <2>3. ClearedAs(h, live, s, q)
    BY <2>1, <2>2, ClearedKeeps
  <2> QED BY <2>3 DEF q, Width, ClearedAs
<1>5. \A s \in DOMAIN h.objects : s \notin live => g.objects[s] = None
  BY <1>2 DEF PreparedAs
<1>6. Headers(g) = live
  <2>1. DOMAIN g.objects = DOMAIN h.objects
    BY <1>2 DEF PreparedAs
  <2> QED BY <1>3, <1>4, <1>5, <2>1, NoneAssumption DEF Headers
<1>7. Size(g) = Size(h)
  BY <1>2 DEF PreparedAs, Size
<1>8. CompactionPlan(h, live) \in Seq(Relocations)
  <2> DEFINE p == CompactionPlan(h, live)
  <2>1. p = CompactionPlan(h, live)
    OBVIOUS
  <2> HIDE DEF p
  <2>2. \E to, gens : ListsUpTo(p, h, live, to, gens, Size(h))
    BY <1>1, <1>3, <2>1, PlanOfSlide
  <2> QED BY <2>1, <2>2 DEF ListsUpTo
<1>9. HeapIsTyped(g)
  <2>1. g.objects \in [0 .. Size(h) - 1 -> Objects \cup {None}]
    <3>1. \A s \in 0 .. Size(h) - 1 : g.objects[s] \in Objects \cup {None}
      BY <1>3, <1>4, <1>5
    <3> QED BY <1>2, <1>3, <3>1 DEF PreparedAs
  <2>2. {g.remembered_set, g.weak_refs, g.ephemerons, g.intern_table, g.worklist} \subseteq SUBSET Ids
    <3>1. \A X : X \subseteq Ids => MarkedIds(h, X) \subseteq Ids
      BY DEF MarkedIds
    <3>2. /\ h.remembered_set \subseteq Ids /\ h.weak_refs \subseteq Ids /\ h.ephemerons \subseteq Ids
          /\ h.intern_table \subseteq Ids /\ h.worklist \subseteq Ids
      BY <1>1 DEF HeapIsTyped
    <3>3. /\ g.remembered_set = MarkedIds(h, h.remembered_set) /\ g.weak_refs = MarkedIds(h, h.weak_refs)
          /\ g.ephemerons = MarkedIds(h, h.ephemerons) /\ g.intern_table = MarkedIds(h, h.intern_table)
          /\ g.worklist = h.worklist
      BY <1>2 DEF PreparedAs
    <3>4. /\ g.remembered_set \subseteq Ids /\ g.weak_refs \subseteq Ids /\ g.ephemerons \subseteq Ids
          /\ g.intern_table \subseteq Ids /\ g.worklist \subseteq Ids
      BY <3>1, <3>2, <3>3
    <3> QED BY <3>4
  <2>3. g.plan \in Seq(Relocations) /\ g.cursor \in 0 .. Len(g.plan)
    <3>1. g.plan \in Seq(Relocations) /\ g.cursor = 0
      BY <1>2, <1>8 DEF PreparedAs
    <3> HIDE DEF Relocations
    <3>2. Len(g.plan) \in Nat
      BY <3>1
    <3> QED BY <3>1, <3>2
  <2> QED BY <1>1, <1>2, <1>7, <2>1, <2>2, <2>3 DEF PreparedAs, HeapIsTyped
<1>10. RunsFollow(g)
  <2>1. g.generations = h.generations
    BY <1>2 DEF PreparedAs
  <2> QED BY <1>1, <1>3, <1>4, <1>6, <1>7, <2>1 DEF RunsFollow
<1>11. PhaseIsClean(g)
  <2>1. g.generations = h.generations /\ g.cursor = 0 /\ g.plan = CompactionPlan(h, live)
        /\ g.phase = "compacting" /\ g.worklist = {}
    BY <1>2 DEF PreparedAs
  <2>2. PlanIsCurrent(g)
    BY <1>1, <1>3, <1>4, <1>6, <1>7, <1>9, <2>1, PreparedPlan
  <2> QED BY <2>1, <2>2 DEF PhaseIsClean
<1>12. \A s \in live : IdAt(g, s) = IdAt(h, s)
  BY <1>2 DEF IdAt, PreparedAs
<1>13. ASSUME NEW v \in Ids, Resolves(h, v), checked_slot(h, v) \in live
       PROVE  Resolves(g, v) /\ checked_slot(g, v) = checked_slot(h, v)
  <2>1. v = IdAt(g, checked_slot(h, v))
    BY <1>1, <1>12, <1>13, StillReference
  <2> QED BY <1>6, <1>9, <1>10, <1>13, <2>1, IdOfBase
<1>14. \A s \in Headers(h) : /\ IdAt(h, s) \in Ids /\ Resolves(h, IdAt(h, s)) /\ checked_slot(h, IdAt(h, s)) = s
                             /\ ObjectOf(h, IdAt(h, s)) = h.objects[s]
  BY <1>1, IdOfBase DEF ObjectOf
<1>15. ASSUME NEW kind PROVE MarkedIds(h, OfKind(h, kind)) = OfKind(g, kind)
  <2>1. MarkedIds(h, OfKind(h, kind)) = {IdAt(h, s) : s \in {t \in live : h.objects[t].kind = kind}}
    BY <1>14 DEF MarkedIds, OfKind
  <2>2. \A s \in live : g.objects[s].kind = h.objects[s].kind
    BY <1>4
  <2>3. OfKind(g, kind) = {IdAt(h, s) : s \in {t \in live : h.objects[t].kind = kind}}
    BY <1>6, <1>12, <2>2 DEF OfKind
  <2> QED BY <2>1, <2>3
<1>16. RegistriesName(g)
  <2>1. g.weak_refs = OfKind(g, "WeakRef") /\ g.ephemerons = OfKind(g, "Ephemeron")
    BY <1>1, <1>2, <1>15 DEF PreparedAs, RegistriesName
  <2>2. g.intern_table \subseteq h.intern_table /\ g.intern_table \subseteq OfKind(g, "Str")
    <3>1. MarkedIds(h, h.intern_table) \subseteq MarkedIds(h, OfKind(h, "Str"))
      BY <1>1 DEF MarkedIds, RegistriesName
    <3> QED BY <1>2, <1>15, <3>1 DEF PreparedAs, MarkedIds
  <2>3. \A id \in g.remembered_set : Resolves(g, id)
    <3> SUFFICES ASSUME NEW id \in g.remembered_set PROVE Resolves(g, id)
      OBVIOUS
    <3>1. id \in h.remembered_set /\ ObjectOf(h, id).marked
      BY <1>2 DEF PreparedAs, MarkedIds
    <3>2. id \in Ids /\ Resolves(h, id)
      BY <1>1, <3>1 DEF HeapIsTyped, RegistriesName
    <3>3. checked_slot(h, id) \in live
      BY <1>1, <3>1, <3>2, StillReference DEF ObjectOf
    <3> QED BY <1>13, <3>2, <3>3
  <2>4. \A s \in Headers(g) : \A v \in SoftReferences(g.objects[s]) : Resolves(g, v)
    BY <1>4, <1>6, <1>13
  <2>5. \A id \in g.intern_table : ObjectOf(g, id).text = ObjectOf(h, id).text
    <3> SUFFICES ASSUME NEW id \in g.intern_table PROVE ObjectOf(g, id).text = ObjectOf(h, id).text
      OBVIOUS
    <3>1. PICK s \in live : id = IdAt(g, s)
      BY <1>6, <2>2 DEF OfKind
    <3>2. checked_slot(g, id) = s /\ checked_slot(h, id) = s
      BY <1>3, <1>6, <1>9, <1>10, <1>12, <1>14, <3>1, IdOfBase
    <3> QED BY <1>4, <3>2 DEF ObjectOf
  <2>6. \A a, b \in g.intern_table : ObjectOf(g, a).text = ObjectOf(g, b).text => a = b
    BY <1>1, <2>2, <2>5 DEF RegistriesName
  <2> QED BY <2>1, <2>2, <2>3, <2>4, <2>6 DEF RegistriesName
<1>17. NamesAreUsed(g)
  <2>1. g.allocated = h.allocated
    BY <1>2 DEF PreparedAs
  <2> QED BY <1>1, <1>3, <1>4, <1>6, <2>1 DEF NamesAreUsed
<1> QED BY <1>2, <1>6, <1>9, <1>10, <1>11, <1>16, <1>17 DEF LayoutInv, PreparedAs

(***************************************************************************)
(* Incremental compaction: the plan that is fixed at the start, every      *)
(* relocation, and the final rewriting.                                    *)
(***************************************************************************)
LEMMA StartCompactionKeeps ==
  ASSUME NEW h, LayoutInv(h), h.phase = "idle", NEW g, g = prepare_incremental_compaction(h)
  PROVE  LayoutInv(g) /\ g.phase = "compacting" /\ g.allocated = h.allocated
<1> DEFINE major == "Major"
           m == Mark(h, major)
           live == {s \in Headers(m) : IsLive(m, {}, s, major)}
<1>1. m = Mark(h, major) /\ g = prepare_incremental_compaction_from_marked(m)
  BY DEF prepare_incremental_compaction
<1>2. live = {s \in Headers(m) : m.objects[s].marked}
  BY DEF IsLive
<1>3. live = {s \in Headers(m) : IsLive(m, {}, s, major)}
  OBVIOUS
<1> HIDE DEF major, m, live
<1>4. LayoutInv(m) /\ Carries(h, m) /\ m.phase = h.phase /\ EphemeronsKept(m, live)
  BY <1>1, <1>3, MarkReady
<1>5. m.worklist = {} /\ m.phase # "compacting"
  BY <1>4 DEF LayoutInv, PhaseIsClean
<1>6. LayoutInv(g) /\ g.phase = "compacting" /\ g.allocated = m.allocated
  BY <1>1, <1>2, <1>4, <1>5, PrepareKeeps
<1> QED BY <1>4, <1>6 DEF Carries

LEMMA MarkedToCompactionKeeps ==
  ASSUME NEW h, LayoutInv(h), h.phase = "marking",
         NEW g, g = finish_incremental_marking_to_incremental_compaction(h)
  PROVE  LayoutInv(g) /\ g.phase = "compacting" /\ g.allocated = h.allocated
<1> DEFINE m == FinalMarks(h)
           live == {s \in Headers(m) : IsLive(m, {}, s, "Major")}
<1>1. m = FinalMarks(h) /\ g = prepare_incremental_compaction_from_marked(m)
  BY DEF finish_incremental_marking_to_incremental_compaction, FinalMarks
<1>2. live = {s \in Headers(m) : m.objects[s].marked}
  BY DEF IsLive
<1>3. live = {s \in Headers(m) : IsLive(m, {}, s, "Major")}
  OBVIOUS
<1> HIDE DEF m, live
<1>4. LayoutInv(m) /\ Carries(h, m) /\ m.phase = "marking" /\ m.worklist = {} /\ EphemeronsKept(m, live)
  BY <1>1, <1>3, FinalMarksReady
<1>5. LayoutInv(g) /\ g.phase = "compacting" /\ g.allocated = m.allocated
  BY <1>1, <1>2, <1>4, PrepareKeeps
<1> QED BY <1>4, <1>5 DEF Carries

(***************************************************************************)
(* One relocation.                                                         *)
(***************************************************************************)

\* Survivors in plan order are in slot order.
LEMMA PlanRuns ==
  ASSUME NEW h, HeapIsTyped(h), PlanIsCurrent(h),
         \A s \in Headers(h) : validate_descriptor_shape(h.objects[s])
  PROVE  RunsFollow(h)
<1>1. \A i \in DOMAIN h.plan :
        /\ i \in Nat /\ Source(h, i) \in Int /\ Destination(h, i) \in Int /\ h.cursor \in Nat
        /\ Base(h, i) \in Headers(h) /\ Width(h, Base(h, i)) \in Nat \ {0}
        /\ Base(h, i) = Destination(h, i) \/ Base(h, i) = Source(h, i)
        /\ h.generations[Base(h, i)] = generation_from(Name(h, i))
  BY PlanEntry, HeaderIsObject DEF PlanIsCurrent, Base, IdAt, make_object_id, generation_from
<1>2. ASSUME NEW i \in DOMAIN h.plan
      PROVE  /\ Destination(h, i) <= Source(h, i)
             /\ Source(h, i) + Width(h, Base(h, i)) <= Size(h)
             /\ generation_from(Name(h, i)) > 0
  BY DEF PlanIsCurrent, PlanSlides, Name
<1>3. ASSUME NEW i \in DOMAIN h.plan, NEW j \in DOMAIN h.plan, i < j
      PROVE  Base(h, i) + Width(h, Base(h, i)) <= Base(h, j)
  <2>1. /\ Source(h, i) + Width(h, Base(h, i)) <= Source(h, j)
        /\ Destination(h, i) + Width(h, Base(h, i)) <= Destination(h, j)
    BY <1>3 DEF PlanIsCurrent, PlanSlides
  <2> QED BY <1>1, <1>2, <1>3, <2>1 DEF Base
<1>4. Size(h) \in Nat
  BY HeaderIsObject
<1>5. ASSUME NEW s \in Headers(h)
      PROVE  h.generations[s] > 0 /\ s + Width(h, s) <= Size(h)
  <2>1. PICK i \in DOMAIN h.plan : s = Base(h, i)
    BY DEF PlanIsCurrent
  <2> QED BY <1>1, <1>2, <1>4, <2>1
<1>6. ASSUME NEW s \in Headers(h), NEW t \in Headers(h), s < t
      PROVE  s + Width(h, s) <= t
  <2>1. PICK i \in DOMAIN h.plan : s = Base(h, i)
    BY DEF PlanIsCurrent
  <2>2. PICK j \in DOMAIN h.plan : t = Base(h, j)
    BY DEF PlanIsCurrent
  <2>3. i < j \/ i = j \/ j < i
    BY <1>1
  <2>4. CASE j < i
    BY <1>1, <1>3, <1>6, <2>1, <2>2, <2>4
  <2> QED BY <1>1, <1>3, <1>6, <2>1, <2>2, <2>3, <2>4
<1> QED BY <1>5, <1>6 DEF RunsFollow

LEMMA CanonicalIsValue ==
  ASSUME NEW h, HeapIsTyped(h), NEW v \in Values
  PROVE  /\ canonicalize_incremental_compaction_read(h, v) \in Values
         /\ is_object(canonicalize_incremental_compaction_read(h, v)) <=> is_object(v)
<1>1. CASE is_object(v) /\ \E e \in Moved(h) : e.source_id = v
  <2> DEFINE e == CHOOSE d \in Moved(h) : d.source_id = v
  <2>1. e \in Moved(h)
    BY <1>1
  <2> HIDE DEF e
  <2>2. PICK i \in 1 .. h.cursor : e = h.plan[i]
    BY <2>1 DEF Moved
  <2>3. i \in DOMAIN h.plan
    BY <2>2 DEF HeapIsTyped
  <2>4. e.destination_id \in Ids
    BY <2>2, <2>3, PlanEntry
  <2>5. canonicalize_incremental_compaction_read(h, v) = e.destination_id
    BY <1>1 DEF canonicalize_incremental_compaction_read, e
  <2> QED BY <1>1, <2>4, <2>5, IdsAreReferences
<1>2. CASE ~(is_object(v) /\ \E e \in Moved(h) : e.source_id = v)
  BY <1>2 DEF canonicalize_incremental_compaction_read
<1> QED BY <1>1, <1>2

\* A resolved reference names one survivor of the plan.
NamesEntry(h, i, v) == v = Name(h, i) \/ (i <= h.cursor /\ v = h.plan[i].source_id)

Named(h) ==
  /\ \A v \in Ids : Resolves(h, v) => \E i \in DOMAIN h.plan : NamesEntry(h, i, v)
  /\ \A i \in DOMAIN h.plan : \A v \in Ids : NamesEntry(h, i, v) =>
       /\ Resolves(h, v) /\ checked_slot(h, v) = Base(h, i)
       /\ canonicalize_incremental_compaction_read(h, v) = Name(h, i)
  /\ \A i \in DOMAIN h.plan : /\ Base(h, i) \in Headers(h) /\ Name(h, i) \in Ids
                              /\ IdAt(h, Base(h, i)) = Name(h, i)

LEMMA PlanNames ==
  ASSUME NEW h, HeapIsTyped(h), RunsFollow(h), PlanIsCurrent(h)
  PROVE  Named(h)
<1>1. ASSUME NEW v \in Ids, Resolves(h, v)
      PROVE  \E i \in DOMAIN h.plan : NamesEntry(h, i, v)
  BY <1>1, ResolvedByPlan DEF NamesEntry
<1>2. ASSUME NEW i \in DOMAIN h.plan
      PROVE  /\ Base(h, i) \in Headers(h) /\ Name(h, i) \in Ids /\ IdAt(h, Base(h, i)) = Name(h, i)
  BY PlanEntry DEF PlanIsCurrent
<1>3. ASSUME NEW i \in DOMAIN h.plan, NEW v \in Ids, NamesEntry(h, i, v)
      PROVE  /\ Resolves(h, v) /\ checked_slot(h, v) = Base(h, i)
             /\ canonicalize_incremental_compaction_read(h, v) = Name(h, i)
  BY <1>3, MovedResolves DEF NamesEntry
<1> QED BY <1>1, <1>2, <1>3 DEF Named

\* g is h after the relocation of entry k = h.cursor + 1.
ForwardedOwners(h, k, ids) ==
  {IF id = h.plan[k].source_id THEN h.plan[k].destination_id ELSE id : id \in ids}

RelocatedAs(h, k, g) ==
  /\ DOMAIN g = HeapFields
  /\ g.objects = [s \in DOMAIN h.objects |->
                    IF s = Destination(h, k) THEN Survivor(h.objects[Source(h, k)])
                    ELSE IF s = Source(h, k) THEN None ELSE h.objects[s]]
  /\ g.generations = [h.generations EXCEPT ![Destination(h, k)] =
                                             generation_from(h.plan[k].destination_id)]
  /\ g.cursor = k /\ g.plan = h.plan /\ g.phase = h.phase /\ g.shadow = h.shadow
  /\ g.worklist = h.worklist /\ g.allocated = h.allocated /\ g.stress = h.stress
  /\ g.cells = [c \in Cells |-> IF c \in RawCells THEN h.cells[c]
                                ELSE canonicalize_incremental_compaction_read(g, h.cells[c])]
  /\ g.extra = [i \in DOMAIN h.extra |-> canonicalize_incremental_compaction_read(g, h.extra[i])]
  /\ g.weak_refs = ForwardedOwners(h, k, h.weak_refs)
  /\ g.intern_table = ForwardedOwners(h, k, h.intern_table)
  /\ g.ephemerons = ForwardedOwners(h, k, h.ephemerons)
  /\ g.remembered_set \subseteq
       ForwardedOwners(h, k, h.remembered_set) \cup {IdAt(g, Destination(h, k))}
  /\ ForwardedOwners(h, k, h.remembered_set) \subseteq g.remembered_set

\* The young children of a promoted object.
EdgesRecorded(h, k, g) ==
  h.objects[Source(h, k)].age = "Young" /\ HasYoungReference(g, Destination(h, k))
    => IdAt(g, Destination(h, k)) \in g.remembered_set

LEMMA RelocatedIs ==
  ASSUME NEW h, DOMAIN h = HeapFields, NEW k, k = h.cursor + 1, NEW g, g = RelocateNext(h)
  PROVE  RelocatedAs(h, k, g) /\ EdgesRecorded(h, k, g)
<1> DEFINE src == slot_from(h.plan[h.cursor + 1].source_id)
           dst == slot_from(h.plan[h.cursor + 1].destination_id)
           moved == [h EXCEPT
             !.objects = [s \in DOMAIN @ |-> IF s = dst THEN Survivor(h.objects[src])
                                             ELSE IF s = src THEN None ELSE @[s]],
             !.generations[dst] = generation_from(h.plan[h.cursor + 1].destination_id),
             !.cursor = @ + 1]
           rooted == trace_collection_roots(moved,
                       LAMBDA v : canonicalize_incremental_compaction_read(moved, v))
           registered == [rooted EXCEPT
             !.remembered_set = ForwardedOwners(h, h.cursor + 1, @), !.weak_refs = ForwardedOwners(h, h.cursor + 1, @),
             !.intern_table   = ForwardedOwners(h, h.cursor + 1, @), !.ephemerons = ForwardedOwners(h, h.cursor + 1, @)]
<1>1. g = IF h.objects[src].age = "Young" THEN record_promoted_object_edges(registered, dst)
          ELSE registered
  BY DEF RelocateNext, ForwardedOwners
<1>2. src = Source(h, k) /\ dst = Destination(h, k)
  BY DEF Source, Destination
<1>3. /\ DOMAIN moved = HeapFields
      /\ moved.objects = [s \in DOMAIN h.objects |->
                    IF s = dst THEN Survivor(h.objects[src])
                    ELSE IF s = src THEN None ELSE h.objects[s]]
      /\ moved.generations = [h.generations EXCEPT ![dst] = generation_from(h.plan[k].destination_id)]
      /\ moved.cursor = k /\ moved.plan = h.plan /\ moved.phase = h.phase /\ moved.shadow = h.shadow
      /\ moved.worklist = h.worklist /\ moved.allocated = h.allocated /\ moved.stress = h.stress
      /\ moved.cells = h.cells /\ moved.extra = h.extra
      /\ moved.weak_refs = h.weak_refs /\ moved.intern_table = h.intern_table
      /\ moved.ephemerons = h.ephemerons /\ moved.remembered_set = h.remembered_set
  BY DEF HeapFields
<1> HIDE DEF moved, src, dst
<1>4. /\ DOMAIN rooted = HeapFields
      /\ rooted.objects = moved.objects /\ rooted.generations = moved.generations
      /\ rooted.cursor = k /\ rooted.plan = h.plan /\ rooted.phase = h.phase
      /\ rooted.shadow = h.shadow /\ rooted.worklist = h.worklist
      /\ rooted.allocated = h.allocated /\ rooted.stress = h.stress
      /\ rooted.cells = [c \in Cells |-> IF c \in RawCells THEN h.cells[c]
                           ELSE canonicalize_incremental_compaction_read(moved, h.cells[c])]
      /\ rooted.extra = [i \in DOMAIN h.extra |->
                           canonicalize_incremental_compaction_read(moved, h.extra[i])]
      /\ rooted.weak_refs = h.weak_refs /\ rooted.intern_table = h.intern_table
      /\ rooted.ephemerons = h.ephemerons /\ rooted.remembered_set = h.remembered_set
  BY <1>3 DEF HeapFields, trace_collection_roots
<1> HIDE DEF rooted
<1>5. /\ DOMAIN registered = HeapFields
      /\ registered.objects = moved.objects /\ registered.generations = moved.generations
      /\ registered.cursor = k /\ registered.plan = h.plan /\ registered.phase = h.phase
      /\ registered.shadow = h.shadow /\ registered.worklist = h.worklist
      /\ registered.allocated = h.allocated /\ registered.stress = h.stress
      /\ registered.cells = rooted.cells /\ registered.extra = rooted.extra
      /\ registered.weak_refs = ForwardedOwners(h, k, h.weak_refs)
      /\ registered.intern_table = ForwardedOwners(h, k, h.intern_table)
      /\ registered.ephemerons = ForwardedOwners(h, k, h.ephemerons)
      /\ registered.remembered_set = ForwardedOwners(h, k, h.remembered_set)
  BY <1>4 DEF HeapFields
<1> HIDE DEF registered
<1>6. /\ \A v : canonicalize_incremental_compaction_read(registered, v) =
                  canonicalize_incremental_compaction_read(moved, v)
  BY <1>3, <1>5 DEF canonicalize_incremental_compaction_read, Moved
<1>7. \/ /\ g = registered
         /\ ~(h.objects[src].age = "Young" /\ HasYoungReference(registered, dst))
      \/ g = record_remembered_object(registered, IdAt(registered, dst))
  BY <1>1 DEF record_promoted_object_edges
<1>8. RelocatedAs(h, k, registered)
  BY <1>2, <1>3, <1>4, <1>5, <1>6 DEF RelocatedAs
<1>9. CASE g = record_remembered_object(registered, IdAt(registered, dst))
  <2>1. /\ DOMAIN g = HeapFields
        /\ g.objects = registered.objects /\ g.generations = registered.generations
        /\ g.cursor = registered.cursor /\ g.plan = registered.plan /\ g.phase = registered.phase
        /\ g.shadow = registered.shadow /\ g.worklist = registered.worklist
        /\ g.allocated = registered.allocated /\ g.stress = registered.stress
        /\ g.cells = registered.cells /\ g.extra = registered.extra
        /\ g.weak_refs = registered.weak_refs /\ g.intern_table = registered.intern_table
        /\ g.ephemerons = registered.ephemerons
        /\ g.remembered_set = registered.remembered_set \cup {IdAt(registered, dst)}
    BY <1>5, <1>9 DEF record_remembered_object, HeapFields
  <2>2. IdAt(registered, dst) = IdAt(g, Destination(h, k))
    BY <1>2, <2>1 DEF IdAt
  <2>3. \A v : canonicalize_incremental_compaction_read(registered, v) =
                 canonicalize_incremental_compaction_read(g, v)
    BY <2>1 DEF canonicalize_incremental_compaction_read, Moved
  <2>4. RelocatedAs(h, k, g)
    BY <1>5, <1>8, <2>1, <2>2, <2>3 DEF RelocatedAs
  <2> QED BY <2>1, <2>2, <2>4 DEF EdgesRecorded
<1>10. CASE /\ g = registered
            /\ ~(h.objects[src].age = "Young" /\ HasYoungReference(registered, dst))
  BY <1>2, <1>8, <1>10 DEF EdgesRecorded
<1> QED BY <1>7, <1>9, <1>10

\* Every survivor of h has its place and its current id in g.
Relocated(h, g) ==
  /\ HeapIsTyped(g) /\ RunsFollow(g) /\ PlanIsCurrent(g) /\ g.plan = h.plan
  /\ \A i \in DOMAIN h.plan : SameContents(h.objects[Base(h, i)], g.objects[Base(g, i)])
  /\ \A i \in DOMAIN h.plan : i <= h.cursor => i <= g.cursor

\* Entry k is the one that gets another place and name.
EntryMoves(h, k, g) ==
  /\ k \in DOMAIN h.plan
  /\ Base(h, k) = Source(h, k) /\ Name(h, k) = h.plan[k].source_id
  /\ Base(g, k) = Destination(h, k) /\ Name(g, k) = h.plan[k].destination_id
  /\ \A i \in DOMAIN h.plan : i # k => Name(g, i) = Name(h, i) /\ Name(h, i) # Name(h, k)

LEMMA RelocationPlaces ==
  ASSUME NEW h, LayoutInv(h), h.phase = "compacting", h.cursor < Len(h.plan),
         NEW k, k = h.cursor + 1, NEW g, RelocatedAs(h, k, g)
  PROVE  Relocated(h, g) /\ EntryMoves(h, k, g)
<1> DEFINE src == Source(h, k)
           dst == Destination(h, k)
<1>1. HeapIsTyped(h) /\ RunsFollow(h) /\ PlanIsCurrent(h) /\ h.worklist = {}
  BY DEF LayoutInv, PhaseIsClean
<1>2. h.cursor \in Nat /\ Len(h.plan) \in Nat /\ DOMAIN h.plan = 1 .. Len(h.plan) /\ h.plan \in Seq(Relocations)
  <2>1. h.plan \in Seq(Relocations) /\ h.cursor \in 0 .. Len(h.plan)
    BY <1>1 DEF HeapIsTyped
  <2> HIDE DEF Relocations
  <2> QED BY <2>1
<1>3. k \in DOMAIN h.plan /\ k \in Nat
  BY <1>2
<1>4. /\ Size(h) \in Nat /\ DOMAIN h.objects = 0 .. Size(h) - 1
      /\ Headers(h) \subseteq 0 .. Size(h) - 1
      /\ \A s \in Headers(h) : Width(h, s) \in Nat \ {0} /\ h.objects[s] \in Objects
  BY <1>1, HeaderIsObject
<1>5. /\ \A i : Source(g, i) = Source(h, i) /\ Destination(g, i) = Destination(h, i)
      /\ \A i \in DOMAIN h.plan : i # k => Base(g, i) = Base(h, i) /\ Name(g, i) = Name(h, i)
      /\ Base(h, k) = src /\ Name(h, k) = h.plan[k].source_id
      /\ Base(g, k) = dst /\ Name(g, k) = h.plan[k].destination_id
  <2>1. g.plan = h.plan /\ g.cursor = k
    BY DEF RelocatedAs
  <2>2. \A i \in DOMAIN h.plan : i # k => (i <= k <=> i <= h.cursor)
    BY <1>2
  <2>3. ~(k <= h.cursor) /\ k <= k
    BY <1>2
  <2> QED BY <2>1, <2>2, <2>3 DEF Source, Destination, Base, Name
<1>6. ASSUME NEW i \in DOMAIN h.plan
      PROVE  /\ i \in Nat /\ Source(h, i) \in Int /\ Destination(h, i) \in Int
             /\ Base(h, i) \in Headers(h) /\ Width(h, Base(h, i)) \in Nat \ {0}
             /\ IdAt(h, Base(h, i)) = Name(h, i)
             /\ 0 <= Destination(h, i) /\ Destination(h, i) <= Source(h, i)
             /\ Source(h, i) + Width(h, Base(h, i)) <= Size(h)
             /\ Base(h, i) = Destination(h, i) \/ Base(h, i) = Source(h, i)
  BY <1>1, <1>4, PlanEntry DEF PlanIsCurrent, PlanSlides, Base
<1>7. src \in Headers(h) /\ dst \in 0 .. Size(h) - 1
  BY <1>3, <1>4, <1>5, <1>6
<1>8. ASSUME NEW i \in DOMAIN h.plan, i # k
      PROVE  Base(h, i) # src /\ Base(h, i) # dst /\ Name(h, i) # Name(h, k)
  <2>1. Base(h, i) # src /\ h.plan[i].source_id # h.plan[k].source_id /\ Destination(h, i) # dst
    BY <1>1, <1>3, <1>5, <1>8, SourcesDiffer
  <2>2. h.plan[k].source_id # h.plan[i].destination_id
    BY <1>1, <1>3, <1>8 DEF PlanIsCurrent, PlanSlides
  <2>3. i <= h.cursor => Base(h, i) # dst
    BY <2>1 DEF Base
  <2>4. ~(i <= h.cursor) => Base(h, i) # dst
    <3>1. SUFFICES ASSUME ~(i <= h.cursor) PROVE Base(h, i) # dst
      OBVIOUS
    <3>2. k < i
      BY <1>2, <1>6, <1>8, <3>1
    <3>3. src + Width(h, Base(h, k)) <= Source(h, i)
      BY <1>1, <1>3, <3>2 DEF PlanIsCurrent, PlanSlides
    <3>4. Base(h, i) = Source(h, i)
      BY <3>1 DEF Base
    <3> QED BY <1>3, <1>6, <3>3, <3>4
  <2>5. Name(h, i) # Name(h, k)
    BY <1>5, <2>1, <2>2 DEF Name
  <2> QED BY <2>1, <2>3, <2>4, <2>5
<1>9. /\ g.objects = [s \in DOMAIN h.objects |->
                    IF s = dst THEN Survivor(h.objects[src])
                    ELSE IF s = src THEN None ELSE h.objects[s]]
      /\ g.generations = [h.generations EXCEPT ![dst] = generation_from(h.plan[k].destination_id)]
  BY DEF RelocatedAs
<1>10. ASSUME NEW i \in DOMAIN h.plan
       PROVE  /\ SameContents(h.objects[Base(h, i)], g.objects[Base(g, i)])
              /\ Base(g, i) \in DOMAIN h.objects
  <2>1. CASE i = k
    <3>1. SameContents(h.objects[src], Survivor(h.objects[src]))
      BY <1>4, <1>7, SurvivorKeeps
    <3> QED BY <1>4, <1>5, <1>7, <1>9, <2>1, <3>1
  <2>2. CASE i # k
    <3>1. Base(g, i) = Base(h, i) /\ Base(h, i) \in DOMAIN h.objects
      BY <1>4, <1>5, <1>6, <2>2
    <3>2. g.objects[Base(h, i)] = h.objects[Base(h, i)]
      BY <1>8, <1>9, <2>2, <3>1
    <3>3. h.objects[Base(h, i)] \in Objects
      BY <1>4, <1>6
    <3> QED BY <3>1, <3>2, <3>3 DEF SameContents
  <2> QED BY <2>1, <2>2
<1>11. Headers(g) = {Base(g, i) : i \in DOMAIN h.plan}
  <2>1. DOMAIN g.objects = DOMAIN h.objects
    BY <1>9
  <2>2. \A i \in DOMAIN h.plan : g.objects[Base(g, i)] # None
    BY <1>10, NoneAssumption DEF SameContents
  <2>3. ASSUME NEW s \in Headers(g) PROVE \E i \in DOMAIN h.plan : s = Base(g, i)
    <3>1. s \in DOMAIN h.objects /\ g.objects[s] # None
      BY <2>1 DEF Headers
    <3>2. CASE s = dst
      BY <1>3, <1>5, <3>2
    <3>3. CASE s # dst
      <4>1. s # src /\ s \in Headers(h)
        BY <1>9, <3>1, <3>3 DEF Headers
      <4>2. PICK i \in DOMAIN h.plan : s = Base(h, i)
        BY <1>1, <4>1 DEF PlanIsCurrent
      <4>3. i # k
        BY <1>5, <4>1, <4>2
      <4> QED BY <1>5, <4>2, <4>3
    <3> QED BY <3>2, <3>3
  <2> QED BY <1>10, <2>1, <2>2, <2>3 DEF Headers
<1>12. Size(g) = Size(h)
  BY <1>9 DEF Size
<1>13. ASSUME NEW i \in DOMAIN h.plan
       PROVE  IdAt(g, Base(g, i)) = Name(g, i) /\ Width(g, Base(g, i)) = Width(h, Base(h, i))
  <2>1. DOMAIN h.generations = DOMAIN h.objects
    BY <1>1, HeaderIsObject
  <2>2. i = k => IdAt(g, Base(g, i)) = Name(g, i)
    <3>1. g.generations[dst] = generation_from(h.plan[k].destination_id)
      BY <1>4, <1>7, <1>9, <2>1
    <3>2. h.plan[k].destination_id = make_object_id(dst, generation_from(h.plan[k].destination_id))
      BY <1>1, <1>3, PlanEntry, IdParts DEF Destination
    <3> QED BY <1>5, <3>1, <3>2 DEF IdAt
  <2>3. i # k => IdAt(g, Base(g, i)) = Name(g, i)
    <3>1. SUFFICES ASSUME i # k PROVE IdAt(g, Base(g, i)) = Name(g, i)
      OBVIOUS
    <3>2. g.generations[Base(h, i)] = h.generations[Base(h, i)]
      BY <1>8, <1>9, <3>1
    <3> QED BY <1>5, <1>6, <3>1, <3>2 DEF IdAt
  <2>4. Width(g, Base(g, i)) = Width(h, Base(h, i))
    BY <1>10, SameContentsAgree DEF Width
  <2> QED BY <2>2, <2>3, <2>4
<1>14. PlanIsCurrent(g)
  <2>1. g.plan = h.plan
    BY DEF RelocatedAs
  <2>2. PlanSlides(g)
    BY <1>1, <1>5, <1>12, <1>13, <2>1 DEF PlanIsCurrent, PlanSlides
  <2> QED BY <1>11, <1>13, <2>1, <2>2 DEF PlanIsCurrent
<1>15. HeapIsTyped(g)
  <2>1. g.objects \in [0 .. Size(h) - 1 -> Objects \cup {None}]
    <3>1. h.objects \in [0 .. Size(h) - 1 -> Objects \cup {None}]
      BY <1>1 DEF HeapIsTyped
    <3>2. Survivor(h.objects[src]) \in Objects
      BY <1>4, <1>7, SurvivorKeeps DEF SameContents
    <3> QED BY <1>4, <1>9, <3>1, <3>2
  <2>2. g.generations \in [0 .. Size(h) - 1 -> Nat]
    <3>1. generation_from(h.plan[k].destination_id) \in Nat
      BY <1>1, <1>3, PlanEntry, IdParts
    <3> QED BY <1>1, <1>9, <3>1 DEF HeapIsTyped
  <2>3. /\ h.plan[k].destination_id \in Ids
        /\ \A ids : ids \subseteq Ids => ForwardedOwners(h, k, ids) \subseteq Ids
    BY <1>1, <1>3, PlanEntry DEF ForwardedOwners
  <2>4. IdAt(g, dst) \in Ids
    BY <1>3, <1>5, <1>13, <2>3
  <2>5. /\ h.remembered_set \subseteq Ids /\ h.weak_refs \subseteq Ids /\ h.ephemerons \subseteq Ids
        /\ h.intern_table \subseteq Ids
    BY <1>1 DEF HeapIsTyped
  <2>6. /\ g.remembered_set \subseteq ForwardedOwners(h, k, h.remembered_set) \cup {IdAt(g, dst)}
        /\ g.weak_refs = ForwardedOwners(h, k, h.weak_refs)
        /\ g.ephemerons = ForwardedOwners(h, k, h.ephemerons)
        /\ g.intern_table = ForwardedOwners(h, k, h.intern_table)
        /\ g.worklist = h.worklist
    BY DEF RelocatedAs
  <2>7. /\ g.remembered_set \subseteq Ids /\ g.weak_refs \subseteq Ids /\ g.ephemerons \subseteq Ids
        /\ g.intern_table \subseteq Ids /\ g.worklist \subseteq Ids
    BY <1>1, <2>3, <2>4, <2>5, <2>6
  <2>8. g.cells \in [Cells -> Values] /\ g.extra \in Seq(Values)
    <3>1. /\ Moved(g) = {h.plan[i] : i \in 1 .. k}
          /\ \A v \in Values : canonicalize_incremental_compaction_read(g, v) \in Values
      <4>1. Moved(g) = {h.plan[i] : i \in 1 .. k} /\ \A e \in Moved(g) : e.destination_id \in Values
        <5>1. Moved(g) = {h.plan[i] : i \in 1 .. k}
          BY DEF RelocatedAs, Moved
        <5>2. \A i \in 1 .. k : i \in DOMAIN h.plan
          BY <1>2, <1>3
        <5>3. \A i \in DOMAIN h.plan : h.plan[i].destination_id \in Values
          BY <1>1, PlanEntry, IdsAreReferences
        <5> QED BY <5>1, <5>2, <5>3
      <4>2. ASSUME NEW v \in Values PROVE canonicalize_incremental_compaction_read(g, v) \in Values
        BY <4>1 DEF canonicalize_incremental_compaction_read
      <4> QED BY <4>1, <4>2
    <3>2. h.cells \in [Cells -> Values] /\ h.extra \in Seq(Values)
      BY <1>1 DEF HeapIsTyped
    <3>3. /\ g.cells = [c \in Cells |-> IF c \in RawCells THEN h.cells[c]
                                        ELSE canonicalize_incremental_compaction_read(g, h.cells[c])]
          /\ g.extra = [i \in DOMAIN h.extra |-> canonicalize_incremental_compaction_read(g, h.extra[i])]
      BY DEF RelocatedAs
    <3>4. g.cells \in [Cells -> Values]
      BY <3>1, <3>2, <3>3
    <3>5. g.extra \in Seq(Values)
      <4>1. DOMAIN h.extra = 1 .. Len(h.extra) /\ Len(h.extra) \in Nat
        BY <3>2
      <4>2. \A i \in DOMAIN h.extra : h.extra[i] \in Values
        BY <3>2
      <4> QED BY <3>1, <3>3, <4>1, <4>2
    <3> QED BY <3>4, <3>5
  <2>9. /\ g.plan = h.plan /\ g.cursor = k /\ g.phase = h.phase /\ g.allocated = h.allocated
        /\ DOMAIN g = HeapFields
    BY DEF RelocatedAs
  <2>10. k \in 0 .. Len(h.plan)
    BY <1>2, <1>3
  <2>11. h.phase \in {"idle", "marking", "compacting"} /\ h.allocated \in Nat
    BY <1>1 DEF HeapIsTyped
  <2> HIDE DEF Relocations
  <2> QED BY <1>2, <1>4, <1>12, <2>1, <2>2, <2>7, <2>8, <2>9, <2>10, <2>11 DEF HeapIsTyped
<1>16. RunsFollow(g)
  <2>1. \A s \in Headers(h) : validate_descriptor_shape(h.objects[s])
    BY <1>1 DEF RunsFollow
  <2>2. ASSUME NEW s \in Headers(g) PROVE validate_descriptor_shape(g.objects[s])
    <3>1. PICK i \in DOMAIN h.plan : s = Base(g, i)
      BY <1>11
    <3> QED BY <1>6, <1>10, <2>1, <3>1, SameContentsAgree
  <2> QED BY <1>14, <1>15, <2>2, PlanRuns
<1>17. g.plan = h.plan /\ \A i \in DOMAIN h.plan : i <= h.cursor => i <= g.cursor
  BY <1>2 DEF RelocatedAs
<1>18. EntryMoves(h, k, g)
  BY <1>3, <1>5, <1>8 DEF EntryMoves
<1> QED BY <1>10, <1>14, <1>15, <1>16, <1>17, <1>18 DEF Relocated

LEMMA RelocatedReference ==
  ASSUME NEW h, LayoutInv(h), h.phase = "compacting", NEW g, Relocated(h, g),
         NEW v \in Ids, Resolves(h, v), NEW w, w = canonicalize_incremental_compaction_read(g, v)
  PROVE  /\ Becomes(h, v, g, v) /\ Becomes(h, v, g, w) /\ w \in Ids
         /\ ObjectOf(g, v).text = ObjectOf(h, v).text
<1>1. HeapIsTyped(h) /\ RunsFollow(h) /\ PlanIsCurrent(h) /\ Named(h)
  BY PlanNames DEF LayoutInv, PhaseIsClean
<1>2. HeapIsTyped(g) /\ RunsFollow(g) /\ PlanIsCurrent(g) /\ g.plan = h.plan /\ Named(g)
  BY PlanNames DEF Relocated
<1>3. PICK i \in DOMAIN h.plan : NamesEntry(h, i, v)
  BY <1>1 DEF Named
<1>4. NamesEntry(g, i, v)
  BY <1>2, <1>3 DEF NamesEntry, Name, Relocated
<1>5. /\ checked_slot(h, v) = Base(h, i) /\ Resolves(g, v) /\ checked_slot(g, v) = Base(g, i)
      /\ w = Name(g, i) /\ w \in Ids
  BY <1>1, <1>2, <1>3, <1>4 DEF Named
<1>6. Resolves(g, w) /\ checked_slot(g, w) = Base(g, i)
  <2>1. NamesEntry(g, i, w)
    BY <1>5 DEF NamesEntry
  <2> QED BY <1>2, <1>5, <2>1 DEF Named
<1>7. SameContents(h.objects[Base(h, i)], g.objects[Base(g, i)])
  BY DEF Relocated
<1>8. SameShape(h.objects[Base(h, i)], g.objects[Base(g, i)])
  BY <1>7 DEF SameContents, SameShape
<1>9. is_object(v) /\ is_object(w)
  BY <1>5, IdsAreReferences
<1> QED BY <1>5, <1>6, <1>8, <1>9 DEF Becomes, ObjectOf, SameShape

\* Every canonical string stays canonical.
KeepsTexts(h, g) ==
  \A old \in h.intern_table : \E id \in g.intern_table : ObjectOf(g, id).text = ObjectOf(h, old).text

LEMMA KeepsTextsOn ==
  ASSUME NEW h, NEW g, NEW k, KeepsTexts(h, g), KeepsTexts(g, k)
  PROVE  KeepsTexts(h, k)
<1> SUFFICES ASSUME NEW old \in h.intern_table
             PROVE  \E id \in k.intern_table : ObjectOf(k, id).text = ObjectOf(h, old).text
  BY DEF KeepsTexts
<1>1. PICK mid \in g.intern_table : ObjectOf(g, mid).text = ObjectOf(h, old).text
  BY DEF KeepsTexts
<1>2. PICK id \in k.intern_table : ObjectOf(k, id).text = ObjectOf(g, mid).text
  BY DEF KeepsTexts
<1> QED BY <1>1, <1>2

\* The registries name the survivors of the plan.
EntriesOf(h, K) == {Name(h, i) : i \in K}

LEMMA RegisteredEntries ==
  ASSUME NEW h, Named(h), PlanIsCurrent(h), NEW kind
  PROVE  OfKind(h, kind) = EntriesOf(h, {i \in DOMAIN h.plan : h.objects[Base(h, i)].kind = kind})
<1>1. \A s \in Headers(h) : \E i \in DOMAIN h.plan : s = Base(h, i) /\ IdAt(h, s) = Name(h, i)
  BY DEF PlanIsCurrent
<1>2. \A i \in DOMAIN h.plan : Base(h, i) \in Headers(h) /\ IdAt(h, Base(h, i)) = Name(h, i)
  BY DEF Named
<1> QED BY <1>1, <1>2 DEF OfKind, EntriesOf

LEMMA RelocateKeeps ==
  ASSUME NEW h, LayoutInv(h), h.phase = "compacting", h.cursor < Len(h.plan),
         NEW g, g = RelocateNext(h)
  PROVE  /\ LayoutInv(g) /\ Carries(h, g) /\ KeepsTexts(h, g)
         /\ g.phase = "compacting" /\ g.plan = h.plan /\ g.cursor = h.cursor + 1
<1> DEFINE k == h.cursor + 1
<1>1. /\ HeapIsTyped(h) /\ RunsFollow(h) /\ PlanIsCurrent(h) /\ h.worklist = {} /\ Named(h)
      /\ RegistriesName(h) /\ NamesAreUsed(h) /\ DOMAIN h = HeapFields
  BY PlanNames DEF LayoutInv, PhaseIsClean, HeapIsTyped
<1>2. k = h.cursor + 1
  OBVIOUS
<1> HIDE DEF k
<1>3. RelocatedAs(h, k, g)
  BY <1>1, <1>2, RelocatedIs
<1>4. /\ k \in DOMAIN h.plan /\ Relocated(h, g) /\ Base(g, k) = Destination(h, k)
      /\ Name(h, k) = h.plan[k].source_id /\ Name(g, k) = h.plan[k].destination_id
      /\ \A i \in DOMAIN h.plan : i # k => Name(g, i) = Name(h, i) /\ Name(h, i) # Name(h, k)
  <2>1. Relocated(h, g) /\ EntryMoves(h, k, g)
    BY <1>2, <1>3, RelocationPlaces
  <2> QED BY <2>1 DEF EntryMoves
<1>5. HeapIsTyped(g) /\ RunsFollow(g) /\ PlanIsCurrent(g) /\ g.plan = h.plan /\ Named(g)
  BY <1>4, PlanNames DEF Relocated
<1>6. \A i \in DOMAIN h.plan : SameContents(h.objects[Base(h, i)], g.objects[Base(g, i)])
  BY <1>4 DEF Relocated
<1>7. ASSUME NEW K \in SUBSET DOMAIN h.plan
      PROVE  ForwardedOwners(h, k, EntriesOf(h, K)) = EntriesOf(g, K)
  <2>1. \A i \in K : Name(g, i) = IF Name(h, i) = h.plan[k].source_id THEN h.plan[k].destination_id
                                  ELSE Name(h, i)
    BY <1>4
  <2> QED BY <2>1 DEF ForwardedOwners, EntriesOf
<1>8. ASSUME NEW kind PROVE ForwardedOwners(h, k, OfKind(h, kind)) = OfKind(g, kind)
  <2> DEFINE K == {i \in DOMAIN h.plan : h.objects[Base(h, i)].kind = kind}
  <2>1. OfKind(h, kind) = EntriesOf(h, K)
    BY <1>1, RegisteredEntries
  <2>2. OfKind(g, kind) = EntriesOf(g, {i \in DOMAIN g.plan : g.objects[Base(g, i)].kind = kind})
    BY <1>5, RegisteredEntries
  <2>3. {i \in DOMAIN g.plan : g.objects[Base(g, i)].kind = kind} = K
    BY <1>5, <1>6 DEF SameContents
  <2>4. K \in SUBSET DOMAIN h.plan
    OBVIOUS
  <2> HIDE DEF K
  <2> QED BY <1>7, <2>1, <2>2, <2>3, <2>4
<1>9. ASSUME NEW v \in Ids, Resolves(h, v)
      PROVE  /\ Becomes(h, v, g, v) /\ Resolves(g, v) /\ ObjectOf(g, v).text = ObjectOf(h, v).text
             /\ Becomes(h, v, g, canonicalize_incremental_compaction_read(g, v))
             /\ v = h.plan[k].source_id => Resolves(g, h.plan[k].destination_id)
                  /\ ObjectOf(g, h.plan[k].destination_id).text = ObjectOf(h, v).text
  <2> DEFINE w == canonicalize_incremental_compaction_read(g, v)
  <2>1. w = canonicalize_incremental_compaction_read(g, v)
    OBVIOUS
  <2> HIDE DEF w
  <2>2. /\ Becomes(h, v, g, v) /\ Becomes(h, v, g, w) /\ w \in Ids /\ ObjectOf(g, v).text = ObjectOf(h, v).text
    BY <1>4, <1>9, <2>1, RelocatedReference
  <2>3. Resolves(g, v)
    BY <1>9, <2>2, IdsAreReferences DEF Becomes
  <2>4. ASSUME v = h.plan[k].source_id
        PROVE  /\ Resolves(g, h.plan[k].destination_id)
               /\ ObjectOf(g, h.plan[k].destination_id).text = ObjectOf(h, v).text
    <3>1. g.cursor = k /\ k <= k
      BY <1>1, <1>2, <1>3 DEF RelocatedAs, HeapIsTyped
    <3>2. NamesEntry(g, k, v) /\ NamesEntry(g, k, h.plan[k].destination_id)
      BY <1>4, <1>5, <2>4, <3>1 DEF NamesEntry
    <3>3. h.plan[k].destination_id \in Ids
      BY <1>1, <1>4, PlanEntry
    <3>4. /\ checked_slot(g, v) = Base(g, k) /\ checked_slot(g, h.plan[k].destination_id) = Base(g, k)
          /\ Resolves(g, h.plan[k].destination_id)
      BY <1>4, <1>5, <3>2, <3>3 DEF Named
    <3> QED BY <2>2, <3>4 DEF ObjectOf
  <2> QED BY <2>1, <2>2, <2>3, <2>4
<1>10. /\ g.weak_refs = OfKind(g, "WeakRef") /\ g.ephemerons = OfKind(g, "Ephemeron")
       /\ g.intern_table \subseteq OfKind(g, "Str")
       /\ g.intern_table = ForwardedOwners(h, k, h.intern_table)
  <2>1. /\ g.weak_refs = ForwardedOwners(h, k, h.weak_refs)
        /\ g.ephemerons = ForwardedOwners(h, k, h.ephemerons)
        /\ g.intern_table = ForwardedOwners(h, k, h.intern_table)
    BY <1>3 DEF RelocatedAs
  <2>2. \A ids, more : ids \subseteq more => ForwardedOwners(h, k, ids) \subseteq ForwardedOwners(h, k, more)
    BY DEF ForwardedOwners
  <2>3. /\ h.weak_refs = OfKind(h, "WeakRef") /\ h.ephemerons = OfKind(h, "Ephemeron")
        /\ h.intern_table \subseteq OfKind(h, "Str")
    BY <1>1 DEF RegistriesName
  <2> QED BY <1>8, <2>1, <2>2, <2>3
<1>11. \A id \in g.remembered_set : Resolves(g, id)
  <2> SUFFICES ASSUME NEW id \in g.remembered_set PROVE Resolves(g, id)
    OBVIOUS
  <2>1. id \in ForwardedOwners(h, k, h.remembered_set) \/ id = IdAt(g, Destination(h, k))
    BY <1>3 DEF RelocatedAs
  <2>2. CASE id = IdAt(g, Destination(h, k))
    <3>1. Base(g, k) \in Headers(g)
      BY <1>4, <1>5 DEF Named
    <3> QED BY <1>4, <1>5, <2>2, <3>1, IdOfBase
  <2>3. CASE id \in ForwardedOwners(h, k, h.remembered_set)
    <3>1. PICK v \in h.remembered_set :
               id = IF v = h.plan[k].source_id THEN h.plan[k].destination_id ELSE v
      BY <2>3 DEF ForwardedOwners
    <3>2. v \in Ids /\ Resolves(h, v)
      BY <1>1, <3>1 DEF HeapIsTyped, RegistriesName
    <3> QED BY <1>9, <3>1, <3>2
  <2> QED BY <2>1, <2>2, <2>3
<1>12. \A s \in Headers(g) : \A v \in SoftReferences(g.objects[s]) : Resolves(g, v)
  <2> SUFFICES ASSUME NEW s \in Headers(g), NEW v \in SoftReferences(g.objects[s]) PROVE Resolves(g, v)
    OBVIOUS
  <2>1. PICK i \in DOMAIN h.plan : s = Base(g, i)
    BY <1>5 DEF PlanIsCurrent
  <2>2. SoftReferences(g.objects[s]) = SoftReferences(h.objects[Base(h, i)])
    BY <1>6, <2>1, SameContentsAgree
  <2>3. Base(h, i) \in Headers(h)
    BY <1>1, <2>1 DEF Named
  <2>4. v \in Ids /\ Resolves(h, v)
    <3>1. h.objects[Base(h, i)] \in Objects
      BY <1>1, <2>3, HeaderIsObject
    <3>2. v \in Values \ {Nil}
      BY <2>2, <3>1, FieldsAreValues
    <3> QED BY <1>1, <2>2, <2>3, <3>2 DEF RegistriesName, Values
  <2> QED BY <1>9, <2>4
<1>13. \A id \in g.intern_table :
         \E old \in h.intern_table :
           /\ id = IF old = h.plan[k].source_id THEN h.plan[k].destination_id ELSE old
           /\ ObjectOf(g, id).text = ObjectOf(h, old).text
  <2> SUFFICES ASSUME NEW id \in g.intern_table
               PROVE  \E old \in h.intern_table :
                        /\ id = IF old = h.plan[k].source_id THEN h.plan[k].destination_id ELSE old
                        /\ ObjectOf(g, id).text = ObjectOf(h, old).text
    OBVIOUS
  <2>1. PICK old \in h.intern_table :
             id = IF old = h.plan[k].source_id THEN h.plan[k].destination_id ELSE old
    BY <1>10 DEF ForwardedOwners
  <2>2. PICK s \in Headers(h) : old = IdAt(h, s)
    BY <1>1 DEF RegistriesName, OfKind
  <2>3. old \in Ids /\ Resolves(h, old)
    BY <1>1, <2>2, IdOfBase
  <2> QED BY <1>9, <2>1, <2>3
<1>14. RegistriesName(g)
  <2>1. ASSUME NEW a \in g.intern_table, NEW b \in g.intern_table,
               ObjectOf(g, a).text = ObjectOf(g, b).text
        PROVE  a = b
    <3>1. PICK x \in h.intern_table :
               /\ a = IF x = h.plan[k].source_id THEN h.plan[k].destination_id ELSE x
               /\ ObjectOf(g, a).text = ObjectOf(h, x).text
      BY <1>13
    <3>2. PICK y \in h.intern_table :
               /\ b = IF y = h.plan[k].source_id THEN h.plan[k].destination_id ELSE y
               /\ ObjectOf(g, b).text = ObjectOf(h, y).text
      BY <1>13
    <3>3. x = y
      BY <1>1, <2>1, <3>1, <3>2 DEF RegistriesName
    <3> QED BY <3>1, <3>2, <3>3
  <2> QED BY <1>10, <1>11, <1>12, <2>1 DEF RegistriesName
<1>15. NamesAreUsed(g)
  <2> SUFFICES ASSUME NEW s \in Headers(g)
               PROVE  g.objects[s].data < g.allocated
                      /\ (g.objects[s].kind = "Builder" => g.objects[s].length > 0)
    BY DEF NamesAreUsed
  <2>1. PICK i \in DOMAIN h.plan : s = Base(g, i)
    BY <1>5 DEF PlanIsCurrent
  <2>2. Base(h, i) \in Headers(h)
    BY <1>1, <2>1 DEF Named
  <2>3. g.allocated = h.allocated
    BY <1>3 DEF RelocatedAs
  <2>4. SameContents(h.objects[Base(h, i)], g.objects[s])
    BY <1>6, <2>1
  <2> QED BY <1>1, <2>2, <2>3, <2>4 DEF SameContents, NamesAreUsed
<1>16. PhaseIsClean(g)
  <2>1. g.phase = "compacting" /\ g.worklist = {}
    BY <1>1, <1>3 DEF RelocatedAs
  <2> QED BY <1>5, <2>1 DEF PhaseIsClean
<1>17. Carries(h, g)
  <2>1. h.extra \in Seq(Values) /\ g.extra = [i \in DOMAIN h.extra |-> canonicalize_incremental_compaction_read(g, h.extra[i])]
    BY <1>1, <1>3 DEF RelocatedAs, HeapIsTyped
  <2>2. Len(g.extra) = Len(h.extra)
    BY <2>1
  <2>3. ASSUME NEW i \in DOMAIN h.extra PROVE Becomes(h, h.extra[i], g, g.extra[i])
    <3> DEFINE v == h.extra[i]
               w == canonicalize_incremental_compaction_read(g, v)
    <3>1. v \in Values /\ g.extra[i] = w
      BY <2>1, <2>3
    <3>2. is_object(w) <=> is_object(v)
      BY <1>5, <3>1, CanonicalIsValue
    <3>3. is_object(v) => v \in Ids
      BY <3>1, ValueIsId
    <3>4. is_object(v) /\ Resolves(h, v) => Becomes(h, v, g, w)
      BY <1>9, <3>3
    <3> HIDE DEF v, w
    <3>5. Becomes(h, v, g, w)
      BY <3>2, <3>4 DEF Becomes
    <3> QED BY <3>1, <3>5 DEF v
  <2>4. \A id \in g.intern_table : \E old \in h.intern_table : ObjectOf(h, old).text = ObjectOf(g, id).text
    BY <1>13
  <2> QED BY <1>3, <2>2, <2>3, <2>4 DEF Carries, RelocatedAs
<1>18. KeepsTexts(h, g)
  <2> SUFFICES ASSUME NEW old \in h.intern_table
               PROVE  \E id \in g.intern_table : ObjectOf(g, id).text = ObjectOf(h, old).text
    BY DEF KeepsTexts
  <2>1. PICK s \in Headers(h) : old = IdAt(h, s)
    BY <1>1 DEF RegistriesName, OfKind
  <2>2. old \in Ids /\ Resolves(h, old)
    BY <1>1, <2>1, IdOfBase
  <2> DEFINE id == IF old = h.plan[k].source_id THEN h.plan[k].destination_id ELSE old
  <2>3. id \in g.intern_table
    BY <1>10 DEF ForwardedOwners
  <2>4. ObjectOf(g, id).text = ObjectOf(h, old).text
    BY <1>9, <2>2
  <2> QED BY <2>3, <2>4
<1>19. g.phase = "compacting" /\ g.plan = h.plan /\ g.cursor = h.cursor + 1
  BY <1>2, <1>3 DEF RelocatedAs
<1> QED BY <1>5, <1>14, <1>15, <1>16, <1>17, <1>18, <1>19 DEF LayoutInv

(***************************************************************************)
(* The rest of the plan, and the end of the cycle.                         *)
(***************************************************************************)
RelocatesUpTo(h, n, f) ==
  f = [i \in h.cursor .. n |-> IF i = h.cursor THEN h ELSE RelocateNext(f[i - 1])]

LEMMA RelocationsExist ==
  ASSUME NEW h, NEW n \in Nat, h.cursor \in 0 .. n
  PROVE  \E f : RelocatesUpTo(h, n, f)
<1> DEFINE a == h.cursor
           T == {k \in 0 .. n - a : \E f : RelocatesUpTo(h, a + k, f)}
<1>1. a \in Nat /\ n - a \in Nat
  OBVIOUS
<1>2. 0 \in T
  <2> DEFINE f == [i \in a .. a + 0 |-> h]
  <2>1. RelocatesUpTo(h, a + 0, f)
    BY <1>1 DEF RelocatesUpTo
  <2> HIDE DEF f
  <2> QED BY <1>1, <2>1
<1>3. ASSUME NEW k \in 0 .. n - a, k < n - a, k \in T PROVE k + 1 \in T
  <2>1. PICK f : RelocatesUpTo(h, a + k, f)
    BY <1>3
  <2> DEFINE b == a + k
             g == [i \in a .. b + 1 |-> IF i = b + 1 THEN RelocateNext(f[b]) ELSE f[i]]
  <2>2. b \in Nat /\ a \in 0 .. b /\ a + (k + 1) = b + 1
    BY <1>1
  <2>3. f = [i \in a .. b |-> IF i = a THEN h ELSE RelocateNext(f[i - 1])]
    BY <2>1 DEF RelocatesUpTo
  <2> HIDE DEF b
  <2>4. \A i \in a .. b : g[i] = f[i]
    BY <1>1, <2>2
  <2>5. g[b + 1] = RelocateNext(f[b])
    BY <1>1, <2>2
  <2>6. \A i \in a .. b + 1 : g[i] = IF i = a THEN h ELSE RelocateNext(g[i - 1])
    <3> SUFFICES ASSUME NEW i \in a .. b + 1
                 PROVE  g[i] = IF i = a THEN h ELSE RelocateNext(g[i - 1])
      OBVIOUS
    <3>1. CASE i = b + 1
      <4>1. i # a /\ i - 1 = b /\ b \in a .. b
        BY <1>1, <2>2, <3>1
      <4> HIDE DEF g
      <4> QED BY <2>4, <2>5, <3>1, <4>1
    <3>2. CASE i # b + 1
      <4>1. i \in a .. b /\ (i # a => i - 1 \in a .. b)
        BY <1>1, <2>2, <3>2
      <4>2. f[i] = IF i = a THEN h ELSE RelocateNext(f[i - 1])
        BY <2>3, <4>1
      <4> HIDE DEF g
      <4> QED BY <2>4, <4>1, <4>2
    <3> QED BY <3>1, <3>2
  <2>7. RelocatesUpTo(h, b + 1, g)
    <3>1. g = [i \in a .. b + 1 |-> g[i]]
      OBVIOUS
    <3> HIDE DEF g
    <3> QED BY <2>6, <3>1 DEF RelocatesUpTo
  <2>8. k + 1 \in 0 .. n - a
    BY <1>1, <1>3
  <2> HIDE DEF g
  <2> QED BY <2>2, <2>7, <2>8
<1>4. n - a \in T
  <2> HIDE DEF T
  <2> QED BY <1>1, <1>2, <1>3, CountingUp
<1> QED BY <1>1, <1>4

\* g is h some relocations later.
Onward(h, g) ==
  /\ LayoutInv(g) /\ Carries(h, g) /\ KeepsTexts(h, g)
  /\ g.phase = "compacting" /\ g.plan = h.plan

LEMMA RelocateAllKeeps ==
  ASSUME NEW h, LayoutInv(h), h.phase = "compacting", NEW g, g = RelocateAll(h)
  PROVE  Onward(h, g) /\ g.cursor = Len(g.plan)
<1> DEFINE a == h.cursor
           n == Len(h.plan)
           after == CHOOSE f : RelocatesUpTo(h, n, f)
<1>1. g = after[n]
  BY DEF RelocateAll, RelocatesUpTo
<1>2. n \in Nat /\ a \in 0 .. n
  <2>1. h.plan \in Seq(Relocations) /\ a \in 0 .. n
    BY DEF LayoutInv, HeapIsTyped
  <2> HIDE DEF Relocations
  <2> QED BY <2>1
<1>3. RelocatesUpTo(h, n, after)
  BY <1>2, RelocationsExist
<1> HIDE DEF after
<1> DEFINE T == {k \in 0 .. n - a : Onward(h, after[a + k]) /\ after[a + k].cursor = a + k}
<1>4. 0 \in T
  <2>1. after[a + 0] = h
    BY <1>2, <1>3 DEF RelocatesUpTo
  <2>2. Becomes(h, h, h, h) /\ Carries(h, h) /\ KeepsTexts(h, h)
    BY DEF Becomes, Carries, KeepsTexts, SameShape
  <2> QED BY <1>2, <2>1, <2>2 DEF Onward
<1>5. ASSUME NEW k \in 0 .. n - a, k < n - a, k \in T PROVE k + 1 \in T
  <2> DEFINE m == after[a + k]
             p == after[a + (k + 1)]
  <2>1. Onward(h, m) /\ m.cursor = a + k /\ a + k < n
    BY <1>2, <1>5
  <2>2. p = RelocateNext(m)
    <3>1. a + (k + 1) \in a .. n /\ a + (k + 1) # a /\ (a + (k + 1)) - 1 = a + k
      BY <1>2, <1>5
    <3> QED BY <1>3, <3>1 DEF RelocatesUpTo
  <2> HIDE DEF m, p
  <2>3. LayoutInv(m) /\ m.phase = "compacting" /\ m.plan = h.plan /\ m.cursor < Len(m.plan)
    BY <2>1 DEF Onward
  <2>4. /\ LayoutInv(p) /\ Carries(m, p) /\ KeepsTexts(m, p)
        /\ p.phase = "compacting" /\ p.plan = m.plan /\ p.cursor = m.cursor + 1
    BY <2>2, <2>3, RelocateKeeps
  <2>5. Carries(h, p) /\ KeepsTexts(h, p)
    BY <2>1, <2>4, CarriesOn, KeepsTextsOn DEF Onward
  <2>6. Onward(h, p)
    BY <2>3, <2>4, <2>5 DEF Onward
  <2>7. p.cursor = a + (k + 1) /\ k + 1 \in 0 .. n - a
    BY <1>2, <1>5, <2>1, <2>4
  <2> QED BY <2>6, <2>7 DEF p
<1>6. n - a \in T
  <2>1. n - a \in Nat
    BY <1>2
  <2> HIDE DEF T, a, n
  <2> QED BY <1>4, <1>5, <2>1, CountingUp
<1>7. a + (n - a) = n
  BY <1>2
<1> QED BY <1>1, <1>6, <1>7 DEF Onward

CanonicalObjects(h, objs) ==
  [s \in DOMAIN objs |-> IF objs[s] = None THEN None ELSE CanonicalFields(h, objs[s])]

\* The remembered set has the old objects with young children and no others.
EdgesFound(g) ==
  /\ \A id \in g.remembered_set : \E s \in Headers(g) : id = IdAt(g, s) /\ is_old_slot(g, s)
  /\ \A s \in Headers(g) : is_old_slot(g, s) /\ HasYoungReference(g, s) => IdAt(g, s) \in g.remembered_set

\* g is h at the end of the cycle.
FinalizedAs(h, ids, g) ==
  /\ DOMAIN g = HeapFields
  /\ g.objects = CanonicalObjects(h, h.objects)
  /\ g.generations = h.generations /\ g.weak_refs = h.weak_refs
  /\ g.intern_table = h.intern_table /\ g.ephemerons = h.ephemerons
  /\ g.cells = [c \in Cells |-> IF c \in RawCells THEN h.cells[c]
                                ELSE canonicalize_incremental_compaction_read(h, h.cells[c])]
  /\ g.extra = [i \in DOMAIN h.extra |-> canonicalize_incremental_compaction_read(h, h.extra[i])]
  /\ g.remembered_set = ids /\ ids \subseteq {IdAt(g, s) : s \in Headers(g)}
  /\ EdgesFound(g)
  /\ g.phase = "idle" /\ g.plan = <<>> /\ g.cursor = 0 /\ g.shadow = None
  /\ g.worklist = h.worklist /\ g.allocated = h.allocated /\ g.stress = h.stress

LEMMA FinalizedIs ==
  ASSUME NEW h, DOMAIN h = HeapFields, NEW g, g = finalize_incremental_compaction(h)
  PROVE  \E ids : FinalizedAs(h, ids, g)
<1> DEFINE rooted == trace_collection_roots(h, LAMBDA v : canonicalize_incremental_compaction_read(h, v))
           final  == [rooted EXCEPT !.objects = CanonicalObjects(h, @)]
           pruned == prune_remembered_set(final)
<1>1. g = [pruned EXCEPT !.phase = "idle", !.plan = <<>>, !.cursor = 0, !.shadow = None]
  BY DEF finalize_incremental_compaction, CanonicalObjects
<1>2. /\ DOMAIN rooted = HeapFields /\ rooted.objects = h.objects
      /\ rooted.generations = h.generations /\ rooted.weak_refs = h.weak_refs
      /\ rooted.intern_table = h.intern_table /\ rooted.ephemerons = h.ephemerons
      /\ rooted.cells = [c \in Cells |-> IF c \in RawCells THEN h.cells[c]
                                ELSE canonicalize_incremental_compaction_read(h, h.cells[c])]
      /\ rooted.extra = [i \in DOMAIN h.extra |-> canonicalize_incremental_compaction_read(h, h.extra[i])]
      /\ rooted.worklist = h.worklist /\ rooted.allocated = h.allocated /\ rooted.stress = h.stress
  BY DEF HeapFields, trace_collection_roots
<1> HIDE DEF rooted
<1>3. /\ DOMAIN final = HeapFields
      /\ final.objects = CanonicalObjects(h, h.objects)
      /\ final.generations = h.generations /\ final.weak_refs = h.weak_refs
      /\ final.intern_table = h.intern_table /\ final.ephemerons = h.ephemerons
      /\ final.cells = rooted.cells /\ final.extra = rooted.extra
      /\ final.worklist = h.worklist /\ final.allocated = h.allocated /\ final.stress = h.stress
  BY <1>2 DEF HeapFields
<1> HIDE DEF final
<1> DEFINE ids == {IdAt(final, s) : s \in {t \in Headers(final) : is_old_slot(final, t) /\ HasYoungReference(final, t)}}
<1>4. /\ DOMAIN pruned = HeapFields
      /\ pruned.objects = final.objects
      /\ pruned.generations = h.generations /\ pruned.weak_refs = h.weak_refs
      /\ pruned.intern_table = h.intern_table /\ pruned.ephemerons = h.ephemerons
      /\ pruned.cells = rooted.cells /\ pruned.extra = rooted.extra
      /\ pruned.worklist = h.worklist /\ pruned.allocated = h.allocated /\ pruned.stress = h.stress
      /\ pruned.remembered_set = ids
  BY <1>3 DEF HeapFields, prune_remembered_set
<1> HIDE DEF pruned
<1>5. /\ DOMAIN g = HeapFields
      /\ g.objects = final.objects
      /\ g.generations = h.generations /\ g.weak_refs = h.weak_refs
      /\ g.intern_table = h.intern_table /\ g.ephemerons = h.ephemerons
      /\ g.cells = rooted.cells /\ g.extra = rooted.extra
      /\ g.worklist = h.worklist /\ g.allocated = h.allocated /\ g.stress = h.stress
      /\ g.remembered_set = ids
      /\ g.phase = "idle" /\ g.plan = <<>> /\ g.cursor = 0 /\ g.shadow = None
  BY <1>1, <1>4 DEF HeapFields
<1>6. ids \subseteq {IdAt(g, s) : s \in Headers(g)}
  <2>1. Headers(g) = Headers(final) /\ \A s : IdAt(g, s) = IdAt(final, s)
    BY <1>3, <1>5 DEF Headers, IdAt
  <2> QED BY <2>1
<1>7. EdgesFound(g)
  <2>1. /\ Headers(g) = Headers(final) /\ g.objects = final.objects /\ g.generations = final.generations
        /\ \A s : IdAt(g, s) = IdAt(final, s)
    BY <1>3, <1>5 DEF Headers, IdAt
  <2>2. \A v : Resolves(g, v) => Resolves(final, v) /\ checked_slot(final, v) = checked_slot(g, v)
    <3>1. \A v : checked_slot(g, v) = IF Physical(g, v) THEN slot_from(v) ELSE NoSlot
      BY <1>5, StillHeap
    <3>2. \A v : Physical(g, v) => Physical(final, v)
      BY <2>1 DEF Physical
    <3>3. \A v : Physical(final, v) => checked_slot(final, v) = slot_from(v)
      BY DEF checked_slot
    <3> QED BY <3>1, <3>2, <3>3 DEF Resolves
  <2>3. \A s \in Headers(g) : HasYoungReference(g, s) => HasYoungReference(final, s)
    BY <2>1, <2>2 DEF HasYoungReference, is_young_slot
  <2> QED BY <1>5, <2>1, <2>3 DEF EdgesFound, is_old_slot
<1> HIDE DEF ids
<1>8. FinalizedAs(h, ids, g)
  BY <1>2, <1>3, <1>5, <1>6, <1>7 DEF FinalizedAs
<1> QED BY <1>8

CanonicalAs(h, o, q) ==
  /\ q \in Objects /\ validate_descriptor_shape(q) /\ storage_slot_count(q) = storage_slot_count(o)
  /\ SameShape(o, q) /\ q.age = o.age /\ q.marked = o.marked
  /\ \A w \in SoftReferences(q) : \E v \in SoftReferences(o) :
       v \in Ids /\ w = canonicalize_incremental_compaction_read(h, v)
  /\ \A w \in visit_reference_fields(q) : \E v \in visit_reference_fields(o) :
       v \in Ids /\ w = canonicalize_incremental_compaction_read(h, v)

LEMMA CanonicalFieldsKeep ==
  ASSUME NEW h, HeapIsTyped(h), NEW o \in Objects, validate_descriptor_shape(o),
         NEW q, q = CanonicalFields(h, o)
  PROVE  CanonicalAs(h, o, q)
<1> DEFINE canon(v) == canonicalize_incremental_compaction_read(h, v)
           strong == [i \in DOMAIN o.strong |-> canon(o.strong[i])]
           soft == [i \in DOMAIN o.soft |-> canon(o.soft[i])]
<1>1. \A v \in Values : canon(v) \in Values /\ (is_object(canon(v)) <=> is_object(v))
  BY CanonicalIsValue
<1>2. o.strong \in Seq(Values) /\ o.soft \in Seq(Values) /\ o.kind \in Kinds
  BY ObjectFields
<1>3. q = [[o EXCEPT !.strong = strong] EXCEPT !.soft = soft]
  BY DEF CanonicalFields
<1> HIDE DEF canon
<1>4. \A i \in DOMAIN o.strong : o.strong[i] \in Values
  BY <1>2
<1>5. \A i \in DOMAIN o.soft : o.soft[i] \in Values
  BY <1>2
<1>6. strong \in Seq(Values) /\ Len(strong) = Len(o.strong) /\ DOMAIN strong = DOMAIN o.strong
  BY <1>1, <1>2, <1>4
<1>7. soft \in Seq(Values) /\ Len(soft) = Len(o.soft) /\ DOMAIN soft = DOMAIN o.soft
  BY <1>1, <1>2, <1>5
<1>8. \A i \in DOMAIN o.soft : /\ is_object(soft[i]) <=> is_object(o.soft[i])
                               /\ soft[i] = canon(o.soft[i])
  BY <1>1, <1>5
<1> HIDE DEF strong, soft
<1>9. /\ q \in Objects /\ q.strong = strong /\ q.soft = soft
      /\ q.kind = o.kind /\ q.length = o.length /\ q.data = o.data /\ q.text = o.text
      /\ q.age = o.age /\ q.marked = o.marked
  BY <1>2, <1>3, <1>6, <1>7 DEF Objects
<1>10. validate_descriptor_shape(q)
  <2>1. o.soft = <<>> => soft = <<>>
    BY <1>2, <1>7
  <2>2. o.strong = <<>> => strong = <<>>
    BY <1>2, <1>6
  <2>3. o.kind = "Ephemeron" => Len(o.soft) = 2 /\ (soft[1] = Nil => soft[2] = Nil)
    <3>1. SUFFICES ASSUME o.kind = "Ephemeron" PROVE Len(o.soft) = 2 /\ (soft[1] = Nil => soft[2] = Nil)
      OBVIOUS
    <3>2. Len(o.soft) = 2 /\ (o.soft[1] = Nil => o.soft[2] = Nil)
      BY <3>1 DEF validate_descriptor_shape, EphemeronAndBuilderShape
    <3>3. 1 \in DOMAIN o.soft /\ 2 \in DOMAIN o.soft
      BY <1>2, <3>2
    <3> QED BY <1>8, <3>2, <3>3 DEF is_object
  <2> QED BY <1>6, <1>7, <1>9, <2>1, <2>2, <2>3
        DEF validate_descriptor_shape, ReferenceMapShape, EphemeronAndBuilderShape
<1>11. storage_slot_count(q) = storage_slot_count(o)
  BY <1>9 DEF storage_slot_count
<1>12. ASSUME NEW w \in SoftReferences(q)
       PROVE  \E v \in SoftReferences(o) : v \in Ids /\ w = canon(v)
  <2>1. PICK i \in DOMAIN soft : is_object(soft[i]) /\ w = soft[i]
    BY <1>9 DEF SoftReferences
  <2>2. i \in DOMAIN o.soft /\ o.soft[i] \in Values /\ is_object(o.soft[i]) /\ w = canon(o.soft[i])
    BY <1>5, <1>7, <1>8, <2>1
  <2>3. o.soft[i] \in SoftReferences(o) /\ o.soft[i] \in Ids
    BY <2>2, ValueIsId DEF SoftReferences
  <2> QED BY <2>2, <2>3
<1>13. ASSUME NEW w \in visit_reference_fields(q)
       PROVE  \E v \in visit_reference_fields(o) : v \in Ids /\ w = canon(v)
  <2>1. PICK i \in DOMAIN strong : is_object(strong[i]) /\ w = strong[i]
    BY <1>9 DEF visit_reference_fields
  <2>2. i \in DOMAIN o.strong /\ o.strong[i] \in Values /\ w = canon(o.strong[i])
    BY <1>4, <1>6, <2>1 DEF strong
  <2>3. is_object(o.strong[i])
    BY <1>1, <2>1, <2>2
  <2>4. o.strong[i] \in visit_reference_fields(o) /\ o.strong[i] \in Ids
    BY <2>2, <2>3, ValueIsId DEF visit_reference_fields
  <2> QED BY <2>2, <2>4
<1> QED BY <1>6, <1>9, <1>10, <1>11, <1>12, <1>13 DEF CanonicalAs, SameShape, canon

LEMMA FinalizeKeeps ==
  ASSUME NEW h, LayoutInv(h), h.phase = "compacting", h.cursor = Len(h.plan),
         NEW g, g = finalize_incremental_compaction(h)
  PROVE  LayoutInv(g) /\ Carries(h, g) /\ KeepsTexts(h, g) /\ g.phase = "idle"
<1>1. /\ HeapIsTyped(h) /\ RunsFollow(h) /\ PlanIsCurrent(h) /\ h.worklist = {} /\ Named(h)
      /\ RegistriesName(h) /\ NamesAreUsed(h) /\ DOMAIN h = HeapFields
  BY PlanNames DEF LayoutInv, PhaseIsClean, HeapIsTyped
<1>2. PICK ids : FinalizedAs(h, ids, g)
  BY <1>1, FinalizedIs
<1>3. /\ DOMAIN g = HeapFields /\ g.generations = h.generations /\ g.weak_refs = h.weak_refs
      /\ g.intern_table = h.intern_table /\ g.ephemerons = h.ephemerons
      /\ g.remembered_set = ids /\ ids \subseteq {IdAt(g, s) : s \in Headers(g)}
      /\ g.phase = "idle" /\ g.plan = <<>> /\ g.cursor = 0 /\ g.shadow = None
      /\ g.worklist = {} /\ g.allocated = h.allocated /\ g.stress = h.stress
  BY <1>1, <1>2 DEF FinalizedAs
<1>4. /\ Size(h) \in Nat /\ DOMAIN h.objects = 0 .. Size(h) - 1
      /\ Headers(h) \subseteq DOMAIN h.objects
      /\ \A s \in Headers(h) : h.objects[s] \in Objects /\ h.objects[s] # None
                               /\ validate_descriptor_shape(h.objects[s])
  BY <1>1, HeaderIsObject DEF Headers, RunsFollow
<1>5. /\ DOMAIN g.objects = DOMAIN h.objects
      /\ \A s \in DOMAIN h.objects :
           g.objects[s] = IF h.objects[s] = None THEN None ELSE CanonicalFields(h, h.objects[s])
  BY <1>2 DEF FinalizedAs, CanonicalObjects
<1>6. ASSUME NEW s \in Headers(h) PROVE CanonicalAs(h, h.objects[s], g.objects[s])
  BY <1>1, <1>4, <1>5, CanonicalFieldsKeep
<1>7. Headers(g) = Headers(h) /\ Size(g) = Size(h)
  <2>1. \A s \in Headers(h) : g.objects[s] # None
    BY <1>6, NoneAssumption DEF CanonicalAs
  <2> QED BY <1>4, <1>5, <2>1 DEF Headers, Size
<1>8. \A s : IdAt(g, s) = IdAt(h, s)
  BY <1>3 DEF IdAt
<1>9. RunsFollow(g)
  <2>1. \A s \in Headers(h) : /\ Width(g, s) = Width(h, s) /\ validate_descriptor_shape(g.objects[s])
    BY <1>6 DEF CanonicalAs, Width
  <2> QED BY <1>1, <1>3, <1>7, <2>1 DEF RunsFollow
<1>10. \A v \in Values : /\ canonicalize_incremental_compaction_read(h, v) \in Values
                         /\ is_object(canonicalize_incremental_compaction_read(h, v)) <=> is_object(v)
  BY <1>1, CanonicalIsValue
<1>11. HeapIsTyped(g)
  <2>1. g.objects \in [0 .. Size(h) - 1 -> Objects \cup {None}]
    <3>1. \A s \in DOMAIN h.objects : g.objects[s] \in Objects \cup {None}
      BY <1>5, <1>6 DEF CanonicalAs, Headers
    <3>2. g.objects = [s \in DOMAIN h.objects |-> g.objects[s]]
      BY <1>2 DEF FinalizedAs, CanonicalObjects
    <3> QED BY <1>4, <3>1, <3>2
  <2>2. /\ g.weak_refs \subseteq Ids /\ g.ephemerons \subseteq Ids /\ g.intern_table \subseteq Ids
        /\ g.worklist \subseteq Ids
    BY <1>1, <1>3 DEF HeapIsTyped
  <2>3. g.remembered_set \subseteq Ids
    <3>1. \A s \in Headers(h) : IdAt(g, s) \in Ids
      BY <1>1, <1>8, IdOfBase
    <3> QED BY <1>3, <1>7, <3>1
  <2>4. g.cells \in [Cells -> Values]
    <3>1. h.cells \in [Cells -> Values]
      BY <1>1 DEF HeapIsTyped
    <3> QED BY <1>2, <1>10, <3>1 DEF FinalizedAs
  <2>5. g.extra \in Seq(Values)
    <3>1. h.extra \in Seq(Values) /\ g.extra = [i \in DOMAIN h.extra |-> canonicalize_incremental_compaction_read(h, h.extra[i])]
      BY <1>1, <1>2 DEF HeapIsTyped, FinalizedAs
    <3>2. \A i \in DOMAIN h.extra : canonicalize_incremental_compaction_read(h, h.extra[i]) \in Values
      BY <1>10, <3>1
    <3> QED BY <3>1, <3>2
  <2>6. g.generations \in [0 .. Size(h) - 1 -> Nat] /\ g.allocated \in Nat
    BY <1>1, <1>3 DEF HeapIsTyped
  <2>7. g.plan \in Seq(Relocations) /\ g.cursor \in 0 .. Len(g.plan)
    BY <1>3
  <2> HIDE DEF Relocations
  <2> QED BY <1>3, <1>4, <1>7, <2>1, <2>2, <2>3, <2>4, <2>5, <2>6, <2>7 DEF HeapIsTyped
<1>12. PhaseIsClean(g)
  BY <1>3 DEF PhaseIsClean
<1>13. \A i \in DOMAIN h.plan : Name(h, i) = IdAt(h, Base(h, i))
  BY <1>1 DEF Named
<1>14. ASSUME NEW v \in Ids, Resolves(h, v), NEW w, w = canonicalize_incremental_compaction_read(h, v)
       PROVE  Resolves(g, w) /\ Becomes(h, v, g, w)
  <2>1. PICK i \in DOMAIN h.plan : NamesEntry(h, i, v)
    BY <1>1, <1>14 DEF Named
  <2>2. w = Name(h, i) /\ checked_slot(h, v) = Base(h, i) /\ Base(h, i) \in Headers(h)
    BY <1>1, <1>14, <2>1 DEF Named
  <2>3. w = IdAt(g, Base(h, i))
    BY <1>8, <1>13, <2>2
  <2>4. checked_slot(g, w) = Base(h, i) /\ Resolves(g, w) /\ w \in Ids
    BY <1>7, <1>9, <1>11, <2>2, <2>3, IdOfBase
  <2>5. SameShape(h.objects[Base(h, i)], g.objects[Base(h, i)])
    BY <1>6, <2>2 DEF CanonicalAs
  <2>6. is_object(v) /\ is_object(w)
    BY <2>4, IdsAreReferences
  <2> QED BY <2>2, <2>4, <2>5, <2>6 DEF Becomes, ObjectOf
<1>15. ASSUME NEW kind PROVE OfKind(g, kind) = OfKind(h, kind)
  <2>1. \A s \in Headers(h) : g.objects[s].kind = h.objects[s].kind
    BY <1>6 DEF CanonicalAs, SameShape
  <2> QED BY <1>7, <1>8, <2>1 DEF OfKind
<1>16. \A id \in h.intern_table : ObjectOf(g, id).text = ObjectOf(h, id).text
  <2> SUFFICES ASSUME NEW id \in h.intern_table PROVE ObjectOf(g, id).text = ObjectOf(h, id).text
    OBVIOUS
  <2>1. PICK s \in Headers(h) : id = IdAt(h, s)
    BY <1>1 DEF RegistriesName, OfKind
  <2>2. checked_slot(h, id) = s
    BY <1>1, <2>1, IdOfBase
  <2>3. checked_slot(g, id) = s
    BY <1>7, <1>8, <1>9, <1>11, <2>1, IdOfBase
  <2>4. g.objects[s].text = h.objects[s].text
    BY <1>6, <2>1 DEF CanonicalAs, SameShape
  <2> QED BY <2>2, <2>3, <2>4 DEF ObjectOf
<1>17. RegistriesName(g)
  <2>1. \A id \in g.remembered_set : Resolves(g, id)
    BY <1>3, <1>9, <1>11, IdOfBase
  <2>2. /\ g.weak_refs = OfKind(g, "WeakRef") /\ g.ephemerons = OfKind(g, "Ephemeron")
        /\ g.intern_table \subseteq OfKind(g, "Str")
    BY <1>1, <1>3, <1>15 DEF RegistriesName
  <2>3. \A s \in Headers(g) : \A w \in SoftReferences(g.objects[s]) : Resolves(g, w)
    <3> SUFFICES ASSUME NEW s \in Headers(h), NEW w \in SoftReferences(g.objects[s]) PROVE Resolves(g, w)
      BY <1>7
    <3>1. PICK v \in SoftReferences(h.objects[s]) :
               v \in Ids /\ w = canonicalize_incremental_compaction_read(h, v)
      BY <1>6 DEF CanonicalAs
    <3>2. Resolves(h, v)
      BY <1>1, <3>1 DEF RegistriesName
    <3> QED BY <1>14, <3>1, <3>2
  <2>4. \A a, b \in g.intern_table : ObjectOf(g, a).text = ObjectOf(g, b).text => a = b
    BY <1>1, <1>3, <1>16 DEF RegistriesName
  <2> QED BY <2>1, <2>2, <2>3, <2>4 DEF RegistriesName
<1>18. NamesAreUsed(g)
  <2>1. \A s \in Headers(h) : /\ g.objects[s].kind = h.objects[s].kind /\ g.objects[s].data = h.objects[s].data
                              /\ g.objects[s].length = h.objects[s].length
    BY <1>6 DEF CanonicalAs, SameShape
  <2> QED BY <1>1, <1>3, <1>7, <2>1 DEF NamesAreUsed
<1>19. Carries(h, g)
  <2>1. h.extra \in Seq(Values) /\ g.extra = [i \in DOMAIN h.extra |-> canonicalize_incremental_compaction_read(h, h.extra[i])]
    BY <1>1, <1>2 DEF HeapIsTyped, FinalizedAs
  <2>2. Len(g.extra) = Len(h.extra)
    BY <2>1
  <2>3. ASSUME NEW i \in DOMAIN h.extra PROVE Becomes(h, h.extra[i], g, g.extra[i])
    <3> DEFINE v == h.extra[i]
               w == canonicalize_incremental_compaction_read(h, v)
    <3>1. v \in Values /\ g.extra[i] = w /\ w = canonicalize_incremental_compaction_read(h, v)
      BY <2>1, <2>3
    <3>2. is_object(w) <=> is_object(v)
      BY <1>10, <3>1
    <3>3. is_object(v) => v \in Ids
      BY <3>1, ValueIsId
    <3> HIDE DEF v, w
    <3>4. is_object(v) /\ Resolves(h, v) => Becomes(h, v, g, w)
      BY <1>14, <3>1, <3>3
    <3>5. Becomes(h, v, g, w)
      BY <3>2, <3>4 DEF Becomes
    <3> QED BY <3>1, <3>5 DEF v
  <2>4. \A id \in g.intern_table : \E old \in h.intern_table : ObjectOf(h, old).text = ObjectOf(g, id).text
    BY <1>3, <1>16
  <2> QED BY <1>3, <2>2, <2>3, <2>4 DEF Carries
<1>20. KeepsTexts(h, g)
  BY <1>3, <1>16 DEF KeepsTexts
<1> QED BY <1>3, <1>9, <1>11, <1>12, <1>17, <1>18, <1>19, <1>20 DEF LayoutInv

LEMMA FinishCompactionKeeps ==
  ASSUME NEW h, LayoutInv(h), h.phase = "compacting", NEW g, g = finish_incremental_compaction_impl(h)
  PROVE  LayoutInv(g) /\ Carries(h, g) /\ KeepsTexts(h, g) /\ g.phase = "idle"
<1> DEFINE m == RelocateAll(h)
<1>1. m = RelocateAll(h) /\ g = finalize_incremental_compaction(m)
  BY DEF finish_incremental_compaction_impl
<1> HIDE DEF m
<1>2. Onward(h, m) /\ m.cursor = Len(m.plan)
  BY <1>1, RelocateAllKeeps
<1>3. LayoutInv(m) /\ Carries(h, m) /\ KeepsTexts(h, m) /\ m.phase = "compacting"
  BY <1>2 DEF Onward
<1>4. LayoutInv(g) /\ Carries(m, g) /\ KeepsTexts(m, g) /\ g.phase = "idle"
  BY <1>1, <1>2, <1>3, FinalizeKeeps
<1> QED BY <1>3, <1>4, CarriesOn, KeepsTextsOn

LEMMA SameHeapCarries == \A h : Carries(h, h) /\ KeepsTexts(h, h)
BY DEF Becomes, Carries, KeepsTexts, SameShape

LEMMA CompactionFinishedKeeps ==
  ASSUME NEW h, LayoutInv(h), NEW g, g = CompactionFinished(h)
  PROVE  LayoutInv(g) /\ Carries(h, g) /\ KeepsTexts(h, g) /\ g.phase \in {"idle", "marking"}
<1>1. CASE h.phase = "compacting"
  <2>1. g = finish_incremental_compaction_impl(h)
    BY <1>1 DEF CompactionFinished
  <2> QED BY <1>1, <2>1, FinishCompactionKeeps
<1>2. CASE h.phase # "compacting"
  <2>1. g = h /\ h.phase \in {"idle", "marking", "compacting"}
    BY <1>2 DEF CompactionFinished, LayoutInv, HeapIsTyped
  <2> QED BY <1>2, <2>1, SameHeapCarries
<1> QED BY <1>1, <1>2

LEMMA FinishActiveCycleKeeps ==
  ASSUME NEW h, LayoutInv(h), NEW g, g = FinishActiveCycle(h)
  PROVE  LayoutInv(g) /\ Carries(h, g) /\ g.phase = "idle"
<1> DEFINE still == CompactionFinished(h)
<1>1. /\ still = CompactionFinished(h)
      /\ g = IF still.phase = "marking" THEN finish_incremental_marking_impl(still) ELSE still
  BY DEF FinishActiveCycle, CompactionFinished
<1> HIDE DEF still
<1>2. LayoutInv(still) /\ Carries(h, still) /\ still.phase \in {"idle", "marking"}
  BY <1>1, CompactionFinishedKeeps
<1>3. CASE still.phase = "marking"
  <2>1. LayoutInv(g) /\ Carries(still, g) /\ g.phase = "idle"
    BY <1>1, <1>2, <1>3, FinishMarkingKeeps
  <2> QED BY <1>2, <2>1, CarriesOn
<1>4. CASE still.phase # "marking"
  BY <1>1, <1>2, <1>4
<1> QED BY <1>3, <1>4

LEMMA CollectKeeps ==
  ASSUME NEW h, LayoutInv(h), NEW kind, NEW g, g = collect_impl(h, kind)
  PROVE  LayoutInv(g) /\ Carries(h, g) /\ g.phase = "idle"
<1> DEFINE still == FinishActiveCycle(h)
<1>1. still = FinishActiveCycle(h) /\ g = Evacuate(Mark(still, kind), kind)
  BY DEF collect_impl
<1> HIDE DEF still
<1>2. LayoutInv(still) /\ Carries(h, still) /\ still.phase = "idle"
  BY <1>1, FinishActiveCycleKeeps
<1>3. LayoutInv(g) /\ Carries(still, g) /\ g.phase = still.phase
  BY <1>1, <1>2, CollectedKeeps
<1> QED BY <1>2, <1>3, CarriesOn

\* The operands of a method are roots of its own.
SameButOperands(h, g) ==
  /\ DOMAIN g = HeapFields
  /\ g.objects = h.objects /\ g.generations = h.generations /\ g.remembered_set = h.remembered_set
  /\ g.weak_refs = h.weak_refs /\ g.intern_table = h.intern_table /\ g.ephemerons = h.ephemerons
  /\ g.phase = h.phase /\ g.worklist = h.worklist /\ g.plan = h.plan /\ g.cursor = h.cursor
  /\ g.shadow = h.shadow /\ g.allocated = h.allocated

LEMMA OperandsKeep ==
  ASSUME NEW h, LayoutInv(h), NEW g, SameButOperands(h, g),
         g.extra \in Seq(Values), g.cells \in [Cells -> Values]
  PROVE  LayoutInv(g) /\ SamePlaces(h, g)
<1>1. HeapIsTyped(h)
  BY DEF LayoutInv
<1>2. Size(g) = Size(h) /\ Headers(g) = Headers(h)
  BY DEF Size, Headers, SameButOperands
<1>3. HeapIsTyped(g)
  BY <1>1, <1>2 DEF HeapIsTyped, SameButOperands
<1>4. \A s \in Headers(h) : SameContents(h.objects[s], g.objects[s])
  BY <1>1, HeaderIsObject DEF SameContents, SameButOperands
<1>5. \A id \in g.remembered_set : Resolves(h, id)
  BY DEF LayoutInv, RegistriesName, SameButOperands
<1>6. g.phase # "marking" => g.worklist = {}
  BY DEF LayoutInv, PhaseIsClean, SameButOperands
<1> QED BY <1>2, <1>3, <1>4, <1>5, <1>6, RemarkedKeeps DEF SameButOperands

LEMMA RootedKeeps ==
  ASSUME NEW h, LayoutInv(h), NEW roots \in Seq(Values), NEW g, g = [h EXCEPT !.extra = roots]
  PROVE  /\ LayoutInv(g) /\ SamePlaces(h, g) /\ SameButOperands(h, g)
         /\ g.extra = roots /\ g.stress = h.stress /\ g.cells = h.cells
<1>1. DOMAIN h = HeapFields /\ h.cells \in [Cells -> Values]
  BY DEF LayoutInv, HeapIsTyped
<1>2. SameButOperands(h, g) /\ g.extra = roots /\ g.stress = h.stress /\ g.cells = h.cells
  BY <1>1 DEF SameButOperands, HeapFields
<1> QED BY <1>1, <1>2, OperandsKeep

LEMMA CollectWithRootsKeeps ==
  ASSUME NEW h, LayoutInv(h), NEW roots \in Seq(Values), NEW kind,
         NEW g, g = collect_with_extra_roots(h, roots, kind)
  PROVE  /\ LayoutInv(g) /\ g.phase = "idle" /\ g.allocated = h.allocated /\ g.stress = h.stress
         /\ Carries([h EXCEPT !.extra = roots], g)
<1> DEFINE r == [h EXCEPT !.extra = roots]
<1>1. r = [h EXCEPT !.extra = roots] /\ g = collect_impl(r, kind)
  BY DEF collect_with_extra_roots
<1> HIDE DEF r
<1>2. LayoutInv(r) /\ SameButOperands(h, r) /\ r.stress = h.stress
  BY <1>1, RootedKeeps
<1>3. LayoutInv(g) /\ Carries(r, g) /\ g.phase = "idle"
  BY <1>1, <1>2, CollectKeeps
<1> QED BY <1>1, <1>2, <1>3 DEF Carries, SameButOperands

=============================================================================
