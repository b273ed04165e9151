------------------------------ MODULE VmProofs ------------------------------
(***************************************************************************)
(* Whatever verified program runs and whenever collections happen, the     *)
(* machine keeps its frames well formed, never loses an object it can      *)
(* still name, and leaves no collection half done behind.  And what the    *)
(* verifier accepts is such a program, whatever the module.                *)
(***************************************************************************)
EXTENDS VmProperties, FiniteSetTheorems, SequenceTheorems, WellFoundedInduction, TLAPS

-----------------------------------------------------------------------------
(***************************************************************************)
(* What the virtual machine needs of its heap: the closure of the roots is *)
(* the least closed set around them, and a collection that keeps a closed  *)
(* set leaves every value in it safe to use.                               *)
(***************************************************************************)

(***************************************************************************)
(* Sequences.                                                              *)
(***************************************************************************)
LEMMA SequenceDomain ==
  ASSUME NEW s, IsSequence(s)
  PROVE  Len(s) \in Nat /\ DOMAIN s = 1 .. Len(s)
BY DEF IsSequence

\* A function on an initial segment of the naturals is a sequence.
LEMMA IsASequence ==
  ASSUME NEW s, NEW n \in Nat, s = [i \in 1 .. n |-> s[i]]
  PROVE  IsSequence(s) /\ Len(s) = n
<1>1. \A i \in 1 .. n : s[i] \in ToSet(s)
  BY DEF ToSet
<1>2. s \in Seq(ToSet(s))
  BY <1>1
<1> QED BY <1>2 DEF IsSequence

LEMMA Appended ==
  ASSUME NEW s, NEW e, IsSequence(s)
  PROVE  /\ IsSequence(Append(s, e))
         /\ Len(Append(s, e)) = Len(s) + 1
         /\ DOMAIN Append(s, e) = 1 .. Len(s) + 1
         /\ \A i \in DOMAIN s : Append(s, e)[i] = s[i]
         /\ Append(s, e)[Len(s) + 1] = e
<1> DEFINE S == ToSet(s) \cup {e}
<1>1. s \in Seq(S)
  BY DEF IsSequence
<1>2. /\ Append(s, e) \in Seq(S) /\ Append(s, e) # <<>>
      /\ Len(Append(s, e)) = Len(s) + 1
      /\ \A i \in 1 .. Len(s) : Append(s, e)[i] = s[i]
      /\ Append(s, e)[Len(s) + 1] = e
  BY <1>1
<1>3. ASSUME NEW t \in Seq(S) PROVE t = [i \in 1 .. Len(t) |-> t[i]] /\ Len(t) \in Nat
  OBVIOUS
<1> QED BY <1>1, <1>2, <1>3, IsASequence

LEMMA Updated ==
  ASSUME NEW s, NEW i, NEW e, IsSequence(s)
  PROVE  /\ IsSequence([s EXCEPT ![i] = e])
         /\ Len([s EXCEPT ![i] = e]) = Len(s)
         /\ DOMAIN [s EXCEPT ![i] = e] = DOMAIN s
<1>1. [s EXCEPT ![i] = e] = [k \in 1 .. Len(s) |-> [s EXCEPT ![i] = e][k]] /\ Len(s) \in Nat
  BY SequenceDomain
<1> QED BY <1>1, IsASequence, SequenceDomain

LEMMA Sliced ==
  ASSUME NEW s, NEW m \in Int, NEW n \in Int, IsSequence(s), 1 <= m, m <= n + 1, n <= Len(s)
  PROVE  /\ IsSequence(SubSeq(s, m, n)) /\ Len(SubSeq(s, m, n)) = n + 1 - m
         /\ DOMAIN SubSeq(s, m, n) = 1 .. n + 1 - m
         /\ \A i \in 1 .. n + 1 - m : SubSeq(s, m, n)[i] = s[m + i - 1] /\ m + i - 1 \in DOMAIN s
<1>1. SubSeq(s, m, n) = [i \in 1 .. 1 + n - m |-> s[i + m - 1]]
  OBVIOUS
<1>2. \A i \in 1 .. n + 1 - m : SubSeq(s, m, n)[i] = s[m + i - 1] /\ m + i - 1 \in DOMAIN s
  BY <1>1, SequenceDomain
<1>3. SubSeq(s, m, n) = [i \in 1 .. n + 1 - m |-> SubSeq(s, m, n)[i]] /\ n + 1 - m \in Nat
  BY <1>1
<1> QED BY <1>2, <1>3, IsASequence

(***************************************************************************)
(* The closure.  Least(h, S) is what lies in every closed set around S.    *)
(***************************************************************************)
ClosedUnder(h, A) == Reached(h, A) = A
Least(h, S) == {o \in DOMAIN h : \A A \in SUBSET DOMAIN h : S \subseteq A /\ ClosedUnder(h, A) => o \in A}

\* No object of the heap refers outside it.
RefersInside(h) ==
  IsSequence(h) /\ \A o \in DOMAIN h : ObjectsIn(ToSet(h[o].fields)) \subseteq DOMAIN h

LEMMA ReachedGrows ==
  ASSUME NEW h, RefersInside(h), NEW S \in SUBSET DOMAIN h
  PROVE  /\ S \subseteq Reached(h, S) /\ Reached(h, S) \subseteq DOMAIN h
         /\ \A A \in SUBSET DOMAIN h : S \subseteq A /\ ClosedUnder(h, A) => Reached(h, S) \subseteq A
<1>1. \A o \in DOMAIN h : Strong(h[o], S) \subseteq DOMAIN h
  BY DEF RefersInside, Strong
<1>2. S \subseteq Reached(h, S) /\ Reached(h, S) \subseteq DOMAIN h
  BY <1>1 DEF Reached
<1>3. ASSUME NEW A \in SUBSET DOMAIN h, S \subseteq A, ClosedUnder(h, A)
      PROVE  Reached(h, S) \subseteq A
  <2>1. \A o : Strong(h[o], S) \subseteq Strong(h[o], A)
    BY <1>3 DEF Strong
  <2>2. Reached(h, S) \subseteq Reached(h, A)
    BY <1>3, <2>1 DEF Reached
  <2> QED BY <1>3, <2>2 DEF ClosedUnder
<1> QED BY <1>2, <1>3

\* A step towards the closure does not change it.
LEMMA LeastOfReached ==
  ASSUME NEW h, RefersInside(h), NEW S \in SUBSET DOMAIN h
  PROVE  /\ Least(h, Reached(h, S)) = Least(h, S)
         /\ ClosedUnder(h, S) => Least(h, S) = S
<1>1. \A A \in SUBSET DOMAIN h :
        ClosedUnder(h, A) => (Reached(h, S) \subseteq A <=> S \subseteq A)
  BY ReachedGrows
<1>2. Least(h, Reached(h, S)) = Least(h, S)
  BY <1>1 DEF Least
<1>3. ASSUME ClosedUnder(h, S) PROVE Least(h, S) = S
  BY <1>3 DEF Least
<1> QED BY <1>2, <1>3

\* Any function that takes steps until they change nothing finds the least
\* closed set: a set on which it does not, as large as such a set can be,
\* is not closed, and its next step is a larger one.
LEMMA StepsReachLeast ==
  ASSUME NEW h, RefersInside(h), NEW grow,
         grow = [live \in SUBSET DOMAIN h |->
                   IF Reached(h, live) = live THEN live ELSE grow[Reached(h, live)]]
  PROVE  \A S \in SUBSET DOMAIN h : grow[S] = Least(h, S)
<1> DEFINE D == DOMAIN h
           Bad == {S \in SUBSET D : grow[S] # Least(h, S)}
           Rest1 == {D \ S : S \in Bad}
           R == StrictSubsetOrdering(D)
<1>1. IsFiniteSet(D)
  BY SequenceDomain, FS_Interval DEF RefersInside
<1>2. IsWellFoundedOn(R, FiniteSubsetsOf(D))
  BY <1>1, FS_StrictSubsetOrderingWellFounded
<1>3. Rest1 \subseteq FiniteSubsetsOf(D)
  BY <1>1, FS_Subset DEF FiniteSubsetsOf
<1>4. SUFFICES ASSUME NEW bad \in SUBSET D, grow[bad] # Least(h, bad) PROVE FALSE
  OBVIOUS
<1>5. PICK least \in Rest1 : \A T \in Rest1 : ~(<<T, least>> \in R)
  <2>1. D \ bad \in Rest1
    BY <1>4
  <2> HIDE DEF R, Rest1
  <2> QED BY <1>2, <1>3, <2>1, WFMin
<1>6. PICK S \in Bad : least = D \ S
  BY <1>5
<1>7. CASE ClosedUnder(h, S)
  <2>1. grow[S] = S
    BY <1>7 DEF ClosedUnder
  <2> QED BY <1>6, <1>7, <2>1, LeastOfReached
<1>8. CASE ~ClosedUnder(h, S)
  <2> DEFINE T == Reached(h, S)
  <2>1. T \in SUBSET D /\ S \subseteq T /\ T # S
    BY <1>6, <1>8, ReachedGrows DEF ClosedUnder
  <2>2. grow[S] = grow[T]
    BY <1>6, <1>8 DEF ClosedUnder
  <2>3. T \in Bad
    BY <1>6, <2>1, <2>2, LeastOfReached
  <2> HIDE DEF T
  <2>4. D \ T \in Rest1
    BY <2>3
  <2>5. <<D \ T, D \ S>> \in R
    BY <1>6, <2>1 DEF StrictSubsetOrdering
  <2> QED BY <1>5, <1>6, <2>4, <2>5
<1> QED BY <1>7, <1>8

LEMMA ClosedIsLeast ==
  ASSUME NEW h, RefersInside(h), NEW objects \in SUBSET DOMAIN h
  PROVE  Closed(h, objects) = Least(h, objects)
<1> DEFINE Unrolled(f) == [live \in SUBSET DOMAIN h |->
                             IF Reached(h, live) = live THEN live ELSE f[Reached(h, live)]]
           G == [S \in SUBSET DOMAIN h |-> Least(h, S)]
           grow == CHOOSE f : f = Unrolled(f)
<1>1. \A S \in SUBSET DOMAIN h : G[S] = Unrolled(G)[S]
  BY ReachedGrows, LeastOfReached DEF ClosedUnder
<1>2. G = Unrolled(G)
  <2>1. Unrolled(G) = [S \in SUBSET DOMAIN h |-> Unrolled(G)[S]]
    OBVIOUS
  <2> HIDE DEF Unrolled
  <2> QED BY <1>1, <2>1
<1>3. grow = Unrolled(grow)
  <2> HIDE DEF G, Unrolled
  <2> QED BY <1>2
<1>4. Closed(h, objects) = grow[objects]
  BY DEF Closed
<1>5. grow[objects] = Least(h, objects)
  <2> DEFINE g == grow
  <2>1. g = [live \in SUBSET DOMAIN h |->
               IF Reached(h, live) = live THEN live ELSE g[Reached(h, live)]]
    BY <1>3
  <2> HIDE DEF g
  <2> QED BY <2>1, StepsReachLeast
<1> QED BY <1>4, <1>5

\* The closure contains what it starts from, is closed, and lies in every
\* closed set around it.
LEMMA ClosureOfRoots ==
  ASSUME NEW h, RefersInside(h), NEW objects \in SUBSET DOMAIN h
  PROVE  /\ objects \subseteq Closed(h, objects) /\ Closed(h, objects) \subseteq DOMAIN h
         /\ \A o \in Closed(h, objects) : Strong(h[o], Closed(h, objects)) \subseteq Closed(h, objects)
         /\ \A A \in SUBSET DOMAIN h :
              objects \subseteq A /\ ClosedUnder(h, A) => Closed(h, objects) \subseteq A
<1> DEFINE L == Least(h, objects)
<1>1. Closed(h, objects) = L
  BY ClosedIsLeast
<1>2. objects \subseteq L /\ L \subseteq DOMAIN h
  BY DEF Least
<1>3. \A A \in SUBSET DOMAIN h : objects \subseteq A /\ ClosedUnder(h, A) => L \subseteq A
  BY DEF Least
<1>4. Reached(h, L) \subseteq L
  <2>1. \A A \in SUBSET DOMAIN h : objects \subseteq A /\ ClosedUnder(h, A) => Reached(h, L) \subseteq A
    <3> HIDE DEF L
    <3> QED BY <1>2, <1>3, ReachedGrows
  <2>2. Reached(h, L) \subseteq DOMAIN h
    BY <1>2, ReachedGrows
  <2> QED BY <2>1, <2>2 DEF Least
<1>5. \A o \in L : Strong(h[o], L) \subseteq L
  BY <1>4 DEF Reached
<1> QED BY <1>1, <1>2, <1>3, <1>5

(***************************************************************************)
(* Safety of values, objects and frames of a program p.                    *)
(***************************************************************************)
Safe(h, v) == is_object(v) => v.v \in DOMAIN h /\ h[v.v].kind # "Reclaimed"
AllSafe(h, s) == IsSequence(s) /\ \A i \in DOMAIN s : Safe(h, s[i])

\* An object has as many fields as its kind or its layout says, and a
\* closure has a layout.
HasShape(p, x) ==
  /\ x = NewObject(x.kind, x.of, x.tag, x.fields, x.target)
  /\ x.kind = "Pair"      => Len(x.fields) = 2
  /\ x.kind = "Ephemeron" => Len(x.fields) = 1
  /\ x.kind = "Record"    => Len(x.fields) = Len(p.record_layouts[x.of])
  /\ x.kind = "Variant"   => Len(x.fields) = Len(p.variant_layouts[x.of][x.tag])
  /\ x.kind = "Function"  => x.of \in DOMAIN p.closure_layouts

ObjectIsSafe(p, h, x) == HasShape(p, x) /\ AllSafe(h, x.fields) /\ Safe(h, x.target)
HeapIsSafe(p, h) == IsSequence(h) /\ \A o \in DOMAIN h : ObjectIsSafe(p, h, h[o])

FrameIsTyped(p, f) ==
  /\ f = [function |-> f.function, pc |-> f.pc, stack |-> f.stack, closure |-> f.closure,
          locals |-> f.locals]
  /\ f.function \in DOMAIN p.functions
  /\ f.pc \in DOMAIN p.functions[f.function].code
  /\ IsSequence(f.stack) /\ IsSequence(f.locals)
  /\ Len(f.locals) = p.functions[f.function].locals
FrameIsSafe(p, h, f) == FrameIsTyped(p, f) /\ \A v \in ValuesOf(f) : Safe(h, v)
FramesAreSafe(p, h, fs) ==
  IsSequence(fs) /\ Len(fs) <= MaxCallDepth /\ \A i \in DOMAIN fs : FrameIsSafe(p, h, fs[i])

LEMMA NilIsSafe == \A h : Safe(h, Nil)
BY DEF Safe, Nil, Value, is_object

LEMMA SafeHeapRefersInside ==
  ASSUME NEW p, NEW h, HeapIsSafe(p, h)
  PROVE  RefersInside(h)
BY DEF HeapIsSafe, RefersInside, ObjectIsSafe, AllSafe, Safe, ObjectsIn, ToSet

\* A value is safe in every heap that keeps what it names alive.
LEMMA SafeFields ==
  ASSUME NEW h, NEW s, AllSafe(h, s)
  PROVE  \A i \in DOMAIN s : is_object(s[i]) => s[i].v \in ObjectsIn(ToSet(s))
BY DEF ObjectsIn, ToSet

\* What a collection that keeps a closed set leaves behind is well formed,
\* and nothing in the set is harmed.
LEMMA SweepIsSafe ==
  ASSUME NEW p, NEW h, HeapIsSafe(p, h), NEW live \in SUBSET DOMAIN h,
         \A o \in live : Strong(h[o], live) \subseteq live
  PROVE  /\ HeapIsSafe(p, Swept(h, live))
         /\ \A v : Safe(h, v) /\ (is_object(v) => v.v \in live) => Safe(Swept(h, live), v)
<1> DEFINE g == Swept(h, live)
<1>1. IsSequence(h) /\ Len(h) \in Nat /\ DOMAIN h = 1 .. Len(h)
  BY SequenceDomain DEF HeapIsSafe
<1>2. DOMAIN g = DOMAIN h /\ IsSequence(g)
  <2>1. g = [i \in 1 .. Len(h) |-> g[i]] /\ DOMAIN g = DOMAIN h
    BY <1>1 DEF Swept
  <2> QED BY <1>1, <2>1, IsASequence
<1>3. \A o \in DOMAIN h : g[o] = IF o \in live THEN Cleared(h[o], live) ELSE Reclaimed
  BY DEF Swept
<1>4. ASSUME NEW o \in DOMAIN h
      PROVE  /\ HasShape(p, h[o]) /\ IsSequence(h[o].fields)
             /\ h[o] = NewObject(h[o].kind, h[o].of, h[o].tag, h[o].fields, h[o].target)
  BY DEF HeapIsSafe, ObjectIsSafe, AllSafe, HasShape
<1>5. ASSUME NEW o \in live PROVE g[o].kind = h[o].kind
  BY <1>3, <1>4 DEF Cleared, NewObject
<1>6. ASSUME NEW v, Safe(h, v), is_object(v) => v.v \in live PROVE Safe(g, v)
  BY <1>2, <1>5, <1>6 DEF Safe
<1> HIDE DEF g
<1>7. ASSUME NEW o \in DOMAIN h PROVE ObjectIsSafe(p, g, g[o])
  <2> DEFINE x == h[o]
  <2>1. CASE o \notin live
    <3>1. g[o] = Reclaimed
      BY <1>3, <2>1
    <3>2. IsSequence(<<>>)
      BY DEF IsSequence
    <3> QED BY <3>1, <3>2, NilIsSafe DEF ObjectIsSafe, HasShape, AllSafe, Reclaimed, NewObject
  <2>2. CASE o \in live /\ ObjectsIn({x.target}) \subseteq live
    <3>1. g[o] = x
      BY <1>3, <2>2 DEF Cleared
    <3>2. ObjectsIn(ToSet(x.fields)) \subseteq live
      BY <2>2 DEF Strong
    <3>3. Safe(h, x.target) /\ AllSafe(h, x.fields)
      BY DEF HeapIsSafe, ObjectIsSafe
    <3>4. is_object(x.target) => x.target.v \in live
      BY <2>2 DEF ObjectsIn
    <3>5. Safe(g, x.target)
      BY <1>6, <3>3, <3>4
    <3>6. AllSafe(g, x.fields)
      BY <1>6, <3>2, <3>3, SafeFields DEF AllSafe
    <3> QED BY <1>4, <3>1, <3>5, <3>6 DEF ObjectIsSafe
  <2>3. CASE o \in live /\ ~(ObjectsIn({x.target}) \subseteq live)
    <3>1. g[o] = [x EXCEPT !.target = Nil,
                           !.fields = IF x.kind = "Ephemeron" THEN <<Nil>> ELSE x.fields]
      BY <1>3, <2>3 DEF Cleared
    <3>2. g[o] = NewObject(x.kind, x.of, x.tag, g[o].fields, Nil)
      BY <1>4, <3>1 DEF NewObject
    <3>3. CASE x.kind = "Ephemeron"
      <4>1. g[o].fields = <<Nil>>
        BY <1>4, <3>1, <3>3 DEF NewObject
      <4>2. IsSequence(<<Nil>>) /\ Len(<<Nil>>) = 1 /\ DOMAIN <<Nil>> = {1}
        BY DEF IsSequence, ToSet
      <4>3. AllSafe(g, g[o].fields)
        BY <4>1, <4>2, NilIsSafe DEF AllSafe
      <4> QED BY <3>2, <3>3, <4>1, <4>2, <4>3, NilIsSafe DEF ObjectIsSafe, HasShape, NewObject
    <3>4. CASE x.kind # "Ephemeron"
      <4>1. g[o].fields = x.fields
        BY <1>4, <3>1, <3>4 DEF NewObject
      <4>2. ObjectsIn(ToSet(x.fields)) \subseteq live
        BY <2>3, <3>4 DEF Strong
      <4>3. AllSafe(h, x.fields)
        BY DEF HeapIsSafe, ObjectIsSafe
      <4>4. AllSafe(g, x.fields)
        BY <1>6, <4>2, <4>3, SafeFields DEF AllSafe
      <4> QED BY <1>4, <3>2, <3>4, <4>1, <4>4, NilIsSafe DEF ObjectIsSafe, HasShape, NewObject
    <3> QED BY <3>3, <3>4
  <2> QED BY <2>1, <2>2, <2>3
<1>8. HeapIsSafe(p, g)
  BY <1>2, <1>7 DEF HeapIsSafe
<1> QED BY <1>6, <1>8 DEF g

\* Every collection the machine may run keeps its frames and the exception
\* in flight safe.
LEMMA CollectionIsSafe ==
  ASSUME NEW p, NEW h, NEW fs, NEW exception, NEW g,
         HeapIsSafe(p, h), FramesAreSafe(p, h, fs), Safe(h, exception),
         g = Collected(fs, exception, h) \/ g \in PartlyCollected(fs, exception, h)
  PROVE  HeapIsSafe(p, g) /\ FramesAreSafe(p, g, fs) /\ Safe(g, exception)
<1> DEFINE roots == trace_roots(fs, exception)
<1>1. RefersInside(h)
  BY SafeHeapRefersInside
<1>2. \A v \in roots : Safe(h, v)
  BY DEF FramesAreSafe, FrameIsSafe, trace_roots
<1>3. ObjectsIn(roots) \subseteq DOMAIN h
  BY <1>2 DEF ObjectsIn, Safe
<1>4. PICK live \in SUBSET DOMAIN h :
        /\ g = Swept(h, live) /\ ObjectsIn(roots) \subseteq live
        /\ \A o \in live : Strong(h[o], live) \subseteq live
  <2> DEFINE L == Live(fs, exception, h)
  <2>1. /\ L \in SUBSET DOMAIN h /\ ObjectsIn(roots) \subseteq L
        /\ \A o \in L : Strong(h[o], L) \subseteq L
    BY <1>1, <1>3, ClosureOfRoots DEF Live
  <2>2. CASE g = Collected(fs, exception, h)
    BY <2>1, <2>2 DEF Collected
  <2>3. CASE g \in PartlyCollected(fs, exception, h)
    <3>1. PICK kept \in SUBSET (DOMAIN h \ L) : g = Swept(h, Closed(h, L \cup kept))
      BY <2>3 DEF PartlyCollected
    <3> DEFINE C == Closed(h, L \cup kept)
    <3>2. L \cup kept \in SUBSET DOMAIN h
      BY <2>1, <3>1
    <3>3. /\ C \in SUBSET DOMAIN h /\ L \subseteq C
          /\ \A o \in C : Strong(h[o], C) \subseteq C
      <4> HIDE DEF L
      <4> QED BY <1>1, <3>2, ClosureOfRoots
    <3> QED BY <2>1, <3>1, <3>3
  <2> QED BY <2>2, <2>3
<1>5. HeapIsSafe(p, g) /\ \A v \in roots : Safe(g, v)
  <2>1. \A v \in roots : is_object(v) => v.v \in live
    BY <1>4 DEF ObjectsIn
  <2> HIDE DEF roots
  <2> QED BY <1>2, <1>4, <2>1, SweepIsSafe
<1>6. Safe(g, exception)
  BY <1>5 DEF trace_roots
<1>7. \A i \in DOMAIN fs : \A v \in ValuesOf(fs[i]) : Safe(g, v)
  BY <1>5 DEF trace_roots
<1> QED BY <1>5, <1>6, <1>7 DEF FramesAreSafe, FrameIsSafe

-----------------------------------------------------------------------------
(***************************************************************************)
(* The inductive invariant of the virtual machine, and what the steps of   *)
(* its instructions have in common: taking operands, pushing results,      *)
(* storing into objects, moving the running frame.                         *)
(***************************************************************************)

Cycles == {"idle", "marking", "compacting"}

(***************************************************************************)
(* The inductive invariant: nothing the heap or a frame holds is           *)
(* reclaimed, objects have the fields of their layouts, and what must      *)
(* hold in each phase of the execution.                                    *)
(***************************************************************************)
VmInv ==
  /\ HeapIsSafe(program, heap) /\ FramesAreSafe(program, heap, frames) /\ Safe(heap, pending)
  /\ status \in Statuses /\ cycle \in Cycles
  /\ status \in {"boundary", "dispatch"} => frames # <<>>
  /\ status # "idle" => verdict = "verified"
  /\ status = "idle" => frames = <<>> /\ heap = <<>>
  /\ status \notin {"throwing", "unwinding"} => pending = Nil
  /\ status \in {"idle", "returned", "trapped"} => cycle = "idle"
  /\ executed \in 0 .. MaxInstructions
  /\ status \in {"dispatch", "throwing", "unwinding"} => executed < MaxInstructions

(***************************************************************************)
(* Frames.                                                                 *)
(***************************************************************************)
LEMMA TopReplaced ==
  ASSUME NEW p, NEW h, NEW fs, FramesAreSafe(p, h, fs), fs # <<>>, NEW f, FrameIsSafe(p, h, f)
  PROVE  FramesAreSafe(p, h, [fs EXCEPT ![Len(fs)] = f]) /\ [fs EXCEPT ![Len(fs)] = f] # <<>>
<1> DEFINE gs == [fs EXCEPT ![Len(fs)] = f]
<1>1. IsSequence(fs) /\ Len(fs) \in Nat /\ DOMAIN fs = 1 .. Len(fs)
  BY SequenceDomain DEF FramesAreSafe
<1>2. Len(fs) # 0
  BY <1>1 DEF IsSequence
<1>3. IsSequence(gs) /\ Len(gs) = Len(fs) /\ DOMAIN gs = DOMAIN fs
  BY <1>1, Updated
<1>4. \A i \in DOMAIN fs : FrameIsSafe(p, h, gs[i])
  BY <1>1 DEF FramesAreSafe
<1>5. gs # <<>>
  BY <1>1, <1>2, <1>3
<1> QED BY <1>1, <1>3, <1>4, <1>5 DEF FramesAreSafe

LEMMA FramePushed ==
  ASSUME NEW p, NEW h, NEW fs, FramesAreSafe(p, h, fs), Len(fs) < MaxCallDepth,
         NEW f, FrameIsSafe(p, h, f)
  PROVE  FramesAreSafe(p, h, Append(fs, f)) /\ Append(fs, f) # <<>>
<1>1. IsSequence(fs) /\ Len(fs) \in Nat /\ DOMAIN fs = 1 .. Len(fs)
  BY SequenceDomain DEF FramesAreSafe
<1>2. \A i \in DOMAIN Append(fs, f) : FrameIsSafe(p, h, Append(fs, f)[i])
  BY <1>1, Appended DEF FramesAreSafe
<1> QED BY <1>1, <1>2, Appended, VmBounds DEF FramesAreSafe

LEMMA FramePopped ==
  ASSUME NEW p, NEW h, NEW fs, FramesAreSafe(p, h, fs), fs # <<>>
  PROVE  /\ FramesAreSafe(p, h, SubSeq(fs, 1, Len(fs) - 1))
         /\ Len(SubSeq(fs, 1, Len(fs) - 1)) = Len(fs) - 1
<1>1. IsSequence(fs) /\ Len(fs) \in Nat /\ DOMAIN fs = 1 .. Len(fs)
  BY SequenceDomain DEF FramesAreSafe
<1>2. Len(fs) # 0
  BY <1>1 DEF IsSequence
<1> DEFINE gs == SubSeq(fs, 1, Len(fs) - 1)
<1>3. /\ IsSequence(gs) /\ Len(gs) = Len(fs) - 1 /\ DOMAIN gs = 1 .. Len(fs) - 1
      /\ \A i \in 1 .. Len(fs) - 1 : gs[i] = fs[i] /\ i \in DOMAIN fs
  BY <1>1, <1>2, Sliced
<1> QED BY <1>1, <1>3, VmBounds DEF FramesAreSafe

\* A frame whose locals and stack stay safe may move to any of its program
\* counters.
LEMMA FrameMoved ==
  ASSUME NEW p, NEW h, NEW f, FrameIsSafe(p, h, f), NEW stack, AllSafe(h, stack),
         NEW pc \in DOMAIN p.functions[f.function].code
  PROVE  FrameIsSafe(p, h, [f EXCEPT !.stack = stack, !.pc = pc])
<1> DEFINE g == [f EXCEPT !.stack = stack, !.pc = pc]
<1>1. g = [function |-> f.function, pc |-> pc, stack |-> stack, closure |-> f.closure,
           locals |-> f.locals]
  <2>1. ASSUME NEW a, NEW b, NEW c, NEW d, NEW e,
               f = [function |-> a, pc |-> b, stack |-> c, closure |-> d, locals |-> e]
        PROVE  g = [function |-> a, pc |-> pc, stack |-> stack, closure |-> d, locals |-> e]
    <3> DEFINE k == [f EXCEPT !.stack = stack]
    <3>1. g = [k EXCEPT !.pc = pc]
      OBVIOUS
    <3>2. k = [function |-> a, pc |-> b, stack |-> stack, closure |-> d, locals |-> e]
      BY <2>1
    <3> HIDE DEF g, k
    <3> QED BY <3>1, <3>2
  <2> HIDE DEF g
  <2> QED BY <2>1 DEF FrameIsSafe, FrameIsTyped
<1> HIDE DEF g
<1>2. FrameIsTyped(p, g)
  BY <1>1 DEF FrameIsSafe, FrameIsTyped, AllSafe
<1>3. \A v \in ValuesOf(g) : Safe(h, v)
  BY <1>1 DEF FrameIsSafe, ValuesOf, ToSet, AllSafe
<1> QED BY <1>2, <1>3 DEF g, FrameIsSafe

LEMMA FrameJumped ==
  ASSUME NEW p, NEW h, NEW f, FrameIsSafe(p, h, f), NEW pc \in DOMAIN p.functions[f.function].code
  PROVE  FrameIsSafe(p, h, [f EXCEPT !.pc = pc])
<1> DEFINE g == [f EXCEPT !.pc = pc]
<1>1. g = [function |-> f.function, pc |-> pc, stack |-> f.stack, closure |-> f.closure,
           locals |-> f.locals]
  BY DEF FrameIsSafe, FrameIsTyped
<1> HIDE DEF g
<1>2. FrameIsTyped(p, g)
  BY <1>1 DEF FrameIsSafe, FrameIsTyped
<1>3. ValuesOf(g) = ValuesOf(f)
  BY <1>1 DEF ValuesOf
<1> QED BY <1>2, <1>3 DEF g, FrameIsSafe

LEMMA StackReplaced ==
  ASSUME NEW p, NEW h, NEW f, FrameIsSafe(p, h, f), NEW stack, AllSafe(h, stack)
  PROVE  FrameIsSafe(p, h, [f EXCEPT !.stack = stack])
<1> DEFINE g == [f EXCEPT !.stack = stack]
<1>1. g = [function |-> f.function, pc |-> f.pc, stack |-> stack, closure |-> f.closure,
           locals |-> f.locals]
  BY DEF FrameIsSafe, FrameIsTyped
<1> HIDE DEF g
<1>2. FrameIsTyped(p, g)
  BY <1>1 DEF FrameIsSafe, FrameIsTyped, AllSafe
<1>3. \A v \in ValuesOf(g) : Safe(h, v)
  BY <1>1 DEF FrameIsSafe, ValuesOf, ToSet, AllSafe
<1> QED BY <1>2, <1>3 DEF g, FrameIsSafe

LEMMA LocalsReplaced ==
  ASSUME NEW p, NEW h, NEW f, FrameIsSafe(p, h, f), NEW locals, AllSafe(h, locals),
         Len(locals) = Len(f.locals)
  PROVE  FrameIsSafe(p, h, [f EXCEPT !.locals = locals])
<1> DEFINE g == [f EXCEPT !.locals = locals]
<1>1. g = [function |-> f.function, pc |-> f.pc, stack |-> f.stack, closure |-> f.closure,
           locals |-> locals]
  BY DEF FrameIsSafe, FrameIsTyped
<1> HIDE DEF g
<1>2. FrameIsTyped(p, g)
  BY <1>1 DEF FrameIsSafe, FrameIsTyped, AllSafe
<1>3. \A v \in ValuesOf(g) : Safe(h, v)
  BY <1>1 DEF FrameIsSafe, ValuesOf, ToSet, AllSafe
<1> QED BY <1>2, <1>3 DEF g, FrameIsSafe

LEMMA ClosureDropped ==
  ASSUME NEW p, NEW h, NEW f, FrameIsSafe(p, h, f)
  PROVE  FrameIsSafe(p, h, [f EXCEPT !.closure = Nil])
<1> DEFINE g == [f EXCEPT !.closure = Nil]
<1>1. g = [function |-> f.function, pc |-> f.pc, stack |-> f.stack, closure |-> Nil,
           locals |-> f.locals]
  BY DEF FrameIsSafe, FrameIsTyped
<1> HIDE DEF g
<1>2. FrameIsTyped(p, g)
  BY <1>1 DEF FrameIsSafe, FrameIsTyped
<1>3. \A v \in ValuesOf(g) : Safe(h, v)
  BY <1>1, NilIsSafe DEF FrameIsSafe, ValuesOf
<1> QED BY <1>2, <1>3 DEF g, FrameIsSafe

\* A dying frame described by its tail call's stack map.
LEMMA CanonicalIsSafe ==
  ASSUME NEW h, NEW f, FrameIsSafe(program, h, f)
  PROVE  FrameIsSafe(program, h, Canonical(f))
<1> DEFINE nils == [i \in DOMAIN f.locals |-> Nil]
           k == [f EXCEPT !.locals = nils]
<1>1. AllSafe(h, nils) /\ Len(nils) = Len(f.locals)
  <2>1. IsSequence(f.locals) /\ Len(f.locals) \in Nat /\ DOMAIN f.locals = 1 .. Len(f.locals)
    BY SequenceDomain DEF FrameIsSafe, FrameIsTyped
  <2>2. nils = [i \in 1 .. Len(f.locals) |-> nils[i]] /\ DOMAIN nils = DOMAIN f.locals
    BY <2>1
  <2>3. IsSequence(nils) /\ Len(nils) = Len(f.locals)
    <3> HIDE DEF nils
    <3> QED BY <2>1, <2>2, IsASequence
  <2> QED BY <2>3, NilIsSafe DEF AllSafe
<1>2. FrameIsSafe(program, h, k)
  <2> HIDE DEF nils
  <2> QED BY <1>1, LocalsReplaced
<1>3. FrameIsSafe(program, h, [k EXCEPT !.closure = Nil])
  <2> HIDE DEF k
  <2> QED BY <1>2, ClosureDropped
<1>4. Canonical(f) = f \/ Canonical(f) = [k EXCEPT !.closure = Nil]
  BY DEF Canonical
<1> QED BY <1>3, <1>4

\* The frame of a call: the arguments come first among its locals.
LEMMA NewFrameIsSafe ==
  ASSUME ModuleIsClosed, NEW h, NEW function \in DOMAIN program.functions,
         NEW arguments, AllSafe(h, arguments), NEW closure, Safe(h, closure)
  PROVE  FrameIsSafe(program, h, NewFrame(function, arguments, closure))
<1> DEFINE f == NewFrame(function, arguments, closure)
           n == FunctionAt(function).locals
           locals == [i \in 1 .. n |-> IF i <= Len(arguments) THEN arguments[i] ELSE Nil]
<1>1. /\ n \in Nat /\ IsSequence(FunctionAt(function).code)
      /\ 1 \in DOMAIN FunctionAt(function).code
  <2>1. FunctionIsClosed(FunctionAt(function))
    BY DEF ModuleIsClosed
  <2> QED BY <2>1, SequenceDomain DEF FunctionIsClosed, IsSequence
<1>2. Len(arguments) \in Nat /\ DOMAIN arguments = 1 .. Len(arguments)
  BY SequenceDomain DEF AllSafe
<1>3. IsSequence(locals) /\ Len(locals) = n /\ DOMAIN locals = 1 .. n
  <2>1. locals = [i \in 1 .. n |-> locals[i]] /\ DOMAIN locals = 1 .. n
    OBVIOUS
  <2> HIDE DEF locals
  <2> QED BY <1>1, <2>1, IsASequence
<1>4. AllSafe(h, locals)
  BY <1>2, <1>3, NilIsSafe DEF AllSafe
<1>5. IsSequence(<<>>)
  BY DEF IsSequence
<1>6. f = [function |-> function, pc |-> 1, stack |-> <<>>, closure |-> closure, locals |-> locals]
  BY DEF NewFrame
<1> HIDE DEF f, locals
<1>7. FrameIsTyped(program, f)
  BY <1>1, <1>3, <1>5, <1>6 DEF FrameIsTyped, FunctionAt
<1>8. \A v \in ValuesOf(f) : Safe(h, v)
  BY <1>4, <1>6 DEF ValuesOf, ToSet, AllSafe
<1> QED BY <1>7, <1>8 DEF f, FrameIsSafe

\* Frames stay safe when the heap keeps everything that is alive.
Preserves(h, g) == \A v : Safe(h, v) => Safe(g, v)
LEMMA FramesPreserved ==
  ASSUME NEW p, NEW h, NEW g, NEW fs, FramesAreSafe(p, h, fs), Preserves(h, g)
  PROVE  FramesAreSafe(p, g, fs)
BY DEF FramesAreSafe, FrameIsSafe, Preserves

(***************************************************************************)
(* The heap.                                                               *)
(***************************************************************************)
LEMMA ObjectAppended ==
  ASSUME NEW p, NEW h, HeapIsSafe(p, h), NEW x, HasShape(p, x), AllSafe(h, x.fields),
         Safe(h, x.target), x.kind # "Reclaimed"
  PROVE  /\ HeapIsSafe(p, Append(h, x)) /\ Preserves(h, Append(h, x))
         /\ Safe(Append(h, x), Object(Len(h) + 1))
<1> DEFINE g == Append(h, x)
<1>1. IsSequence(h) /\ Len(h) \in Nat /\ DOMAIN h = 1 .. Len(h)
  BY SequenceDomain DEF HeapIsSafe
<1>2. /\ IsSequence(g) /\ DOMAIN g = 1 .. Len(h) + 1
      /\ \A i \in DOMAIN h : g[i] = h[i]
      /\ g[Len(h) + 1] = x
  BY <1>1, Appended
<1> HIDE DEF g
<1>3. \A v : Safe(h, v) => Safe(g, v)
  BY <1>1, <1>2 DEF Safe
<1>4. \A o \in DOMAIN g : ObjectIsSafe(p, g, g[o])
  <2>1. ObjectIsSafe(p, g, x)
    BY <1>3 DEF ObjectIsSafe, AllSafe
  <2>2. \A o \in DOMAIN h : ObjectIsSafe(p, g, h[o])
    BY <1>3 DEF HeapIsSafe, ObjectIsSafe, AllSafe
  <2> QED BY <1>1, <1>2, <2>1, <2>2
<1>5. Safe(g, Object(Len(h) + 1))
  BY <1>1, <1>2 DEF Safe, Object, Value, is_object
<1> QED BY <1>2, <1>3, <1>4, <1>5 DEF g, HeapIsSafe, Preserves

\* An object may get other fields, as long as it keeps its shape.
LEMMA FieldsReplaced ==
  ASSUME NEW p, NEW h, HeapIsSafe(p, h), NEW o \in DOMAIN h, NEW fields, AllSafe(h, fields),
         Len(fields) = Len(h[o].fields) \/ h[o].kind = "Map"
  PROVE  /\ HeapIsSafe(p, [h EXCEPT ![o].fields = fields])
         /\ Preserves(h, [h EXCEPT ![o].fields = fields])
<1> DEFINE g == [h EXCEPT ![o].fields = fields]
           x == h[o]
<1>1. x = NewObject(x.kind, x.of, x.tag, x.fields, x.target) /\ HasShape(p, x)
  BY DEF HeapIsSafe, ObjectIsSafe, HasShape
<1>2. /\ IsSequence(g) /\ DOMAIN g = DOMAIN h
      /\ \A i \in DOMAIN h : i # o => g[i] = h[i]
      /\ g[o] = [x EXCEPT !.fields = fields]
  BY Updated DEF HeapIsSafe
<1>3. g[o] = NewObject(x.kind, x.of, x.tag, fields, x.target)
  <2> HIDE DEF x
  <2> QED BY <1>1, <1>2 DEF NewObject
<1> HIDE DEF g
<1>4. \A i \in DOMAIN h : g[i].kind = h[i].kind
  BY <1>2, <1>3 DEF NewObject
<1>5. \A v : Safe(h, v) => Safe(g, v)
  BY <1>2, <1>4 DEF Safe
<1>6. ObjectIsSafe(p, g, g[o])
  <2>1. HasShape(p, g[o])
    BY <1>1, <1>3 DEF HasShape, NewObject
  <2>2. Safe(h, x.target)
    BY DEF HeapIsSafe, ObjectIsSafe
  <2>3. g[o].fields = fields /\ g[o].target = x.target
    BY <1>3 DEF NewObject
  <2> QED BY <1>5, <2>1, <2>2, <2>3 DEF ObjectIsSafe, AllSafe
<1>7. \A i \in DOMAIN h : i # o => ObjectIsSafe(p, g, g[i])
  BY <1>2, <1>5 DEF HeapIsSafe, ObjectIsSafe, AllSafe
<1> QED BY <1>2, <1>5, <1>6, <1>7 DEF g, HeapIsSafe, Preserves

(***************************************************************************)
(* Operands.                                                               *)
(***************************************************************************)
LEMMA KindOpDomains ==
  /\ DOMAIN NumberOps = {"ConstantI64", "AddI64", "I64Abs", "LessI64"}
  /\ DOMAIN StringOps = {"PushStr", "StrLen", "StrEq", "StrConcat", "StrIntern", "StrSub", "StrLt",
                         "StrIndex"}
  /\ DOMAIN ConversionOps = {"PrintStr", "I64ToStr", "StrToI64", "BoolToStr"}
  /\ DOMAIN BuilderOps = {"AllocBuilder", "BuilderAppend", "BuilderLen", "BuilderToStr", "BuilderClear"}
  /\ DOMAIN ArrayOps = {"AllocArray", "ArrayGet", "ArraySet"}
BY DEF NumberOps, StringOps, ConversionOps, BuilderOps, ArrayOps

LEMMA KindOpsAre ==
  KindOps = {"ConstantI64", "AddI64", "I64Abs", "LessI64",
             "PushStr", "StrLen", "StrEq", "StrConcat", "StrIntern", "StrSub", "StrLt", "StrIndex",
             "PrintStr", "I64ToStr", "StrToI64", "BoolToStr",
             "AllocBuilder", "BuilderAppend", "BuilderLen", "BuilderToStr", "BuilderClear",
             "AllocArray", "ArrayGet", "ArraySet"}
BY KindOpDomains DEF KindOps

Pushes == {<<>>, <<"Int64">>, <<"Bool">>, <<"Str">>, <<"Builder">>, <<"Array">>}
IsKindSignature(sig) == Len(sig.pops) \in Nat /\ sig.push \in Pushes

LEMMA KindSignatures ==
  ASSUME NEW op \in KindOps
  PROVE  IsKindSignature(KindSignature(op))
<1>1. /\ op \in DOMAIN NumberOps     => KindSignature(op) = NumberOps[op]
      /\ op \in DOMAIN StringOps     => KindSignature(op) = StringOps[op]
      /\ op \in DOMAIN ConversionOps => KindSignature(op) = ConversionOps[op]
      /\ op \in DOMAIN BuilderOps    => KindSignature(op) = BuilderOps[op]
      /\ op \in DOMAIN ArrayOps      => KindSignature(op) = ArrayOps[op]
  BY KindOpDomains DEF KindSignature
<1>2. CASE op \in DOMAIN NumberOps
  <2>1. IsKindSignature(NumberOps[op])
    BY <1>2, KindOpDomains DEF NumberOps, Signature, IsKindSignature, Pushes
  <2> QED BY <1>1, <1>2, <2>1
<1>3. CASE op \in DOMAIN StringOps
  <2>1. IsKindSignature(StringOps[op])
    BY <1>3, KindOpDomains DEF StringOps, Signature, IsKindSignature, Pushes
  <2> QED BY <1>1, <1>3, <2>1
<1>4. CASE op \in DOMAIN ConversionOps
  <2>1. IsKindSignature(ConversionOps[op])
    BY <1>4, KindOpDomains DEF ConversionOps, Signature, IsKindSignature, Pushes
  <2> QED BY <1>1, <1>4, <2>1
<1>5. CASE op \in DOMAIN BuilderOps
  <2>1. IsKindSignature(BuilderOps[op])
    BY <1>5, KindOpDomains DEF BuilderOps, Signature, IsKindSignature, Pushes
  <2> QED BY <1>1, <1>5, <2>1
<1>6. CASE op \in DOMAIN ArrayOps
  <2>1. IsKindSignature(ArrayOps[op])
    BY <1>6, KindOpDomains DEF ArrayOps, Signature, IsKindSignature, Pushes
  <2> QED BY <1>1, <1>6, <2>1
<1> QED BY <1>2, <1>3, <1>4, <1>5, <1>6 DEF KindOps

NoOperand == {"Nil", "LoadLocal", "Jump", "Collect", "TryBegin", "TryEnd", "LoadCapture", "AllocMap"}
OneOperand == {"IsNil", "GetField", "JumpIfFalse", "StoreLocal", "RecordGet", "VariantTag", "Throw",
               "VariantGet", "AllocWeak", "ArrayLen", "MapLen", "EphemeronKey", "EphemeronValue",
               "WeakGet", "CallClosure", "Return"}
TwoOperands == {"AllocPair", "SetField", "RecordSet", "AllocRefArray", "RefArrayGet", "MapGet",
                "MapHas", "MapKeyAt", "MapValueAt", "AllocEphemeron", "EphemeronSetValue"}
ThreeOperands == {"RefArraySet", "MapSet"}

LEMMA Arities ==
  /\ Ins.op \in KindOps        => Arity = Len(KindSignature(Ins.op).pops)
  /\ Ins.op \in NoOperand      => Arity = 0
  /\ Ins.op \in OneOperand     => Arity = 1
  /\ Ins.op \in TwoOperands    => Arity = 2
  /\ Ins.op \in ThreeOperands  => Arity = 3
  /\ Ins.op = "AllocRecord"    => Arity = Len(RecordLayouts[Ins.a])
  /\ Ins.op = "AllocVariant"   => Arity = Len(VariantLayouts[Ins.a][Ins.b])
  /\ Ins.op = "AllocClosure"   => Arity = Len(ClosureLayouts[Ins.a].captures)
  /\ Ins.op \in {"Call", "TailCall"} => Arity = Len(FunctionAt(Ins.a).params)
<1> DEFINE op == Ins.op
<1> HIDE DEF op
<1>1. op \in KindOps => Arity = Len(KindSignature(op).pops)
  BY KindOpsAre DEF Arity, op
<1>2. op \in NoOperand => Arity = 0
  BY KindOpsAre DEF Arity, op, NoOperand
<1>3. op \in OneOperand => Arity = 1
  BY KindOpsAre DEF Arity, op, OneOperand
<1>4. op \in TwoOperands => Arity = 2
  BY KindOpsAre DEF Arity, op, TwoOperands
<1>5. op \in ThreeOperands => Arity = 3
  BY KindOpsAre DEF Arity, op, ThreeOperands
<1>6. op = "AllocRecord" => Arity = Len(RecordLayouts[Ins.a])
  BY KindOpsAre DEF Arity, op
<1>7. op = "AllocVariant" => Arity = Len(VariantLayouts[Ins.a][Ins.b])
  BY KindOpsAre DEF Arity, op
<1>8. op = "AllocClosure" => Arity = Len(ClosureLayouts[Ins.a].captures)
  BY KindOpsAre DEF Arity, op
<1>9. op \in {"Call", "TailCall"} => Arity = Len(FunctionAt(Ins.a).params)
  BY KindOpsAre DEF Arity, op
<1> QED BY <1>1, <1>2, <1>3, <1>4, <1>5, <1>6, <1>7, <1>8, <1>9 DEF op

\* What is known of the running frame when an instruction is dispatched.
LEMMA Running ==
  ASSUME VmInv, VerifiedIsClosed, status = "dispatch"
  PROVE  /\ ModuleIsClosed /\ frames # <<>> /\ pending = Nil /\ executed \in Nat
         /\ executed < MaxInstructions /\ cycle \in Cycles
         /\ HeapIsSafe(program, heap) /\ FramesAreSafe(program, heap, frames)
         /\ FrameIsSafe(program, heap, Top) /\ Len(frames) \in Nat /\ Len(frames) # 0
         /\ FunctionIsClosed(FunctionAt(Top.function))
         /\ Top.pc \in DOMAIN FunctionAt(Top.function).code
         /\ Ins.op \notin Diverts => Top.pc + 1 \in DOMAIN FunctionAt(Top.function).code
         /\ AllSafe(heap, Top.stack) /\ AllSafe(heap, Top.locals) /\ Safe(heap, Top.closure)
<1>1. /\ ModuleIsClosed /\ frames # <<>> /\ pending = Nil /\ executed \in Nat
      /\ executed < MaxInstructions /\ cycle \in Cycles
      /\ HeapIsSafe(program, heap) /\ FramesAreSafe(program, heap, frames)
  BY DEF VmInv, VerifiedIsClosed
<1>2. IsSequence(frames) /\ Len(frames) \in Nat /\ DOMAIN frames = 1 .. Len(frames) /\ Len(frames) # 0
  BY <1>1, SequenceDomain DEF FramesAreSafe, IsSequence
<1>3. FrameIsSafe(program, heap, Top)
  BY <1>1, <1>2 DEF FramesAreSafe, Top
<1>4. FunctionIsClosed(FunctionAt(Top.function)) /\ Top.pc \in DOMAIN FunctionAt(Top.function).code
  BY <1>1, <1>3 DEF FrameIsSafe, FrameIsTyped, FunctionAt, ModuleIsClosed
<1>5. Ins.op \notin Diverts => Top.pc + 1 \in DOMAIN FunctionAt(Top.function).code
  BY <1>4 DEF FunctionIsClosed, Ins
<1>6. AllSafe(heap, Top.stack) /\ AllSafe(heap, Top.locals) /\ Safe(heap, Top.closure)
  BY <1>3 DEF FrameIsSafe, FrameIsTyped, ValuesOf, ToSet, AllSafe
<1> QED BY <1>1, <1>2, <1>3, <1>4, <1>5, <1>6

\* The operands of an instruction, and what it leaves on the stack.
LEMMA Operands ==
  ASSUME NEW h, AllSafe(h, Top.stack), NEW n \in Nat, n <= Len(Top.stack)
  PROVE  /\ AllSafe(h, Rest(n)) /\ Len(Rest(n)) = Len(Top.stack) - n
         /\ AllSafe(h, Args(n)) /\ Len(Args(n)) = n
         /\ \A i \in 0 .. n - 1 : Safe(h, Arg(i))
<1>1. IsSequence(Top.stack) /\ Len(Top.stack) \in Nat /\ DOMAIN Top.stack = 1 .. Len(Top.stack)
  BY SequenceDomain DEF AllSafe
<1>2. AllSafe(h, Rest(n)) /\ Len(Rest(n)) = Len(Top.stack) - n
  <2> DEFINE m == Len(Top.stack) - n
  <2>1. m \in Int /\ 1 <= m + 1 /\ m <= Len(Top.stack)
    BY <1>1
  <2>2. /\ IsSequence(SubSeq(Top.stack, 1, m)) /\ Len(SubSeq(Top.stack, 1, m)) = m + 1 - 1
        /\ DOMAIN SubSeq(Top.stack, 1, m) = 1 .. m + 1 - 1
        /\ \A i \in 1 .. m + 1 - 1 : /\ SubSeq(Top.stack, 1, m)[i] = Top.stack[1 + i - 1]
                                     /\ 1 + i - 1 \in DOMAIN Top.stack
    <3> HIDE DEF m
    <3> QED BY <1>1, <2>1, Sliced
  <2>3. \A i \in 1 .. m : SubSeq(Top.stack, 1, m)[i] = Top.stack[i] /\ i \in DOMAIN Top.stack
    BY <2>1, <2>2
  <2> QED BY <1>1, <2>2, <2>3 DEF AllSafe, Rest
<1>3. AllSafe(h, Args(n)) /\ Len(Args(n)) = n
  <2> DEFINE m == Len(Top.stack) - n + 1
             k == Len(Top.stack)
  <2>1. m \in Int /\ k \in Int /\ 1 <= m /\ m <= k + 1 /\ k <= Len(Top.stack) /\ k + 1 - m = n
    BY <1>1
  <2>2. /\ IsSequence(SubSeq(Top.stack, m, k)) /\ Len(SubSeq(Top.stack, m, k)) = n
        /\ DOMAIN SubSeq(Top.stack, m, k) = 1 .. n
        /\ \A i \in 1 .. n : /\ SubSeq(Top.stack, m, k)[i] = Top.stack[m + i - 1]
                             /\ m + i - 1 \in DOMAIN Top.stack
    <3> HIDE DEF m, k
    <3> QED BY <1>1, <2>1, Sliced
  <2> QED BY <1>1, <2>2 DEF AllSafe, Args
<1>4. \A i \in 0 .. n - 1 : Safe(h, Arg(i))
  BY <1>1 DEF AllSafe, Arg
<1> QED BY <1>2, <1>3, <1>4

(***************************************************************************)
(* Steps of the dispatch loop.                                             *)
(***************************************************************************)
\* An instruction that leaves a safe heap and safe frames.
LEMMA RetiredIsSafe ==
  ASSUME VmInv, VerifiedIsClosed, status = "dispatch", NEW fs, Retired(fs), fs # <<>>,
         HeapIsSafe(program, heap'), FramesAreSafe(program, heap', fs), cycle' \in Cycles
  PROVE  VmInv'
<1>1. /\ frames' = fs /\ status' = "boundary" /\ executed' = executed + 1
      /\ program' = program /\ verdict' = verdict /\ pending' = Nil
  BY Running DEF Retired, moduleVars
<1>2. HeapIsSafe(program', heap') /\ FramesAreSafe(program', heap', frames') /\ Safe(heap', pending')
  BY <1>1, NilIsSafe
<1>3. executed' \in 0 .. MaxInstructions /\ verdict' = "verified"
  BY <1>1, Running, VmBounds DEF VmInv
<1> QED BY <1>1, <1>2, <1>3 DEF VmInv, Statuses

\* The same, when only the operands of the running frame change.
LEMMA NextIsSafe ==
  ASSUME VmInv, VerifiedIsClosed, status = "dispatch", Ins.op \notin Diverts,
         HeapIsSafe(program, heap'), Preserves(heap, heap'), cycle' \in Cycles,
         NEW stack, AllSafe(heap', stack), Retired(With(Next1(stack)))
  PROVE  VmInv'
<1>1. /\ FramesAreSafe(program, heap', frames) /\ frames # <<>>
      /\ FrameIsSafe(program, heap', Top)
      /\ Top.pc + 1 \in DOMAIN program.functions[Top.function].code
  BY Running, FramesPreserved DEF Preserves, FrameIsSafe, FunctionAt
<1>2. FrameIsSafe(program, heap', Next1(stack))
  BY <1>1, FrameMoved DEF Next1
<1>3. FramesAreSafe(program, heap', With(Next1(stack))) /\ With(Next1(stack)) # <<>>
  BY <1>1, <1>2, TopReplaced DEF With
<1> QED BY <1>3, RetiredIsSafe

LEMMA UntouchedIsSafe ==
  ASSUME VmInv, VerifiedIsClosed, status = "dispatch", heap' = heap
  PROVE  HeapIsSafe(program, heap') /\ Preserves(heap, heap')
BY Running DEF Preserves

LEMMA CycleStaysTyped ==
  ASSUME VmInv, UNCHANGED cycle \/ CompactionFinished
  PROVE  cycle' \in Cycles
BY DEF VmInv, CompactionFinished, Cycles

LEMMA AppendedSafe ==
  ASSUME NEW h, NEW s, AllSafe(h, s), NEW v, Safe(h, v)
  PROVE  AllSafe(h, Append(s, v))
<1>1. \A i \in DOMAIN Append(s, v) : Safe(h, Append(s, v)[i])
  BY Appended, SequenceDomain DEF AllSafe
<1> QED BY <1>1, Appended DEF AllSafe

\* A dispatched instruction finds its operands on the stack.
LEMMA DispatchedOperands ==
  ASSUME VmInv, VerifiedIsClosed, NEW ops, Dispatch(ops), NEW n \in Nat, Arity = n
  PROVE  /\ status = "dispatch" /\ n <= Len(Top.stack)
         /\ AllSafe(heap, Rest(n)) /\ Len(Rest(n)) = Len(Top.stack) - n
         /\ AllSafe(heap, Args(n)) /\ Len(Args(n)) = n
         /\ \A i \in 0 .. n - 1 : Safe(heap, Arg(i))
<1>1. status = "dispatch" /\ n <= Len(Top.stack)
  <2>1. Len(Top.stack) \in Nat
    BY Running, SequenceDomain DEF Dispatch, AllSafe
  <2> QED BY <2>1 DEF Dispatch, InstructionIsSafe
<1>2. AllSafe(heap, Top.stack)
  BY <1>1, Running
<1> QED BY <1>1, <1>2, Operands

LEMMA PopIsSafe ==
  ASSUME VmInv, VerifiedIsClosed, NEW ops, Dispatch(ops), Ins.op \notin Diverts,
         NEW n \in Nat, Arity = n, HeapUntouched, Retired(With(Next1(Rest(n))))
  PROVE  VmInv'
<1>1. status = "dispatch" /\ AllSafe(heap, Rest(n)) /\ heap' = heap
  BY DispatchedOperands DEF HeapUntouched
<1>2. cycle' \in Cycles
  BY Running, <1>1 DEF HeapUntouched
<1> QED BY <1>1, <1>2, UntouchedIsSafe, NextIsSafe

LEMMA PushIsSafe ==
  ASSUME VmInv, VerifiedIsClosed, NEW ops, Dispatch(ops), Ins.op \notin Diverts,
         NEW n \in Nat, Arity = n, NEW v, Safe(heap, v), Push(n, v)
  PROVE  VmInv'
<1>1. status = "dispatch" /\ AllSafe(heap, Rest(n)) /\ heap' = heap
  BY DispatchedOperands DEF Push, HeapUntouched
<1>2. AllSafe(heap', Append(Rest(n), v))
  BY <1>1, AppendedSafe
<1>3. cycle' \in Cycles
  BY Running, <1>1 DEF Push, HeapUntouched
<1> QED BY <1>1, <1>2, <1>3, UntouchedIsSafe, NextIsSafe DEF Push

LEMMA PushNewIsSafe ==
  ASSUME VmInv, VerifiedIsClosed, NEW ops, Dispatch(ops), Ins.op \notin Diverts,
         NEW n \in Nat, Arity = n, NEW x, HasShape(program, x), AllSafe(heap, x.fields),
         Safe(heap, x.target), x.kind # "Reclaimed", PushNew(n, x)
  PROVE  VmInv'
<1>1. status = "dispatch" /\ AllSafe(heap, Rest(n)) /\ HeapIsSafe(program, heap)
  BY DispatchedOperands, Running
<1>2. heap' = Append(heap, x) /\ cycle' \in Cycles
  BY CycleStaysTyped DEF PushNew, Allocated
<1>3. /\ HeapIsSafe(program, heap') /\ Preserves(heap, heap')
      /\ Safe(heap', Object(Len(heap) + 1))
  BY <1>1, <1>2, ObjectAppended
<1>4. AllSafe(heap', Append(Rest(n), Object(Len(heap) + 1)))
  <2>1. AllSafe(heap', Rest(n))
    BY <1>1, <1>3 DEF Preserves, AllSafe
  <2> QED BY <1>3, <2>1, AppendedSafe
<1> QED BY <1>1, <1>2, <1>3, <1>4, NextIsSafe DEF PushNew

\* A scalar is safe in every heap.
LEMMA ScalarsAreSafe ==
  ASSUME NEW h
  PROVE  Safe(h, AnInteger) /\ \A b \in BOOLEAN : Safe(h, Boolean(b))
BY DEF Safe, AnInteger, Boolean, Value, is_object

\* A new object without fields.
LEMMA EmptyObject ==
  ASSUME NEW p, NEW h, NEW kind, NEW of, NEW tag, NEW target, Safe(h, target),
         kind \notin {"Reclaimed", "Pair", "Ephemeron", "Record", "Variant", "Function"},
         NEW x, x = NewObject(kind, of, tag, <<>>, target)
  PROVE  HasShape(p, x) /\ AllSafe(h, x.fields) /\ Safe(h, x.target) /\ x.kind # "Reclaimed"
<1>1. IsSequence(<<>>) /\ DOMAIN <<>> = {}
  BY DEF IsSequence
<1>2. x.kind = kind /\ x.fields = <<>> /\ x.target = target /\ x.of = of /\ x.tag = tag
  BY DEF NewObject
<1> QED BY <1>1, <1>2 DEF HasShape, AllSafe

(***************************************************************************)
(* Objects.                                                                *)
(***************************************************************************)
\* What an operand that is an object holds is safe.
LEMMA OperandObject ==
  ASSUME VmInv, VerifiedIsClosed, status = "dispatch", NEW v, Safe(heap, v), is_object(v)
  PROVE  /\ v.v \in DOMAIN heap /\ HasShape(program, At(v))
         /\ AllSafe(heap, At(v).fields) /\ Safe(heap, At(v).target)
         /\ Len(At(v).fields) \in Nat /\ DOMAIN At(v).fields = 1 .. Len(At(v).fields)
<1>1. v.v \in DOMAIN heap /\ ObjectIsSafe(program, heap, At(v))
  BY Running DEF Safe, HeapIsSafe, At
<1> QED BY <1>1, SequenceDomain DEF ObjectIsSafe, AllSafe

LEMMA FieldIsSafe ==
  ASSUME VmInv, VerifiedIsClosed, status = "dispatch", NEW v, Safe(heap, v), is_object(v),
         NEW i \in DOMAIN At(v).fields
  PROVE  Safe(heap, At(v).fields[i])
BY OperandObject DEF AllSafe

\* A store keeps the object's shape; what is stored is an operand.
LEMMA StoreIsSafe ==
  ASSUME VmInv, VerifiedIsClosed, NEW ops, Dispatch(ops), Ins.op \notin Diverts,
         NEW n \in Nat, Arity = n, NEW v, Safe(heap, v), is_object(v),
         NEW fields, AllSafe(heap, fields),
         Len(fields) = Len(At(v).fields) \/ At(v).kind = "Map",
         heap' = [heap EXCEPT ![v.v].fields = fields], cycle' \in Cycles,
         Retired(With(Next1(Rest(n))))
  PROVE  VmInv'
<1>1. status = "dispatch" /\ AllSafe(heap, Rest(n)) /\ HeapIsSafe(program, heap)
  BY DispatchedOperands, Running
<1>2. v.v \in DOMAIN heap
  BY <1>1, OperandObject
<1>3. HeapIsSafe(program, heap') /\ Preserves(heap, heap')
  BY <1>1, <1>2, FieldsReplaced DEF At
<1>4. AllSafe(heap', Rest(n))
  BY <1>1, <1>3 DEF Preserves, AllSafe
<1> QED BY <1>1, <1>3, <1>4, NextIsSafe

LEMMA FieldStored ==
  ASSUME VmInv, VerifiedIsClosed, NEW ops, Dispatch(ops), Ins.op \notin Diverts,
         NEW n \in Nat, Arity = n, NEW v, Safe(heap, v), is_object(v), NEW w, Safe(heap, w),
         NEW i, heap' = [heap EXCEPT ![v.v].fields[i] = w], cycle' = cycle,
         Retired(With(Next1(Rest(n))))
  PROVE  VmInv'
<1> DEFINE fields == [At(v).fields EXCEPT ![i] = w]
<1>1. status = "dispatch"
  BY DispatchedOperands
<1>2. AllSafe(heap, At(v).fields) /\ v.v \in DOMAIN heap
  BY <1>1, OperandObject
<1>3. AllSafe(heap, fields) /\ Len(fields) = Len(At(v).fields)
  BY <1>2, Updated DEF AllSafe
<1>4. heap' = [heap EXCEPT ![v.v].fields = fields]
  BY DEF At
<1>5. cycle' \in Cycles
  BY CycleStaysTyped
<1> HIDE DEF fields
<1> QED BY <1>3, <1>4, <1>5, StoreIsSafe

\* What an instruction has checked of its operands when it runs.
LEMMA RightOperands ==
  ASSUME NEW ops, Dispatch(ops)
  PROVE  /\ Ins.op = "GetField"    => IsA(Arg(0), "Pair") /\ Ins.a \in {1, 2}
         /\ Ins.op = "SetField"    => IsA(Arg(1), "Pair") /\ Ins.a \in {1, 2}
         /\ Ins.op = "Jump"        => Ins.a \in DOMAIN FunctionAt(Top.function).code
         /\ Ins.op = "JumpIfFalse" => Ins.a \in DOMAIN FunctionAt(Top.function).code
         /\ Ins.op \in {"LoadLocal", "StoreLocal"} => Ins.a \in DOMAIN Top.locals
         /\ Ins.op = "RecordGet"   => IsA(Arg(0), "Record") /\ At(Arg(0)).of = Ins.a
         /\ Ins.op = "RecordSet"   => IsA(Arg(1), "Record")
         /\ Ins.op = "VariantGet"  => IsA(Arg(0), "Variant") /\ At(Arg(0)).of = Ins.a
         /\ Ins.op = "RefArrayGet" => IsA(Arg(1), "RefArray")
         /\ Ins.op = "RefArraySet" => IsA(Arg(2), "RefArray")
         /\ Ins.op \in {"MapGet", "MapHas", "MapLen", "MapKeyAt", "MapValueAt", "MapSet"} =>
              IsA(Arg(Arity - 1), "Map")
         /\ Ins.op \in {"EphemeronKey", "EphemeronValue"} => IsA(Arg(0), "Ephemeron")
         /\ Ins.op = "EphemeronSetValue" => IsA(Arg(1), "Ephemeron")
         /\ Ins.op = "WeakGet"     => IsA(Arg(0), "Weak")
         /\ Ins.op = "CallClosure" =>
              /\ IsA(Arg(0), "Function")
              /\ Len(Top.stack) > Len(FunctionAt(ClosureLayouts[At(Arg(0)).of].function).params)
         /\ Ins.op = "LoadCapture" =>
              IsA(Top.closure, "Function") /\ Ins.a \in DOMAIN At(Top.closure).fields
         /\ Ins.op = "TailCall"    => Len(Top.stack) = Arity /\ Arity <= FunctionAt(Ins.a).locals
<1> DEFINE op == Ins.op
<1>0. OperandsAreRight
  BY DEF Dispatch, InstructionIsSafe
<1> HIDE DEF op
<1>1. /\ op = "GetField"    => IsA(Arg(0), "Pair") /\ Ins.a \in {1, 2}
      /\ op = "SetField"    => IsA(Arg(1), "Pair") /\ Ins.a \in {1, 2}
  BY <1>0, KindOpsAre DEF OperandsAreRight, op
<1>2. /\ op = "Jump"        => Ins.a \in DOMAIN FunctionAt(Top.function).code
      /\ op = "JumpIfFalse" => Ins.a \in DOMAIN FunctionAt(Top.function).code
      /\ op \in {"LoadLocal", "StoreLocal"} => Ins.a \in DOMAIN Top.locals
  BY <1>0, KindOpsAre DEF OperandsAreRight, op
<1>3. /\ op = "RecordGet"   => IsA(Arg(0), "Record") /\ At(Arg(0)).of = Ins.a
      /\ op = "RecordSet"   => IsA(Arg(1), "Record")
      /\ op = "VariantGet"  => IsA(Arg(0), "Variant") /\ At(Arg(0)).of = Ins.a
  BY <1>0, KindOpsAre DEF OperandsAreRight, op
<1>4. /\ op = "RefArrayGet" => IsA(Arg(1), "RefArray")
      /\ op = "RefArraySet" => IsA(Arg(2), "RefArray")
      /\ op \in {"MapGet", "MapHas", "MapLen", "MapKeyAt", "MapValueAt", "MapSet"} =>
           IsA(Arg(Arity - 1), "Map")
  BY <1>0, KindOpsAre DEF OperandsAreRight, op
<1>5. /\ op \in {"EphemeronKey", "EphemeronValue"} => IsA(Arg(0), "Ephemeron")
      /\ op = "EphemeronSetValue" => IsA(Arg(1), "Ephemeron")
      /\ op = "WeakGet"     => IsA(Arg(0), "Weak")
  BY <1>0, KindOpsAre DEF OperandsAreRight, op
<1>6. op = "CallClosure" =>
        /\ IsA(Arg(0), "Function")
        /\ Len(Top.stack) > Len(FunctionAt(ClosureLayouts[At(Arg(0)).of].function).params)
  BY <1>0, KindOpsAre DEF OperandsAreRight, op
<1>7. /\ op = "LoadCapture" =>
           IsA(Top.closure, "Function") /\ Ins.a \in DOMAIN At(Top.closure).fields
      /\ op = "TailCall"    => Len(Top.stack) = Arity /\ Arity <= FunctionAt(Ins.a).locals
  BY <1>0, KindOpsAre DEF OperandsAreRight, op
<1> QED BY <1>1, <1>2, <1>3, <1>4, <1>5, <1>6, <1>7 DEF op

-----------------------------------------------------------------------------
(***************************************************************************)
(* Every instruction that stays in its frame preserves the invariant of    *)
(* the virtual machine.                                                    *)
(***************************************************************************)

(***************************************************************************)
(* One lemma per instruction.                                              *)
(***************************************************************************)
LEMMA StepExecuteKinds ==
  ASSUME VmInv, VerifiedIsClosed, ExecuteKinds PROVE VmInv'
<1> DEFINE ops == KindOps \ {"StrIntern", "BuilderAppend"}
           sig == KindSignature(Ins.op)
<1>1. Dispatch(ops) /\ Ins.op \in KindOps /\ Ins.op \notin Diverts
  BY KindOpsAre DEF ExecuteKinds, Dispatch, Diverts
<1>2. Arity \in Nat /\ sig.push \in Pushes
  BY <1>1, Arities, KindSignatures DEF IsKindSignature
<1>3. \/ sig.push = <<>> /\ HeapUntouched /\ Retired(With(Next1(Rest(Arity))))
      \/ sig.push = <<"Int64">> /\ Push(Arity, AnInteger)
      \/ \E b \in BOOLEAN : Push(Arity, Boolean(b))
      \/ /\ sig.push \in {<<"Str">>, <<"Builder">>, <<"Array">>}
         /\ PushNew(Arity, NewObject(sig.push[1], None, 0, <<>>, Nil))
  BY <1>2 DEF ExecuteKinds, Pushes
<1> HIDE DEF ops, sig
<1>4. CASE sig.push = <<>> /\ HeapUntouched /\ Retired(With(Next1(Rest(Arity))))
  BY <1>1, <1>2, <1>4, PopIsSafe
<1>5. CASE Push(Arity, AnInteger)
  BY <1>1, <1>2, <1>5, PushIsSafe, ScalarsAreSafe
<1>6. CASE \E b \in BOOLEAN : Push(Arity, Boolean(b))
  BY <1>1, <1>2, <1>6, PushIsSafe, ScalarsAreSafe
<1>7. CASE /\ sig.push \in {<<"Str">>, <<"Builder">>, <<"Array">>}
           /\ PushNew(Arity, NewObject(sig.push[1], None, 0, <<>>, Nil))
  <2> DEFINE x == NewObject(sig.push[1], None, 0, <<>>, Nil)
  <2>1. sig.push[1] \in {"Str", "Builder", "Array"}
    BY <1>7
  <2>2. /\ HasShape(program, x) /\ AllSafe(heap, x.fields) /\ Safe(heap, x.target)
        /\ x.kind # "Reclaimed"
    <3> HIDE DEF x
    <3> QED BY <2>1, EmptyObject, NilIsSafe DEF x
  <2> HIDE DEF x
  <2> QED BY <1>1, <1>2, <1>7, <2>2, PushNewIsSafe DEF x
<1> QED BY <1>3, <1>4, <1>5, <1>6, <1>7

LEMMA StepStrIntern ==
  ASSUME VmInv, VerifiedIsClosed, StrIntern PROVE VmInv'
<1>1. Dispatch({"StrIntern"}) /\ Ins.op = "StrIntern" /\ Ins.op \notin Diverts
  BY DEF StrIntern, Dispatch, Diverts
<1>2. Arity = 1
  <2>1. KindSignature("StrIntern") = StringOps["StrIntern"]
    BY KindOpDomains DEF KindSignature
  <2>2. Len(StringOps["StrIntern"].pops) = 1
    BY DEF StringOps, Signature
  <2> QED BY <1>1, <2>1, <2>2, Arities, KindOpsAre
<1>3. CASE PushNew(1, NewObject("Str", None, 1, <<>>, Nil))
  <2> DEFINE x == NewObject("Str", None, 1, <<>>, Nil)
  <2>1. /\ HasShape(program, x) /\ AllSafe(heap, x.fields) /\ Safe(heap, x.target)
        /\ x.kind # "Reclaimed"
    <3> DEFINE kind == "Str"
    <3>1. x = NewObject(kind, None, 1, <<>>, Nil)
      OBVIOUS
    <3>2. kind \notin {"Reclaimed", "Pair", "Ephemeron", "Record", "Variant", "Function"}
      OBVIOUS
    <3> HIDE DEF x, kind
    <3> QED BY <3>1, <3>2, EmptyObject, NilIsSafe
  <2> HIDE DEF x
  <2> QED BY <1>1, <1>2, <1>3, <2>1, PushNewIsSafe DEF x
<1>4. ASSUME NEW i \in Interned, Retired(With(Next1(Append(Rest(1), Object(i))))),
             CompactionFinished, heap' = heap
      PROVE  VmInv'
  <2>1. Safe(heap, Object(i))
    BY <1>4 DEF Interned, Safe, Object, Value, is_object
  <2>2. status = "dispatch" /\ AllSafe(heap', Append(Rest(1), Object(i)))
    BY <1>1, <1>2, <1>4, <2>1, DispatchedOperands, AppendedSafe
  <2>3. cycle' \in Cycles
    BY <1>4, CycleStaysTyped
  <2> QED BY <1>1, <1>4, <2>2, <2>3, UntouchedIsSafe, NextIsSafe
<1> QED BY <1>3, <1>4 DEF StrIntern

LEMMA StepBuilderAppend ==
  ASSUME VmInv, VerifiedIsClosed, BuilderAppend PROVE VmInv'
<1>1. Dispatch({"BuilderAppend"}) /\ Ins.op = "BuilderAppend" /\ Ins.op \notin Diverts
  BY DEF BuilderAppend, Dispatch, Diverts
<1>2. Arity = 2
  <2>1. KindSignature("BuilderAppend") = BuilderOps["BuilderAppend"]
    BY KindOpDomains DEF KindSignature
  <2>2. Len(BuilderOps["BuilderAppend"].pops) = 2
    BY DEF BuilderOps, Signature
  <2> QED BY <1>1, <2>1, <2>2, Arities, KindOpsAre
<1>3. status = "dispatch" /\ AllSafe(heap, Rest(2)) /\ heap' = heap /\ cycle' \in Cycles
  BY <1>1, <1>2, DispatchedOperands, CycleStaysTyped DEF BuilderAppend
<1> QED BY <1>1, <1>3, UntouchedIsSafe, NextIsSafe DEF BuilderAppend

LEMMA StepPushNil ==
  ASSUME VmInv, VerifiedIsClosed, PushNil PROVE VmInv'
<1>1. Dispatch({"Nil"}) /\ Ins.op = "Nil" /\ Ins.op \notin Diverts /\ Push(0, Nil)
  BY DEF PushNil, Dispatch, Diverts
<1>2. Arity = 0
  BY <1>1, Arities DEF NoOperand
<1> QED BY <1>1, <1>2, PushIsSafe, NilIsSafe

LEMMA StepIsNil ==
  ASSUME VmInv, VerifiedIsClosed, IsNil PROVE VmInv'
<1>1. /\ Dispatch({"IsNil"}) /\ Ins.op = "IsNil" /\ Ins.op \notin Diverts
      /\ \E b \in BOOLEAN : Push(1, Boolean(b))
  BY DEF IsNil, Dispatch, Diverts, is_object
<1>2. Arity = 1
  BY <1>1, Arities DEF OneOperand
<1> QED BY <1>1, <1>2, PushIsSafe, ScalarsAreSafe

\* An object made of operands.
LEMMA ObjectOfOperands ==
  ASSUME VmInv, VerifiedIsClosed, NEW ops, Dispatch(ops), Ins.op \notin Diverts,
         NEW n \in Nat, Arity = n, NEW kind, NEW of, NEW tag,
         kind \in {"Pair", "Record", "Variant", "Function"},
         kind = "Pair" => n = 2,
         kind = "Record" => n = Len(RecordLayouts[of]),
         kind = "Variant" => n = Len(VariantLayouts[of][tag]),
         kind = "Function" => of \in DOMAIN ClosureLayouts,
         PushNew(n, NewObject(kind, of, tag, Args(n), Nil))
  PROVE  VmInv'
<1> DEFINE x == NewObject(kind, of, tag, Args(n), Nil)
<1>1. AllSafe(heap, Args(n)) /\ Len(Args(n)) = n
  BY DispatchedOperands
<1>2. HasShape(program, x)
  BY <1>1 DEF HasShape, NewObject, RecordLayouts, VariantLayouts, ClosureLayouts
<1>3. AllSafe(heap, x.fields) /\ Safe(heap, x.target) /\ x.kind # "Reclaimed"
  BY <1>1, NilIsSafe DEF NewObject
<1> HIDE DEF x
<1> QED BY <1>2, <1>3, PushNewIsSafe DEF x

LEMMA StepAllocPair ==
  ASSUME VmInv, VerifiedIsClosed, AllocPair PROVE VmInv'
<1>1. Dispatch({"AllocPair"}) /\ Ins.op = "AllocPair" /\ Ins.op \notin Diverts
  BY DEF AllocPair, Dispatch, Diverts
<1>2. Arity = 2
  BY <1>1, Arities DEF TwoOperands
<1> QED BY <1>1, <1>2, ObjectOfOperands DEF AllocPair

LEMMA StepAllocRecord ==
  ASSUME VmInv, VerifiedIsClosed, AllocRecord PROVE VmInv'
<1>1. Dispatch({"AllocRecord"}) /\ Ins.op = "AllocRecord" /\ Ins.op \notin Diverts
  BY DEF AllocRecord, Dispatch, Diverts
<1>2. Ins.a \in DOMAIN RecordLayouts /\ ModuleIsClosed
  BY <1>1, Running DEF Dispatch, InstructionIsSafe, OperandsInRange
<1>3. Arity = Len(RecordLayouts[Ins.a]) /\ Arity \in Nat
  BY <1>1, <1>2, Arities, SequenceDomain DEF ModuleIsClosed
<1> QED BY <1>1, <1>3, ObjectOfOperands DEF AllocRecord

LEMMA StepAllocVariant ==
  ASSUME VmInv, VerifiedIsClosed, AllocVariant PROVE VmInv'
<1>1. Dispatch({"AllocVariant"}) /\ Ins.op = "AllocVariant" /\ Ins.op \notin Diverts
  BY DEF AllocVariant, Dispatch, Diverts
<1>2. Ins.a \in DOMAIN VariantLayouts /\ Ins.b \in DOMAIN VariantLayouts[Ins.a] /\ ModuleIsClosed
  BY <1>1, Running DEF Dispatch, InstructionIsSafe, OperandsInRange
<1>3. Arity = Len(VariantLayouts[Ins.a][Ins.b]) /\ Arity \in Nat
  BY <1>1, <1>2, Arities, SequenceDomain DEF ModuleIsClosed
<1> QED BY <1>1, <1>3, ObjectOfOperands DEF AllocVariant

LEMMA StepAllocClosure ==
  ASSUME VmInv, VerifiedIsClosed, AllocClosure PROVE VmInv'
<1>1. Dispatch({"AllocClosure"}) /\ Ins.op = "AllocClosure" /\ Ins.op \notin Diverts
  BY DEF AllocClosure, Dispatch, Diverts
<1>2. Ins.a \in DOMAIN ClosureLayouts /\ ModuleIsClosed
  BY <1>1, Running DEF Dispatch, InstructionIsSafe, OperandsInRange
<1>3. Arity = Len(ClosureLayouts[Ins.a].captures) /\ Arity \in Nat
  BY <1>1, <1>2, Arities, SequenceDomain DEF ModuleIsClosed
<1> QED BY <1>1, <1>2, <1>3, ObjectOfOperands DEF AllocClosure

LEMMA StepAllocWeak ==
  ASSUME VmInv, VerifiedIsClosed, AllocWeak PROVE VmInv'
<1>1. Dispatch({"AllocWeak"}) /\ Ins.op = "AllocWeak" /\ Ins.op \notin Diverts
  BY DEF AllocWeak, Dispatch, Diverts
<1>2. Arity = 1
  BY <1>1, Arities DEF OneOperand
<1> DEFINE x == NewObject("Weak", None, 0, <<>>, Arg(0))
<1>3. Safe(heap, Arg(0))
  BY <1>1, <1>2, DispatchedOperands
<1>4. /\ HasShape(program, x) /\ AllSafe(heap, x.fields) /\ Safe(heap, x.target)
      /\ x.kind # "Reclaimed"
  BY <1>3, EmptyObject
<1>5. PushNew(1, x)
  BY DEF AllocWeak
<1> HIDE DEF x
<1> QED BY <1>1, <1>2, <1>4, <1>5, PushNewIsSafe

LEMMA StepAllocMap ==
  ASSUME VmInv, VerifiedIsClosed, AllocMap PROVE VmInv'
<1>1. Dispatch({"AllocMap"}) /\ Ins.op = "AllocMap" /\ Ins.op \notin Diverts
  BY DEF AllocMap, Dispatch, Diverts
<1>2. Arity = 0
  BY <1>1, Arities DEF NoOperand
<1> DEFINE x == NewObject("Map", Ins.a, 0, <<>>, Nil)
<1>3. /\ HasShape(program, x) /\ AllSafe(heap, x.fields) /\ Safe(heap, x.target)
      /\ x.kind # "Reclaimed"
  BY EmptyObject, NilIsSafe
<1>4. PushNew(0, x)
  BY DEF AllocMap
<1> HIDE DEF x
<1> QED BY <1>1, <1>2, <1>3, <1>4, PushNewIsSafe

LEMMA StepAllocEphemeron ==
  ASSUME VmInv, VerifiedIsClosed, AllocEphemeron PROVE VmInv'
<1>1. Dispatch({"AllocEphemeron"}) /\ Ins.op = "AllocEphemeron" /\ Ins.op \notin Diverts
  BY DEF AllocEphemeron, Dispatch, Diverts
<1>2. Arity = 2
  BY <1>1, Arities DEF TwoOperands
<1> DEFINE x == NewObject("Ephemeron", Ins.a, 0, <<Arg(0)>>, Arg(1))
<1>3. Safe(heap, Arg(0)) /\ Safe(heap, Arg(1))
  BY <1>1, <1>2, DispatchedOperands
<1>4. IsSequence(<<Arg(0)>>) /\ Len(<<Arg(0)>>) = 1 /\ DOMAIN <<Arg(0)>> = {1}
  BY DEF IsSequence, ToSet
<1>5. /\ HasShape(program, x) /\ AllSafe(heap, x.fields) /\ Safe(heap, x.target)
      /\ x.kind # "Reclaimed"
  BY <1>3, <1>4 DEF HasShape, AllSafe, NewObject
<1>6. PushNew(2, x)
  BY DEF AllocEphemeron
<1> HIDE DEF x
<1> QED BY <1>1, <1>2, <1>5, <1>6, PushNewIsSafe

LEMMA StepAllocRefArray ==
  ASSUME VmInv, VerifiedIsClosed, AllocRefArray PROVE VmInv'
<1>1. Dispatch({"AllocRefArray"}) /\ Ins.op = "AllocRefArray" /\ Ins.op \notin Diverts
  BY DEF AllocRefArray, Dispatch, Diverts
<1>2. Arity = 2
  BY <1>1, Arities DEF TwoOperands
<1>3. PICK n \in 0 .. MaxLength :
        PushNew(2, NewObject("RefArray", None, 0, [i \in 1 .. n |-> Arg(0)], Nil))
  BY DEF AllocRefArray
<1> DEFINE fields == [i \in 1 .. n |-> Arg(0)]
           x == NewObject("RefArray", None, 0, fields, Nil)
<1>4. AllSafe(heap, fields)
  <2>1. Safe(heap, Arg(0)) /\ n \in Nat
    BY <1>1, <1>2, DispatchedOperands
  <2>2. fields = [i \in 1 .. n |-> fields[i]] /\ DOMAIN fields = 1 .. n
    OBVIOUS
  <2>3. IsSequence(fields)
    <3> HIDE DEF fields
    <3> QED BY <2>1, <2>2, IsASequence
  <2> QED BY <2>1, <2>3 DEF AllSafe
<1>5. /\ HasShape(program, x) /\ AllSafe(heap, x.fields) /\ Safe(heap, x.target)
      /\ x.kind # "Reclaimed"
  <2> HIDE DEF fields
  <2> QED BY <1>4, NilIsSafe DEF HasShape, NewObject
<1>6. PushNew(2, x)
  BY <1>3
<1> HIDE DEF x
<1> QED BY <1>1, <1>2, <1>5, <1>6, PushNewIsSafe

(***************************************************************************)
(* Reading and writing objects.                                            *)
(***************************************************************************)
LEMMA StepGetField ==
  ASSUME VmInv, VerifiedIsClosed, GetField PROVE VmInv'
<1>1. Dispatch({"GetField"}) /\ Ins.op = "GetField" /\ Ins.op \notin Diverts
  BY DEF GetField, Dispatch, Diverts
<1>2. Arity = 1
  BY <1>1, Arities DEF OneOperand
<1>3. status = "dispatch" /\ Safe(heap, Arg(0)) /\ is_object(Arg(0)) /\ At(Arg(0)).kind = "Pair" /\ Ins.a \in {1, 2}
  <2>1. status = "dispatch" /\ Safe(heap, Arg(0))
    BY <1>1, <1>2, DispatchedOperands
  <2>2. is_object(Arg(0)) /\ At(Arg(0)).kind = "Pair" /\ Ins.a \in {1, 2}
    BY <1>1, <1>2, RightOperands DEF IsA
  <2> QED BY <2>1, <2>2
<1>4. Ins.a \in DOMAIN At(Arg(0)).fields
  BY <1>3, OperandObject DEF HasShape
<1>5. Safe(heap, At(Arg(0)).fields[Ins.a])
  BY <1>3, <1>4, FieldIsSafe
<1> QED BY <1>1, <1>2, <1>5, PushIsSafe DEF GetField

LEMMA StepRecordGet ==
  ASSUME VmInv, VerifiedIsClosed, RecordGet PROVE VmInv'
<1>1. Dispatch({"RecordGet"}) /\ Ins.op = "RecordGet" /\ Ins.op \notin Diverts
  BY DEF RecordGet, Dispatch, Diverts
<1>2. Arity = 1
  BY <1>1, Arities DEF OneOperand
<1>3. status = "dispatch" /\ Safe(heap, Arg(0)) /\ is_object(Arg(0))
      /\ At(Arg(0)).kind = "Record" /\ At(Arg(0)).of = Ins.a
  <2>1. status = "dispatch" /\ Safe(heap, Arg(0))
    BY <1>1, <1>2, DispatchedOperands
  <2>2. is_object(Arg(0)) /\ At(Arg(0)).kind = "Record" /\ At(Arg(0)).of = Ins.a
    BY <1>1, <1>2, RightOperands DEF IsA
  <2> QED BY <2>1, <2>2
<1>4. Ins.b \in DOMAIN At(Arg(0)).fields
  <2>1. Ins.a \in DOMAIN RecordLayouts /\ Ins.b \in DOMAIN RecordLayouts[Ins.a] /\ ModuleIsClosed
    BY <1>1, Running DEF Dispatch, InstructionIsSafe, OperandsInRange
  <2>2. DOMAIN RecordLayouts[Ins.a] = 1 .. Len(RecordLayouts[Ins.a])
    BY <2>1, SequenceDomain DEF ModuleIsClosed
  <2> QED BY <1>3, <2>1, <2>2, OperandObject DEF HasShape, RecordLayouts
<1>5. Safe(heap, At(Arg(0)).fields[Ins.b])
  BY <1>3, <1>4, FieldIsSafe
<1> QED BY <1>1, <1>2, <1>5, PushIsSafe DEF RecordGet

LEMMA StepVariantTag ==
  ASSUME VmInv, VerifiedIsClosed, VariantTag PROVE VmInv'
<1>1. Dispatch({"VariantTag"}) /\ Ins.op = "VariantTag" /\ Ins.op \notin Diverts
  BY DEF VariantTag, Dispatch, Diverts
<1>2. Arity = 1
  BY <1>1, Arities DEF OneOperand
<1> QED BY <1>1, <1>2, PushIsSafe, ScalarsAreSafe DEF VariantTag

LEMMA StepVariantGet ==
  ASSUME VmInv, VerifiedIsClosed, VariantGet PROVE VmInv'
<1>1. Dispatch({"VariantGet"}) /\ Ins.op = "VariantGet" /\ Ins.op \notin Diverts
  BY DEF VariantGet, Dispatch, Diverts
<1>2. Arity = 1
  BY <1>1, Arities DEF OneOperand
<1>3. status = "dispatch" /\ Safe(heap, Arg(0)) /\ is_object(Arg(0))
      /\ At(Arg(0)).kind = "Variant" /\ At(Arg(0)).of = Ins.a
  <2>1. status = "dispatch" /\ Safe(heap, Arg(0))
    BY <1>1, <1>2, DispatchedOperands
  <2>2. is_object(Arg(0)) /\ At(Arg(0)).kind = "Variant" /\ At(Arg(0)).of = Ins.a
    BY <1>1, <1>2, RightOperands DEF IsA
  <2> QED BY <2>1, <2>2
<1>4. Ins.c \in DOMAIN At(Arg(0)).fields
  <2>1. /\ Ins.a \in DOMAIN VariantLayouts /\ Ins.b \in DOMAIN VariantLayouts[Ins.a]
        /\ Ins.c \in DOMAIN VariantLayouts[Ins.a][Ins.b] /\ ModuleIsClosed
    BY <1>1, Running DEF Dispatch, InstructionIsSafe, OperandsInRange
  <2>2. DOMAIN VariantLayouts[Ins.a][Ins.b] = 1 .. Len(VariantLayouts[Ins.a][Ins.b])
    BY <2>1, SequenceDomain DEF ModuleIsClosed
  <2>3. At(Arg(0)).tag = Ins.b
    BY DEF VariantGet
  <2> QED BY <1>3, <2>1, <2>2, <2>3, OperandObject DEF HasShape, VariantLayouts
<1>5. Safe(heap, At(Arg(0)).fields[Ins.c])
  BY <1>3, <1>4, FieldIsSafe
<1> QED BY <1>1, <1>2, <1>5, PushIsSafe DEF VariantGet

LEMMA StepWeakGet ==
  ASSUME VmInv, VerifiedIsClosed, WeakGet PROVE VmInv'
<1>1. Dispatch({"WeakGet"}) /\ Ins.op = "WeakGet" /\ Ins.op \notin Diverts
  BY DEF WeakGet, Dispatch, Diverts
<1>2. Arity = 1
  BY <1>1, Arities DEF OneOperand
<1>3. status = "dispatch" /\ Safe(heap, Arg(0)) /\ is_object(Arg(0))
  <2>1. status = "dispatch" /\ Safe(heap, Arg(0))
    BY <1>1, <1>2, DispatchedOperands
  <2>2. is_object(Arg(0))
    BY <1>1, <1>2, RightOperands DEF IsA
  <2> QED BY <2>1, <2>2
<1>4. Safe(heap, At(Arg(0)).target)
  BY <1>3, OperandObject
<1> QED BY <1>1, <1>2, <1>4, PushIsSafe DEF WeakGet

LEMMA StepEphemeronKey ==
  ASSUME VmInv, VerifiedIsClosed, EphemeronKey PROVE VmInv'
<1>1. Dispatch({"EphemeronKey"}) /\ Ins.op = "EphemeronKey" /\ Ins.op \notin Diverts
  BY DEF EphemeronKey, Dispatch, Diverts
<1>2. Arity = 1
  BY <1>1, Arities DEF OneOperand
<1>3. status = "dispatch" /\ Safe(heap, Arg(0)) /\ is_object(Arg(0))
  <2>1. status = "dispatch" /\ Safe(heap, Arg(0))
    BY <1>1, <1>2, DispatchedOperands
  <2>2. is_object(Arg(0))
    BY <1>1, <1>2, RightOperands DEF IsA
  <2> QED BY <2>1, <2>2
<1>4. Safe(heap, At(Arg(0)).target)
  BY <1>3, OperandObject
<1> QED BY <1>1, <1>2, <1>4, PushIsSafe DEF EphemeronKey

LEMMA StepEphemeronValue ==
  ASSUME VmInv, VerifiedIsClosed, EphemeronValue PROVE VmInv'
<1>1. Dispatch({"EphemeronValue"}) /\ Ins.op = "EphemeronValue" /\ Ins.op \notin Diverts
  BY DEF EphemeronValue, Dispatch, Diverts
<1>2. Arity = 1
  BY <1>1, Arities DEF OneOperand
<1>3. status = "dispatch" /\ Safe(heap, Arg(0)) /\ is_object(Arg(0)) /\ At(Arg(0)).kind = "Ephemeron"
  <2>1. status = "dispatch" /\ Safe(heap, Arg(0))
    BY <1>1, <1>2, DispatchedOperands
  <2>2. is_object(Arg(0)) /\ At(Arg(0)).kind = "Ephemeron"
    BY <1>1, <1>2, RightOperands DEF IsA
  <2> QED BY <2>1, <2>2
<1>4. 1 \in DOMAIN At(Arg(0)).fields
  BY <1>3, OperandObject DEF HasShape
<1>5. Safe(heap, At(Arg(0)).fields[1])
  BY <1>3, <1>4, FieldIsSafe
<1> QED BY <1>1, <1>2, <1>5, PushIsSafe DEF EphemeronValue

LEMMA StepArrayLen ==
  ASSUME VmInv, VerifiedIsClosed, ArrayLen PROVE VmInv'
<1>1. Dispatch({"ArrayLen"}) /\ Ins.op = "ArrayLen" /\ Ins.op \notin Diverts
  BY DEF ArrayLen, Dispatch, Diverts
<1>2. Arity = 1
  BY <1>1, Arities DEF OneOperand
<1> QED BY <1>1, <1>2, PushIsSafe, ScalarsAreSafe DEF ArrayLen

LEMMA StepMapLen ==
  ASSUME VmInv, VerifiedIsClosed, MapLen PROVE VmInv'
<1>1. Dispatch({"MapLen"}) /\ Ins.op = "MapLen" /\ Ins.op \notin Diverts
  BY DEF MapLen, Dispatch, Diverts
<1>2. Arity = 1
  BY <1>1, Arities DEF OneOperand
<1> QED BY <1>1, <1>2, PushIsSafe, ScalarsAreSafe DEF MapLen

LEMMA StepMapHas ==
  ASSUME VmInv, VerifiedIsClosed, MapHas PROVE VmInv'
<1>1. Dispatch({"MapHas"}) /\ Ins.op = "MapHas" /\ Ins.op \notin Diverts
  BY DEF MapHas, Dispatch, Diverts
<1>2. Arity = 2
  BY <1>1, Arities DEF TwoOperands
<1> QED BY <1>1, <1>2, PushIsSafe, ScalarsAreSafe DEF MapHas

LEMMA StepRefArrayGet ==
  ASSUME VmInv, VerifiedIsClosed, RefArrayGet PROVE VmInv'
<1>1. Dispatch({"RefArrayGet"}) /\ Ins.op = "RefArrayGet" /\ Ins.op \notin Diverts
  BY DEF RefArrayGet, Dispatch, Diverts
<1>2. Arity = 2
  BY <1>1, Arities DEF TwoOperands
<1>3. status = "dispatch" /\ Safe(heap, Arg(1)) /\ is_object(Arg(1))
  <2>1. status = "dispatch" /\ Safe(heap, Arg(1))
    BY <1>1, <1>2, DispatchedOperands
  <2>2. is_object(Arg(1))
    BY <1>1, <1>2, RightOperands DEF IsA
  <2> QED BY <2>1, <2>2
<1>4. PICK i \in DOMAIN At(Arg(1)).fields : Push(2, At(Arg(1)).fields[i])
  BY DEF RefArrayGet, ToSet
<1>5. Safe(heap, At(Arg(1)).fields[i])
  BY <1>3, FieldIsSafe
<1> QED BY <1>1, <1>2, <1>4, <1>5, PushIsSafe

LEMMA StepMapRead ==
  ASSUME VmInv, VerifiedIsClosed, MapRead PROVE VmInv'
<1> DEFINE ops == {"MapGet", "MapKeyAt", "MapValueAt"}
<1>1. Dispatch(ops) /\ Ins.op \in ops /\ Ins.op \notin Diverts
  BY DEF MapRead, Dispatch, Diverts
<1>2. Arity = 2
  BY <1>1, Arities DEF TwoOperands
<1>3. status = "dispatch" /\ Safe(heap, Arg(1)) /\ is_object(Arg(1))
  <2>1. status = "dispatch" /\ Safe(heap, Arg(1))
    BY <1>1, <1>2, DispatchedOperands
  <2>2. is_object(Arg(1))
    BY <1>1, <1>2, RightOperands DEF IsA
  <2> QED BY <2>1, <2>2
<1>4. PICK i \in DOMAIN At(Arg(1)).fields : Push(2, At(Arg(1)).fields[i])
  BY DEF MapRead, KeysAt, ValuesAt
<1>5. Safe(heap, At(Arg(1)).fields[i])
  BY <1>3, FieldIsSafe
<1> QED BY <1>1, <1>2, <1>4, <1>5, PushIsSafe

LEMMA StepSetField ==
  ASSUME VmInv, VerifiedIsClosed, SetField PROVE VmInv'
<1>1. Dispatch({"SetField"}) /\ Ins.op = "SetField" /\ Ins.op \notin Diverts
  BY DEF SetField, Dispatch, Diverts
<1>2. Arity = 2
  BY <1>1, Arities DEF TwoOperands
<1>3. Safe(heap, Arg(0)) /\ Safe(heap, Arg(1)) /\ is_object(Arg(1))
  <2>1. Safe(heap, Arg(0)) /\ Safe(heap, Arg(1))
    BY <1>1, <1>2, DispatchedOperands
  <2>2. is_object(Arg(1))
    BY <1>1, <1>2, RightOperands DEF IsA
  <2> QED BY <2>1, <2>2
<1> QED BY <1>1, <1>2, <1>3, FieldStored DEF SetField, SetObjectField

LEMMA StepRecordSet ==
  ASSUME VmInv, VerifiedIsClosed, RecordSet PROVE VmInv'
<1>1. Dispatch({"RecordSet"}) /\ Ins.op = "RecordSet" /\ Ins.op \notin Diverts
  BY DEF RecordSet, Dispatch, Diverts
<1>2. Arity = 2
  BY <1>1, Arities DEF TwoOperands
<1>3. Safe(heap, Arg(0)) /\ Safe(heap, Arg(1)) /\ is_object(Arg(1))
  <2>1. Safe(heap, Arg(0)) /\ Safe(heap, Arg(1))
    BY <1>1, <1>2, DispatchedOperands
  <2>2. is_object(Arg(1))
    BY <1>1, <1>2, RightOperands DEF IsA
  <2> QED BY <2>1, <2>2
<1> QED BY <1>1, <1>2, <1>3, FieldStored DEF RecordSet, SetObjectField

LEMMA StepEphemeronSetValue ==
  ASSUME VmInv, VerifiedIsClosed, EphemeronSetValue PROVE VmInv'
<1>1. Dispatch({"EphemeronSetValue"}) /\ Ins.op = "EphemeronSetValue" /\ Ins.op \notin Diverts
  BY DEF EphemeronSetValue, Dispatch, Diverts
<1>2. Arity = 2
  BY <1>1, Arities DEF TwoOperands
<1>3. Safe(heap, Arg(0)) /\ Safe(heap, Arg(1)) /\ is_object(Arg(1))
  <2>1. Safe(heap, Arg(0)) /\ Safe(heap, Arg(1))
    BY <1>1, <1>2, DispatchedOperands
  <2>2. is_object(Arg(1))
    BY <1>1, <1>2, RightOperands DEF IsA
  <2> QED BY <2>1, <2>2
<1> QED BY <1>1, <1>2, <1>3, FieldStored DEF EphemeronSetValue, SetObjectField

LEMMA StepRefArraySet ==
  ASSUME VmInv, VerifiedIsClosed, RefArraySet PROVE VmInv'
<1>1. Dispatch({"RefArraySet"}) /\ Ins.op = "RefArraySet" /\ Ins.op \notin Diverts
  BY DEF RefArraySet, Dispatch, Diverts
<1>2. Arity = 3
  BY <1>1, Arities DEF ThreeOperands
<1>3. Safe(heap, Arg(0)) /\ Safe(heap, Arg(2)) /\ is_object(Arg(2))
  <2>1. Safe(heap, Arg(0)) /\ Safe(heap, Arg(2))
    BY <1>1, <1>2, DispatchedOperands
  <2>2. is_object(Arg(2))
    BY <1>1, <1>2, RightOperands DEF IsA
  <2> QED BY <2>1, <2>2
<1> QED BY <1>1, <1>2, <1>3, FieldStored DEF RefArraySet

LEMMA StepMapSet ==
  ASSUME VmInv, VerifiedIsClosed, MapSet PROVE VmInv'
<1>1. Dispatch({"MapSet"}) /\ Ins.op = "MapSet" /\ Ins.op \notin Diverts
  BY DEF MapSet, Dispatch, Diverts
<1>2. Arity = 3
  BY <1>1, Arities DEF ThreeOperands
<1>3. /\ status = "dispatch" /\ Safe(heap, Arg(0)) /\ Safe(heap, Arg(1)) /\ Safe(heap, Arg(2))
      /\ is_object(Arg(2)) /\ At(Arg(2)).kind = "Map"
  <2>1. status = "dispatch" /\ Safe(heap, Arg(0)) /\ Safe(heap, Arg(1)) /\ Safe(heap, Arg(2))
    BY <1>1, <1>2, DispatchedOperands
  <2>2. is_object(Arg(2)) /\ At(Arg(2)).kind = "Map"
    BY <1>1, <1>2, RightOperands DEF IsA
  <2> QED BY <2>1, <2>2
<1>4. Retired(With(Next1(Rest(3))))
  BY DEF MapSet
<1>5. CASE (\E i \in ValuesAt(At(Arg(2))) : heap' = [heap EXCEPT ![Arg(2).v].fields[i] = Arg(0)])
             /\ UNCHANGED cycle
  <2>1. PICK i : heap' = [heap EXCEPT ![Arg(2).v].fields[i] = Arg(0)]
    BY <1>5
  <2> QED BY <1>1, <1>2, <1>3, <1>4, <1>5, <2>1, FieldStored
<1> DEFINE entry == <<Arg(1), Arg(0)>>
           fields == At(Arg(2)).fields \o entry
<1>6. CASE /\ heap' = [heap EXCEPT ![Arg(2).v].fields = @ \o <<Arg(1), Arg(0)>>]
           /\ UNCHANGED cycle \/ CompactionFinished
  <2>1. AllSafe(heap, fields)
    <3>1. AllSafe(heap, At(Arg(2)).fields)
      BY <1>3, OperandObject
    <3>2. fields = Append(Append(At(Arg(2)).fields, Arg(1)), Arg(0))
      BY <3>1 DEF AllSafe, IsSequence
    <3> HIDE DEF fields
    <3> QED BY <1>3, <3>1, <3>2, AppendedSafe
  <2>2. heap' = [heap EXCEPT ![Arg(2).v].fields = fields]
    BY <1>6 DEF At
  <2>3. cycle' \in Cycles
    BY <1>6, CycleStaysTyped
  <2> HIDE DEF fields
  <2> QED BY <1>1, <1>2, <1>3, <1>4, <2>1, <2>2, <2>3, StoreIsSafe
<1> QED BY <1>5, <1>6 DEF MapSet

(***************************************************************************)
(* Locals, captures and jumps.                                             *)
(***************************************************************************)
LEMMA StepLoadCapture ==
  ASSUME VmInv, VerifiedIsClosed, LoadCapture PROVE VmInv'
<1>1. Dispatch({"LoadCapture"}) /\ Ins.op = "LoadCapture" /\ Ins.op \notin Diverts
  BY DEF LoadCapture, Dispatch, Diverts
<1>2. Arity = 0
  BY <1>1, Arities DEF NoOperand
<1>3. /\ status = "dispatch" /\ Safe(heap, Top.closure) /\ is_object(Top.closure)
      /\ Ins.a \in DOMAIN At(Top.closure).fields
  BY <1>1, Running, RightOperands DEF Dispatch, IsA
<1>4. Safe(heap, At(Top.closure).fields[Ins.a])
  BY <1>3, FieldIsSafe
<1> QED BY <1>1, <1>2, <1>4, PushIsSafe DEF LoadCapture

LEMMA StepLoadLocal ==
  ASSUME VmInv, VerifiedIsClosed, LoadLocal PROVE VmInv'
<1>1. Dispatch({"LoadLocal"}) /\ Ins.op = "LoadLocal" /\ Ins.op \notin Diverts
  BY DEF LoadLocal, Dispatch, Diverts
<1>2. Arity = 0
  BY <1>1, Arities DEF NoOperand
<1>3. Safe(heap, Top.locals[Ins.a])
  BY <1>1, Running, RightOperands DEF Dispatch, AllSafe
<1> QED BY <1>1, <1>2, <1>3, PushIsSafe DEF LoadLocal

\* The running frame is replaced and the heap is left alone.
LEMMA TopIsSafe ==
  ASSUME VmInv, VerifiedIsClosed, status = "dispatch", HeapUntouched,
         NEW f, FrameIsSafe(program, heap, f), Retired(With(f))
  PROVE  VmInv'
<1>1. FramesAreSafe(program, heap, With(f)) /\ With(f) # <<>>
  BY Running, TopReplaced DEF With
<1>2. heap' = heap /\ cycle' \in Cycles
  BY Running DEF HeapUntouched
<1> QED BY <1>1, <1>2, Running, RetiredIsSafe

LEMMA StepStoreLocal ==
  ASSUME VmInv, VerifiedIsClosed, StoreLocal PROVE VmInv'
<1>1. Dispatch({"StoreLocal"}) /\ Ins.op = "StoreLocal" /\ Ins.op \notin Diverts
  BY DEF StoreLocal, Dispatch, Diverts
<1>2. Arity = 1
  BY <1>1, Arities DEF OneOperand
<1>3. status = "dispatch" /\ AllSafe(heap, Rest(1)) /\ Safe(heap, Arg(0))
  BY <1>1, <1>2, DispatchedOperands
<1> DEFINE locals == [Top.locals EXCEPT ![Ins.a] = Arg(0)]
           f == Next1(Rest(1))
<1>4. AllSafe(heap, locals) /\ Len(locals) = Len(Top.locals)
  BY <1>3, Running, Updated DEF AllSafe
<1>5. FrameIsSafe(program, heap, f) /\ f.locals = Top.locals
  <2>1. FrameIsSafe(program, heap, f)
    BY <1>1, <1>3, Running, FrameMoved DEF Next1, FunctionAt
  <2> QED BY <1>3, <2>1, Running DEF FrameIsSafe, FrameIsTyped, Next1
<1>6. [f EXCEPT !.locals[Ins.a] = Arg(0)] = [f EXCEPT !.locals = locals]
  BY <1>5
<1>7. FrameIsSafe(program, heap, [f EXCEPT !.locals[Ins.a] = Arg(0)])
  <2> HIDE DEF f, locals
  <2> QED BY <1>4, <1>5, <1>6, LocalsReplaced
<1> QED BY <1>3, <1>7, TopIsSafe DEF StoreLocal

LEMMA StepJump ==
  ASSUME VmInv, VerifiedIsClosed, Jump PROVE VmInv'
<1>1. Dispatch({"Jump"}) /\ Ins.op = "Jump" /\ status = "dispatch"
  BY DEF Jump, Dispatch
<1>2. Ins.a \in DOMAIN FunctionAt(Top.function).code
  BY <1>1, RightOperands
<1>3. FrameIsSafe(program, heap, [Top EXCEPT !.pc = Ins.a])
  BY <1>1, <1>2, Running, FrameJumped DEF FunctionAt
<1> QED BY <1>1, <1>3, TopIsSafe DEF Jump

LEMMA StepJumpIfFalse ==
  ASSUME VmInv, VerifiedIsClosed, JumpIfFalse PROVE VmInv'
<1>1. Dispatch({"JumpIfFalse"}) /\ Ins.op = "JumpIfFalse" /\ Ins.op \notin Diverts
  BY DEF JumpIfFalse, Dispatch, Diverts
<1>2. Arity = 1
  BY <1>1, Arities DEF OneOperand
<1>3. status = "dispatch" /\ AllSafe(heap, Rest(1))
  BY <1>1, <1>2, DispatchedOperands
<1> DEFINE pc == IF Arg(0).v = 1 THEN Top.pc + 1 ELSE Ins.a
<1>4. pc \in DOMAIN program.functions[Top.function].code
  BY <1>1, <1>3, Running, RightOperands DEF FunctionAt
<1>5. FrameIsSafe(program, heap, [Top EXCEPT !.stack = Rest(1), !.pc = pc])
  <2> HIDE DEF pc
  <2> QED BY <1>3, <1>4, Running, FrameMoved
<1> QED BY <1>3, <1>5, TopIsSafe DEF JumpIfFalse

LEMMA StepTryDelimiter ==
  ASSUME VmInv, VerifiedIsClosed, TryDelimiter PROVE VmInv'
<1>1. status = "dispatch" /\ Ins.op \notin Diverts /\ HeapUntouched
  BY DEF TryDelimiter, Dispatch, Diverts
<1>2. FrameIsSafe(program, heap, Next1(Top.stack))
  BY <1>1, Running, FrameMoved DEF Next1, FunctionAt
<1> QED BY <1>1, <1>2, TopIsSafe DEF TryDelimiter

-----------------------------------------------------------------------------
(***************************************************************************)
(* Calls and returns.                                                      *)
(***************************************************************************)
LEMMA CallOperands ==
  ASSUME VmInv, VerifiedIsClosed, Dispatch({"Call", "CallClosure"})
  PROVE  /\ status = "dispatch" /\ Ins.op \notin Diverts
         /\ CallArity \in Nat /\ CallArity <= Len(Top.stack)
         /\ Callee \in DOMAIN program.functions
         /\ AllSafe(heap, Rest(CallArity)) /\ AllSafe(heap, Args(CallArity))
         /\ Len(Args(CallArity)) = CallArity
         /\ Ins.op = "Call" => Callee = Ins.a /\ CallArity = Arity
         /\ Ins.op = "CallClosure" => CallArity >= 1 /\ Safe(heap, Arg(0))
<1>1. status = "dispatch" /\ Ins.op \notin Diverts /\ Ins.op \in {"Call", "CallClosure"}
  BY DEF Dispatch, Diverts
<1>2. AllSafe(heap, Top.stack) /\ Len(Top.stack) \in Nat /\ ModuleIsClosed
  BY <1>1, Running, SequenceDomain DEF AllSafe
<1>3. CASE Ins.op = "Call"
  <2>1. Callee = Ins.a /\ Ins.a \in DOMAIN program.functions
    BY <1>1, <1>3, Running DEF Callee, FunctionIsClosed, Ins
  <2>2. Len(FunctionAt(Ins.a).params) \in Nat
    BY <1>2, <2>1, SequenceDomain DEF ModuleIsClosed, FunctionIsClosed
  <2>3. CallArity = Arity /\ Arity \in Nat
    BY <1>3, <2>1, <2>2, Arities DEF CallArity
  <2>4. Arity <= Len(Top.stack)
    BY <1>2, <2>3 DEF Dispatch, InstructionIsSafe
  <2> QED BY <1>1, <1>2, <1>3, <2>1, <2>3, <2>4, Operands
<1>4. CASE Ins.op = "CallClosure"
  <2>1. Arity = 1
    BY <1>4, Arities DEF OneOperand
  <2>2. Safe(heap, Arg(0))
    BY <2>1, DispatchedOperands
  <2>3. IsA(Arg(0), "Function") /\ Len(Top.stack) > Len(FunctionAt(Callee).params)
    BY <1>4, RightOperands DEF Callee
  <2>4. At(Arg(0)).of \in DOMAIN ClosureLayouts
    BY <1>1, <2>2, <2>3, OperandObject DEF IsA, HasShape, ClosureLayouts
  <2>5. Callee \in DOMAIN program.functions
    BY <1>2, <1>4, <2>4 DEF ModuleIsClosed, Callee
  <2>6. Len(FunctionAt(Callee).params) \in Nat
    BY <1>2, <2>5, SequenceDomain DEF ModuleIsClosed, FunctionIsClosed
  <2>7. CallArity = Len(FunctionAt(Callee).params) + 1
    BY <1>4 DEF CallArity
  <2>8. CallArity \in Nat /\ CallArity <= Len(Top.stack) /\ CallArity >= 1
    BY <1>2, <2>3, <2>6, <2>7
  <2> QED BY <1>1, <1>2, <1>4, <2>2, <2>5, <2>8, Operands
<1> QED BY <1>1, <1>3, <1>4

\* The caller waits at the instruction after its call, below the new frame.
LEMMA PushedFrameIsSafe ==
  ASSUME VmInv, VerifiedIsClosed, status = "dispatch", Ins.op \notin Diverts,
         NEW n, AllSafe(heap, Rest(n)), NEW function \in DOMAIN program.functions,
         NEW arguments, AllSafe(heap, arguments), NEW closure, Safe(heap, closure),
         push_frame(n, function, arguments, closure)
  PROVE  VmInv'
<1> DEFINE fs == With(Next1(Rest(n)))
           f == NewFrame(function, arguments, closure)
<1>1. FrameIsSafe(program, heap, Next1(Rest(n)))
  BY Running, FrameMoved DEF Next1, FunctionAt
<1>2. FramesAreSafe(program, heap, fs) /\ Len(fs) = Len(frames)
  BY <1>1, Running, TopReplaced, Updated DEF With, FramesAreSafe
<1>3. FrameIsSafe(program, heap, f)
  BY Running, NewFrameIsSafe
<1>4. Len(fs) < MaxCallDepth /\ Retired(Append(fs, f)) /\ heap' = heap /\ cycle' \in Cycles
  BY <1>2, Running DEF push_frame, HeapUntouched
<1> HIDE DEF fs, f
<1>5. FramesAreSafe(program, heap, Append(fs, f)) /\ Append(fs, f) # <<>>
  BY <1>2, <1>3, <1>4, FramePushed
<1> QED BY <1>4, <1>5, Running, RetiredIsSafe

LEMMA StepCall ==
  ASSUME VmInv, VerifiedIsClosed, Call PROVE VmInv'
<1>1. Dispatch({"Call", "CallClosure"}) /\ Ins.op = "Call"
  BY DEF Call, Dispatch
<1> QED BY <1>1, CallOperands, NilIsSafe, PushedFrameIsSafe DEF Call

LEMMA StepCallClosure ==
  ASSUME VmInv, VerifiedIsClosed, CallClosure PROVE VmInv'
<1>1. Dispatch({"Call", "CallClosure"}) /\ Ins.op = "CallClosure"
  BY DEF CallClosure, Dispatch
<1> DEFINE s == Args(CallArity)
           m == CallArity - 1
<1>2. AllSafe(heap, s) /\ Len(s) = CallArity /\ CallArity \in Nat /\ CallArity >= 1
  BY <1>1, CallOperands
<1>3. AllSafe(heap, SubSeq(s, 1, m))
  <2>1. m \in Int /\ 1 <= m + 1 /\ m <= Len(s) /\ IsSequence(s)
    BY <1>2 DEF AllSafe
  <2> HIDE DEF s, m
  <2>2. /\ IsSequence(SubSeq(s, 1, m)) /\ DOMAIN SubSeq(s, 1, m) = 1 .. m + 1 - 1
        /\ \A i \in 1 .. m + 1 - 1 : SubSeq(s, 1, m)[i] = s[1 + i - 1] /\ 1 + i - 1 \in DOMAIN s
    BY <2>1, Sliced
  <2> QED BY <1>2, <2>2 DEF AllSafe
<1> QED BY <1>1, <1>3, CallOperands, PushedFrameIsSafe DEF CallClosure

LEMMA StepTailCall ==
  ASSUME VmInv, VerifiedIsClosed, TailCall PROVE VmInv'
<1>1. status = "dispatch" /\ Ins.op = "TailCall" /\ HeapUntouched
  BY DEF TailCall, Dispatch
<1>2. Ins.a \in DOMAIN program.functions
  BY <1>1, Running DEF FunctionIsClosed, Ins
<1>3. FrameIsSafe(program, heap, NewFrame(Ins.a, Top.stack, Nil))
  BY <1>1, <1>2, Running, NilIsSafe, NewFrameIsSafe
<1> QED BY <1>1, <1>3, TopIsSafe DEF TailCall

LEMMA StepReturn ==
  ASSUME VmInv, VerifiedIsClosed, Return PROVE VmInv'
<1> DEFINE callers == SubSeq(frames, 1, Len(frames) - 1)
           resumed == Len(callers)
           fs == [callers EXCEPT ![resumed].stack = Append(@, Arg(0))]
<1>1. /\ Dispatch({"Return"}) /\ heap' \in FinishedHeaps /\ cycle' = "idle"
      /\ executed' = executed + 1 /\ program' = program /\ verdict' = verdict
      /\ pending' = pending
      /\ frames' = (IF callers = <<>> THEN <<>> ELSE fs)
      /\ status' = (IF callers = <<>> THEN "returned" ELSE "boundary")
  BY DEF Return, moduleVars
<1>2. status = "dispatch" /\ Arity = 1
  BY <1>1, Arities DEF Dispatch, OneOperand
<1>3. HeapIsSafe(program, heap') /\ FramesAreSafe(program, heap', frames) /\ pending = Nil
  BY <1>1, <1>2, Running, NilIsSafe, CollectionIsSafe DEF FinishedHeaps
<1>4. Safe(heap', Arg(0))
  <2>1. FrameIsSafe(program, heap', Top)
    BY <1>2, <1>3, Running, SequenceDomain DEF FramesAreSafe, Top
  <2>2. AllSafe(heap', Top.stack) /\ 1 <= Len(Top.stack)
    BY <1>1, <1>2, <2>1, DispatchedOperands DEF FrameIsSafe, FrameIsTyped, ValuesOf, ToSet, AllSafe
  <2> QED BY <2>2, Operands
<1>5. FramesAreSafe(program, heap', callers) /\ resumed = Len(frames) - 1
  BY <1>2, <1>3, Running, FramePopped
<1>6. FramesAreSafe(program, heap', frames') /\ (callers # <<>> => frames' # <<>>)
  <2>1. CASE callers = <<>>
    BY <1>1, <1>5, <2>1
  <2>2. CASE callers # <<>>
    <3> DEFINE f == callers[resumed]
               stack == Append(f.stack, Arg(0))
    <3> HIDE DEF callers
    <3>1. FrameIsSafe(program, heap', f)
      BY <1>5, <2>2, SequenceDomain DEF FramesAreSafe, IsSequence
    <3>2. AllSafe(heap', f.stack)
      BY <3>1 DEF FrameIsSafe, FrameIsTyped, ValuesOf, ToSet, AllSafe
    <3>3. AllSafe(heap', stack)
      <4> HIDE DEF f
      <4> QED BY <1>4, <3>2, AppendedSafe
    <3>4. FrameIsSafe(program, heap', [f EXCEPT !.stack = stack])
      <4> HIDE DEF f, stack
      <4> QED BY <3>1, <3>3, StackReplaced
    <3>5. fs = [callers EXCEPT ![resumed] = [f EXCEPT !.stack = stack]]
      OBVIOUS
    <3>6. FramesAreSafe(program, heap', fs) /\ fs # <<>>
      <4> HIDE DEF f, stack, fs
      <4> QED BY <1>5, <2>2, <3>4, <3>5, TopReplaced
    <3> QED BY <1>1, <2>2, <3>6
  <2> QED BY <2>1, <2>2
<1>7. executed' \in 0 .. MaxInstructions /\ verdict' = "verified"
  BY <1>1, <1>2, Running, VmBounds DEF VmInv
<1>8. Safe(heap', pending') /\ pending' = Nil
  BY <1>1, <1>3, NilIsSafe
<1> HIDE DEF callers, fs
<1> QED BY <1>1, <1>3, <1>6, <1>7, <1>8 DEF VmInv, Statuses, Cycles

LEMMA StepCollect ==
  ASSUME VmInv, VerifiedIsClosed, Collect PROVE VmInv'
<1>1. /\ status = "dispatch" /\ Ins.op \notin Diverts /\ heap' = Collected(frames, pending, heap)
      /\ cycle' \in Cycles /\ Retired(With(Next1(Top.stack)))
  BY DEF Collect, Dispatch, Diverts, Cycles
<1>2. HeapIsSafe(program, heap') /\ FramesAreSafe(program, heap', frames)
  BY <1>1, Running, NilIsSafe, CollectionIsSafe
<1>3. FrameIsSafe(program, heap', Top)
  BY <1>1, <1>2, Running, SequenceDomain DEF FramesAreSafe, Top
<1>4. AllSafe(heap', Top.stack)
  BY <1>3 DEF FrameIsSafe, FrameIsTyped, ValuesOf, ToSet, AllSafe
<1>5. FrameIsSafe(program, heap', Next1(Top.stack))
  BY <1>1, <1>3, <1>4, Running, FrameMoved DEF Next1, FunctionAt
<1>6. FramesAreSafe(program, heap', With(Next1(Top.stack))) /\ With(Next1(Top.stack)) # <<>>
  BY <1>1, <1>2, <1>5, Running, TopReplaced DEF With
<1> QED BY <1>1, <1>2, <1>6, RetiredIsSafe

(***************************************************************************)
(* Exceptions.                                                             *)
(***************************************************************************)
LEMMA StepThrow ==
  ASSUME VmInv, VerifiedIsClosed, Throw PROVE VmInv'
<1>1. /\ Dispatch({"Throw"}) /\ heap' = heap /\ cycle' = cycle
      /\ frames' = With([Top EXCEPT !.stack = Rest(1)])
      /\ pending' = Arg(0) /\ status' = "throwing" /\ executed' = executed
      /\ program' = program /\ verdict' = verdict
  BY DEF Throw, HeapUntouched, moduleVars
<1>2. Arity = 1
  BY <1>1, Arities DEF Dispatch, OneOperand
<1>3. status = "dispatch" /\ AllSafe(heap, Rest(1)) /\ Safe(heap, Arg(0))
  BY <1>1, <1>2, DispatchedOperands
<1>4. FrameIsSafe(program, heap, [Top EXCEPT !.stack = Rest(1)])
  BY <1>3, Running, StackReplaced
<1>5. FramesAreSafe(program, heap, frames')
  BY <1>1, <1>3, <1>4, Running, TopReplaced DEF With
<1> QED BY <1>1, <1>3, <1>5, Running DEF VmInv, Statuses

\* Among the regions of a function around a program counter there is one
\* that begins last.
LEMMA InnermostIsThere ==
  ASSUME NEW hs, hs # {}, NEW n \in Nat, \A g \in hs : g.try_begin \in 1 .. n
  PROVE  Innermost(hs) \in hs
<1> DEFINE After(g) == (g.try_begin + 1) .. n
           afters == {After(g) : g \in hs}
           R == StrictSubsetOrdering(1 .. n)
<1>1. IsFiniteSet(1 .. n)
  BY FS_Interval
<1>2. IsWellFoundedOn(R, FiniteSubsetsOf(1 .. n))
  BY <1>1, FS_StrictSubsetOrderingWellFounded
<1>3. afters \subseteq FiniteSubsetsOf(1 .. n)
  <2>1. \A g \in hs : After(g) \in SUBSET (1 .. n)
    OBVIOUS
  <2> HIDE DEF After
  <2> QED BY <1>1, <2>1, FS_Subset DEF FiniteSubsetsOf
<1>4. PICK least \in afters : \A T \in afters : ~(<<T, least>> \in R)
  <2>1. \E T : T \in afters
    OBVIOUS
  <2> HIDE DEF R, afters
  <2> QED BY <1>2, <1>3, <2>1, WFMin
<1>5. PICK h \in hs : least = After(h)
  BY <1>4
<1>6. ASSUME NEW g \in hs PROVE g.try_begin <= h.try_begin
  <2>1. SUFFICES ASSUME g.try_begin > h.try_begin PROVE FALSE
    OBVIOUS
  <2>2. After(g) \subseteq After(h) /\ After(g) # After(h)
    <3>1. g.try_begin \in After(h) /\ g.try_begin \notin After(g)
      BY <2>1
    <3> QED BY <2>1, <3>1
  <2>3. After(g) \in SUBSET (1 .. n) /\ After(h) \in SUBSET (1 .. n)
    OBVIOUS
  <2>4. After(g) \in afters
    OBVIOUS
  <2> HIDE DEF After, afters
  <2>5. <<After(g), After(h)>> \in R
    BY <2>2, <2>3 DEF StrictSubsetOrdering
  <2> QED BY <1>4, <1>5, <2>4, <2>5
<1> QED BY <1>6 DEF Innermost

\* An exception that is caught continues at its handler in the same frame.
LEMMA StepCatch ==
  ASSUME VmInv, VerifiedIsClosed, Catch PROVE VmInv'
<1>1. /\ status \in {"throwing", "unwinding"} /\ frames # <<>> /\ Handler # None
      /\ heap' = heap /\ cycle' = cycle
      /\ frames' = With([Top EXCEPT !.stack = <<pending>>, !.pc = Handler.target])
      /\ pending' = Nil /\ status' = "boundary" /\ executed' = executed + 1
      /\ program' = program /\ verdict' = verdict
  BY DEF Catch, Unwinding, HeapUntouched, moduleVars
<1>2. /\ ModuleIsClosed /\ FramesAreSafe(program, heap, frames) /\ Safe(heap, pending)
      /\ HeapIsSafe(program, heap)
  BY <1>1 DEF VmInv, VerifiedIsClosed
<1>3. FrameIsSafe(program, heap, Top)
  BY <1>1, <1>2, SequenceDomain DEF FramesAreSafe, Top, IsSequence
<1>4. Handler.target \in DOMAIN program.functions[Top.function].code
  <2> DEFINE function == FunctionAt(Top.function)
             hs == {h \in {function.handlers[i] : i \in DOMAIN function.handlers} :
                      Encloses(h, ThrowSite) /\ h.layout = At(pending).of}
  <2>1. FunctionIsClosed(function)
    BY <1>2, <1>3 DEF FrameIsSafe, FrameIsTyped, ModuleIsClosed
  <2>2. Handler = Innermost(hs) /\ hs # {}
    BY <1>1 DEF Handler, handler_for, Innermost
  <2>3. Len(function.code) \in Nat /\ DOMAIN function.code = 1 .. Len(function.code)
    BY <2>1, SequenceDomain DEF FunctionIsClosed
  <2>4. \A h \in hs : h.try_begin \in 1 .. Len(function.code) /\ h.target \in DOMAIN function.code
    BY <2>1, <2>3 DEF FunctionIsClosed
  <2>5. Innermost(hs) \in hs
    <3> HIDE DEF hs
    <3> QED BY <2>2, <2>3, <2>4, InnermostIsThere
  <2> QED BY <2>2, <2>4, <2>5 DEF FunctionAt
<1>5. AllSafe(heap, <<pending>>)
  <2>1. IsSequence(<<pending>>) /\ DOMAIN <<pending>> = {1}
    BY DEF IsSequence, ToSet
  <2> QED BY <1>2, <2>1 DEF AllSafe
<1>6. FrameIsSafe(program, heap, [Top EXCEPT !.stack = <<pending>>, !.pc = Handler.target])
  BY <1>3, <1>4, <1>5, FrameMoved
<1>7. FramesAreSafe(program, heap, frames') /\ frames' # <<>>
  <2> DEFINE f == [Top EXCEPT !.stack = <<pending>>, !.pc = Handler.target]
  <2>1. frames' = [frames EXCEPT ![Len(frames)] = f]
    BY <1>1 DEF With
  <2> HIDE DEF f
  <2> QED BY <1>1, <1>2, <1>6, <2>1, TopReplaced DEF f
<1>8. executed' \in 0 .. MaxInstructions
  BY <1>1, VmBounds DEF VmInv
<1> QED BY <1>1, <1>2, <1>7, <1>8, NilIsSafe DEF VmInv, Statuses

\* A frame without a handler goes; the exception outlives the collection.
LEMMA StepUnwindFrame ==
  ASSUME VmInv, VerifiedIsClosed, UnwindFrame PROVE VmInv'
<1>1. /\ status \in {"throwing", "unwinding"} /\ frames # <<>>
      /\ (heap' = Collected(frames, pending, heap) /\ cycle' = "idle") \/ UNCHANGED <<heap, cycle>>
      /\ frames' = SubSeq(frames, 1, Len(frames) - 1)
      /\ pending' = pending /\ status' = "unwinding" /\ executed' = executed
      /\ program' = program /\ verdict' = verdict
  BY DEF UnwindFrame, Unwinding, HeapUntouched, moduleVars
<1>2. HeapIsSafe(program, heap) /\ FramesAreSafe(program, heap, frames) /\ Safe(heap, pending)
  BY DEF VmInv
<1>3. /\ HeapIsSafe(program, heap') /\ FramesAreSafe(program, heap', frames)
      /\ Safe(heap', pending)
  BY <1>1, <1>2, CollectionIsSafe
<1>4. FramesAreSafe(program, heap', frames')
  BY <1>1, <1>3, FramePopped
<1> QED BY <1>1, <1>3, <1>4 DEF VmInv, Statuses, Cycles

(***************************************************************************)
(* Traps.                                                                  *)
(***************************************************************************)
LEMMA TrappedIsSafe ==
  ASSUME VmInv, status # "idle", NEW fs, FramesAreSafe(program, heap, fs), Trapped(fs)
  PROVE  VmInv'
<1>1. /\ status' = "trapped" /\ frames' = fs /\ pending' = Nil /\ cycle' = "idle"
      /\ heap' \in PartlyCollected(fs, Nil, heap) \/ heap' = heap
      /\ executed' = executed /\ program' = program /\ verdict' = verdict
  BY DEF Trapped, moduleVars
<1>2. HeapIsSafe(program, heap)
  BY DEF VmInv
<1>3. HeapIsSafe(program, heap') /\ FramesAreSafe(program, heap', fs)
  BY <1>1, <1>2, NilIsSafe, CollectionIsSafe
<1> QED BY <1>1, <1>3, NilIsSafe DEF VmInv, Statuses, Cycles

LEMMA StepUncaught ==
  ASSUME VmInv, VerifiedIsClosed, Uncaught PROVE VmInv'
BY TrappedIsSafe DEF Uncaught, VmInv

\* The operands of an instruction that may trap.
LEMMA TrappingArity ==
  ASSUME Ins.op \in MayTrap \cup {"VariantGet", "EphemeronValue", "EphemeronSetValue"}
  PROVE  Arity \in Nat
<1>1. CASE Ins.op \in KindOps
  BY <1>1, Arities, KindSignatures DEF IsKindSignature
<1>2. CASE Ins.op \notin KindOps
  BY <1>2, Arities, KindOpsAre DEF MayTrap, OneOperand, TwoOperands, ThreeOperands
<1> QED BY <1>1, <1>2

LEMMA StepRuntimeTrap ==
  ASSUME VmInv, VerifiedIsClosed, RuntimeTrap PROVE VmInv'
<1> DEFINE trapping == MayTrap \cup {"VariantGet", "EphemeronValue", "EphemeronSetValue"}
<1>1. CASE Dispatch(trapping) /\ Trapped(With([Top EXCEPT !.stack = Rest(Arity)]))
  <2>1. status = "dispatch" /\ Arity \in Nat
    BY <1>1, TrappingArity DEF Dispatch
  <2>2. AllSafe(heap, Rest(Arity))
    BY <1>1, <2>1, DispatchedOperands
  <2>3. FrameIsSafe(program, heap, [Top EXCEPT !.stack = Rest(Arity)])
    BY <2>1, <2>2, Running, StackReplaced
  <2>4. FramesAreSafe(program, heap, With([Top EXCEPT !.stack = Rest(Arity)]))
    BY <2>1, <2>3, Running, TopReplaced DEF With
  <2> QED BY <1>1, <2>1, <2>4, TrappedIsSafe
<1>2. CASE Dispatch({"Call", "CallClosure"}) /\ Trapped(With(Next1(Rest(CallArity))))
  <2>1. status = "dispatch" /\ Ins.op \notin Diverts /\ AllSafe(heap, Rest(CallArity))
    BY <1>2, CallOperands
  <2>2. FrameIsSafe(program, heap, Next1(Rest(CallArity)))
    BY <2>1, Running, FrameMoved DEF Next1, FunctionAt
  <2>3. FramesAreSafe(program, heap, With(Next1(Rest(CallArity))))
    BY <2>1, <2>2, Running, TopReplaced DEF With
  <2> QED BY <1>2, <2>1, <2>3, TrappedIsSafe
<1> QED BY <1>1, <1>2 DEF RuntimeTrap, Dispatch

(***************************************************************************)
(* The boundary between two instructions.                                  *)
(***************************************************************************)
\* What a collection at the boundary may make of the heap.
OutcomeIsSafe(fs, o) ==
  HeapIsSafe(program, o.heap) /\ FramesAreSafe(program, o.heap, fs) /\ o.cycle \in Cycles

LEMMA OutcomesAreSafe ==
  ASSUME NEW fs, NEW o, OutcomeIsSafe(fs, o), pending = Nil
  PROVE  /\ \A r \in MajorOutcomes(fs, o) : OutcomeIsSafe(fs, r)
         /\ \A r \in MinorOutcomes(fs, o) : OutcomeIsSafe(fs, r)
         /\ \A r \in IncrementalOutcomes(fs, o) : OutcomeIsSafe(fs, r)
<1>1. HeapIsSafe(program, o.heap) /\ FramesAreSafe(program, o.heap, fs) /\ o.cycle \in Cycles
  BY DEF OutcomeIsSafe
<1>2. \A h : h = o.heap \/ h = Collected(fs, pending, o.heap) \/ h \in PartlyCollected(fs, pending, o.heap)
             => \A c \in Cycles : OutcomeIsSafe(fs, Outcome(h, c))
  BY <1>1, NilIsSafe, CollectionIsSafe DEF OutcomeIsSafe, Outcome
<1>3. "idle" \in Cycles /\ "marking" \in Cycles /\ "compacting" \in Cycles
  BY DEF Cycles
<1>4. \A r \in MajorOutcomes(fs, o) : OutcomeIsSafe(fs, r)
  BY <1>2, <1>3 DEF MajorOutcomes
<1>5. \A r \in MinorOutcomes(fs, o) : OutcomeIsSafe(fs, r)
  BY <1>2, <1>3 DEF MinorOutcomes
<1>6. \A r \in MarkingOutcomes(fs, o) : OutcomeIsSafe(fs, r)
  BY <1>2, <1>3 DEF MarkingOutcomes
<1>7. \A r \in CompactionOutcomes(fs, o) : OutcomeIsSafe(fs, r)
  BY <1>2, <1>3 DEF CompactionOutcomes
<1>8. \A r \in IncrementalOutcomes(fs, o) : OutcomeIsSafe(fs, r)
  BY <1>6, <1>7 DEF IncrementalOutcomes
<1> QED BY <1>4, <1>5, <1>8

LEMMA StepBoundary ==
  ASSUME VmInv, VerifiedIsClosed, collect_at_instruction_boundary PROVE VmInv'
<1> DEFINE fs == [frames EXCEPT ![Len(frames)] = Canonical(frames[Len(frames)])]
<1>1. /\ status = "boundary" /\ executed < MaxInstructions /\ frames # <<>> /\ pending = Nil
      /\ verdict = "verified" /\ HeapIsSafe(program, heap)
      /\ FramesAreSafe(program, heap, frames) /\ cycle \in Cycles
  BY DEF collect_at_instruction_boundary, VmInv
<1>2. PICK major \in MajorOutcomes(fs, Outcome(heap, cycle)) :
      \E minor \in MinorOutcomes(fs, major) :
      \E end \in IncrementalOutcomes(fs, minor) : heap' = end.heap /\ cycle' = end.cycle
  BY DEF collect_at_instruction_boundary
<1>3. PICK minor \in MinorOutcomes(fs, major) :
      \E end \in IncrementalOutcomes(fs, minor) : heap' = end.heap /\ cycle' = end.cycle
  BY <1>2
<1>4. PICK end \in IncrementalOutcomes(fs, minor) : heap' = end.heap /\ cycle' = end.cycle
  BY <1>3
<1>5. /\ frames' = fs /\ status' = "dispatch" /\ pending' = pending /\ executed' = executed
      /\ program' = program /\ verdict' = verdict
  BY DEF collect_at_instruction_boundary, moduleVars
<1>6. FramesAreSafe(program, heap, fs) /\ fs # <<>>
  <2>1. FrameIsSafe(program, heap, frames[Len(frames)])
    BY <1>1, SequenceDomain DEF FramesAreSafe, IsSequence
  <2> QED BY <1>1, <2>1, CanonicalIsSafe, TopReplaced
<1> HIDE DEF fs
<1>7. OutcomeIsSafe(fs, Outcome(heap, cycle))
  BY <1>1, <1>6 DEF OutcomeIsSafe, Outcome
<1>8. OutcomeIsSafe(fs, end)
  BY <1>1, <1>2, <1>3, <1>4, <1>7, OutcomesAreSafe
<1> QED BY <1>1, <1>4, <1>5, <1>6, <1>8, NilIsSafe DEF OutcomeIsSafe, VmInv, Statuses

\* The first frame runs the first function, without arguments.
LEMMA StepExecuteVerified ==
  ASSUME VmInv, VerifiedIsClosed, execute_verified PROVE VmInv'
<1>1. /\ verdict = "verified" /\ status = "idle" /\ heap' = heap /\ pending' = pending
      /\ cycle' = cycle /\ executed' = executed /\ program' = program /\ verdict' = verdict
      /\ frames' = (IF MaxCallDepth > 0 THEN <<NewFrame(1, <<>>, Nil)>> ELSE <<>>)
      /\ status' = (IF MaxCallDepth > 0 THEN "boundary" ELSE "trapped")
  BY DEF execute_verified, moduleVars
<1>2. ModuleIsClosed /\ frames = <<>> /\ heap = <<>> /\ pending = Nil /\ HeapIsSafe(program, heap)
  BY <1>1 DEF VmInv, VerifiedIsClosed
<1>3. 1 \in DOMAIN program.functions
  BY <1>2, SequenceDomain DEF ModuleIsClosed, IsSequence
<1>4. IsSequence(<<>>) /\ DOMAIN <<>> = {} /\ Len(<<>>) = 0
  BY DEF IsSequence
<1>5. FrameIsSafe(program, heap, NewFrame(1, <<>>, Nil))
  BY <1>2, <1>3, <1>4, NilIsSafe, NewFrameIsSafe DEF AllSafe
<1>6. FramesAreSafe(program, heap, frames')
  <2> DEFINE f == NewFrame(1, <<>>, Nil)
  <2>1. IsSequence(<<f>>) /\ Len(<<f>>) = 1 /\ DOMAIN <<f>> = {1} /\ <<f>>[1] = f
    BY DEF IsSequence, ToSet
  <2> HIDE DEF f
  <2>2. CASE MaxCallDepth > 0
    BY <1>1, <1>5, <2>1, <2>2, VmBounds DEF f, FramesAreSafe
  <2>3. CASE ~(MaxCallDepth > 0)
    BY <1>1, <1>4, <2>3, VmBounds DEF FramesAreSafe
  <2> QED BY <2>2, <2>3
<1> QED BY <1>1, <1>2, <1>6, NilIsSafe DEF VmInv, Statuses, Cycles

(***************************************************************************)
(* The theorems.                                                           *)
(***************************************************************************)
LEMMA InitIsSafe == VmInit => VmInv
<1>1. IsSequence(<<>>) /\ DOMAIN <<>> = {} /\ Len(<<>>) = 0
  BY DEF IsSequence
<1> QED BY <1>1, NilIsSafe, VmBounds
        DEF VmInit, VmInv, HeapIsSafe, FramesAreSafe, Statuses, Cycles

\* Until a module runs there is nothing in the machine that depends on it.
LEMMA PreparedIsSafe ==
  ASSUME VmInv, Prepare PROVE VmInv'
<1>1. IsSequence(<<>>) /\ DOMAIN <<>> = {} /\ Len(<<>>) = 0
  BY DEF IsSequence
<1>2. /\ frames = <<>> /\ heap = <<>> /\ status = "idle" /\ UNCHANGED vmVars
  BY DEF VmInv, Prepare
<1> QED BY <1>1, <1>2, NilIsSafe, VmBounds DEF VmInv, vmVars, HeapIsSafe, FramesAreSafe

LEMMA StepIsSafe ==
  ASSUME VmInv, VerifiedIsClosed, [VmNext \/ Prepare]_<<moduleVars, vmVars>>
  PROVE  VmInv'
<1>1. CASE execute_verified
  BY <1>1, StepExecuteVerified
<1>2. CASE collect_at_instruction_boundary
  BY <1>2, StepBoundary
<1>3. CASE ExecuteKinds \/ StrIntern \/ BuilderAppend \/ PushNil \/ IsNil
  BY <1>3, StepExecuteKinds, StepStrIntern, StepBuilderAppend, StepPushNil, StepIsNil
<1>4. CASE \/ AllocPair \/ AllocRecord \/ AllocVariant \/ AllocWeak \/ AllocClosure
           \/ AllocRefArray \/ AllocMap \/ AllocEphemeron
  BY <1>4, StepAllocPair, StepAllocRecord, StepAllocVariant, StepAllocWeak, StepAllocClosure,
     StepAllocRefArray, StepAllocMap, StepAllocEphemeron
<1>5. CASE \/ GetField \/ RecordGet \/ VariantTag \/ VariantGet \/ WeakGet \/ ArrayLen
           \/ RefArrayGet \/ MapHas \/ MapLen \/ MapRead \/ EphemeronKey \/ EphemeronValue
  BY <1>5, StepGetField, StepRecordGet, StepVariantTag, StepVariantGet, StepWeakGet, StepArrayLen,
     StepRefArrayGet, StepMapHas, StepMapLen, StepMapRead, StepEphemeronKey, StepEphemeronValue
<1>6. CASE SetField \/ RecordSet \/ RefArraySet \/ MapSet \/ EphemeronSetValue
  BY <1>6, StepSetField, StepRecordSet, StepRefArraySet, StepMapSet, StepEphemeronSetValue
<1>7. CASE LoadCapture \/ LoadLocal \/ StoreLocal \/ Jump \/ JumpIfFalse \/ TryDelimiter \/ Collect
  BY <1>7, StepLoadCapture, StepLoadLocal, StepStoreLocal, StepJump, StepJumpIfFalse,
     StepTryDelimiter, StepCollect
<1>8. CASE Call \/ CallClosure \/ TailCall \/ Return
  BY <1>8, StepCall, StepCallClosure, StepTailCall, StepReturn
<1>9. CASE Throw \/ Catch \/ UnwindFrame \/ Uncaught \/ RuntimeTrap
  BY <1>9, StepThrow, StepCatch, StepUnwindFrame, StepUncaught, StepRuntimeTrap
<1>10. CASE Prepare
  BY <1>10, PreparedIsSafe
<1>11. CASE UNCHANGED <<moduleVars, vmVars>>
  BY <1>11 DEF VmInv, moduleVars, vmVars
<1> QED BY <1>1, <1>2, <1>3, <1>4, <1>5, <1>6, <1>7, <1>8, <1>9, <1>10, <1>11
        DEF VmNext, ExecuteNext

\* The invariant holds of every execution of a module that the verifier
\* hands over only when it is closed.
THEOREM VmInvariant == VmSpec /\ []VerifiedIsClosed => []VmInv
<1>1. VmInit => VmInv
  BY InitIsSafe
<1>2. VmInv /\ VerifiedIsClosed /\ [VmNext \/ Prepare]_<<moduleVars, vmVars>> => VmInv'
  BY StepIsSafe
<1> QED BY <1>1, <1>2, PTL DEF VmSpec

\* Frames stay well formed: whatever runs, the running function and program
\* counter are of the program, locals match the function, and the depth of
\* the call stack stays in its limit (push_frame, reuse_frame_for_tail_call).
THEOREM FramesAreTyped == VmSpec /\ []VerifiedIsClosed => []VmTypeOK
<1>1. VmInv => VmTypeOK
  BY DEF VmInv, VmTypeOK, Cycles, FramesAreSafe, FrameIsSafe, FrameIsTyped, FunctionAt
<1> QED BY <1>1, VmInvariant, PTL

\* No collection takes what the machine can still name: at an instruction
\* boundary, between two unwound frames, at the end of a cycle or at a trap
\* (trace_roots), whatever the frames and the heap look like.
THEOREM RootsAreKept == VmSpec /\ []VerifiedIsClosed => []RootsAreComplete
<1>1. VmInv => RootsAreComplete
  <2> SUFFICES ASSUME VmInv PROVE RootsAreComplete
    OBVIOUS
  <2> DEFINE values == {pending} \cup UNION {ValuesOf(frames[i]) : i \in DOMAIN frames}
             held == ObjectsIn(values)
             alive == {o \in DOMAIN heap : heap[o].kind # "Reclaimed"}
  <2>1. HeapIsSafe(program, heap) /\ FramesAreSafe(program, heap, frames) /\ Safe(heap, pending)
    BY DEF VmInv
  <2>2. held \subseteq alive
    <3>1. \A v \in values : Safe(heap, v)
      BY <2>1 DEF FramesAreSafe, FrameIsSafe
    <3> HIDE DEF values
    <3> QED BY <3>1 DEF ObjectsIn, Safe
  <2>3. ClosedUnder(heap, alive)
    <3>1. ASSUME NEW o \in alive PROVE Strong(heap[o], alive) \subseteq alive
      <4>1. AllSafe(heap, heap[o].fields)
        BY <2>1 DEF HeapIsSafe, ObjectIsSafe
      <4> QED BY <4>1 DEF Strong, ObjectsIn, ToSet, AllSafe, Safe
    <3> HIDE DEF alive
    <3> QED BY <3>1 DEF ClosedUnder, Reached
  <2>4. RefersInside(heap)
    BY <2>1, SafeHeapRefersInside
  <2>5. Closed(heap, held) \subseteq alive
    <3>1. held \in SUBSET DOMAIN heap /\ alive \in SUBSET DOMAIN heap
      BY <2>2
    <3> HIDE DEF held, alive
    <3> QED BY <2>2, <2>3, <2>4, <3>1, ClosureOfRoots
  <2> QED BY <2>2, <2>5 DEF RootsAreComplete
<1> QED BY <1>1, VmInvariant, PTL

\* Every way out of execute_verified ends the incremental cycle and leaves
\* no exception pending: the outermost return, a trap at any depth, an
\* exception no frame catches, and a call depth limit of zero.
THEOREM CyclesEndWithExecution == VmSpec /\ []VerifiedIsClosed => []NoCycleOutlivesExecution
<1>1. VmInv => NoCycleOutlivesExecution
  BY DEF VmInv, NoCycleOutlivesExecution
<1> QED BY <1>1, VmInvariant, PTL

-----------------------------------------------------------------------------
(***************************************************************************)
(* What the verifier accepts is closed, whatever the module: no control    *)
(* flow leaves the code and no operand leaves the tables.  With it, what   *)
(* is proved of the machine above holds of the whole system.               *)
(***************************************************************************)

(***************************************************************************)
(* What a transfer that is not rejected has checked.                       *)
(***************************************************************************)
\* A result that, unless it is a rejection, found a next instruction.
Continues(f, pc, result) == result = None \/ (pc < Len(f.code) /\ IsSequence(result))

LEMMA SmallSequences ==
  /\ IsSequence(<<>>)
  /\ \A x : IsSequence(<<x>>)
  /\ \A x, y : IsSequence(<<x>> \o <<y>>)
<1>1. IsSequence(<<>>)
  BY DEF IsSequence
<1>2. ASSUME NEW x PROVE IsSequence(<<x>>)
  <2>1. x \in ToSet(<<x>>)
    BY DEF ToSet
  <2> QED BY <2>1 DEF IsSequence
<1>3. ASSUME NEW x, NEW y PROVE IsSequence(<<x>> \o <<y>>)
  <2>1. <<x>> \o <<y>> = Append(<<x>>, y)
    OBVIOUS
  <2>2. ASSUME NEW one, IsSequence(one) PROVE IsSequence(Append(one, y))
    BY <2>2, Appended
  <2>3. IsSequence(Append(<<x>>, y))
    BY <1>2, <2>2
  <2> QED BY <2>1, <2>3
<1> QED BY <1>1, <1>2, <1>3

LEMMA Concatenated ==
  ASSUME NEW s, NEW t, IsSequence(s), IsSequence(t)
  PROVE  IsSequence(s \o t)
<1>1. s \in Seq(ToSet(s) \cup ToSet(t)) /\ t \in Seq(ToSet(s) \cup ToSet(t))
  BY DEF IsSequence
<1>2. s \o t \in Seq(ToSet(s) \cup ToSet(t))
  BY <1>1
<1>3. ASSUME NEW S, NEW r \in Seq(S) PROVE r = [i \in 1 .. Len(r) |-> r[i]] /\ Len(r) \in Nat
  OBVIOUS
<1> QED BY <1>2, <1>3, IsASequence

LEMMA Fallthrough ==
  /\ \A f, pc, s : Continues(f, pc, push_fallthrough(f, pc, s))
  /\ \A f, pc : Continues(f, pc, None)
BY SmallSequences DEF push_fallthrough, Successor, Continues

\* The transfers whose only successor is the next instruction.
LEMMA OperandTransfers ==
  ASSUME NEW f, NEW pc, NEW s, NEW x, NEW y, NEW z
  PROVE  /\ Continues(f, pc, TransferKinds(f, pc, s))
         /\ Continues(f, pc, TransferIsNil(f, pc, s))
         /\ Continues(f, pc, TransferAllocPair(f, pc, s))
         /\ Continues(f, pc, TransferGetField(f, pc, s, x))
         /\ Continues(f, pc, TransferSetField(f, pc, s, x))
         /\ Continues(f, pc, TransferLoadLocal(f, pc, s, x))
         /\ Continues(f, pc, TransferStoreLocal(f, pc, s, x))
<1>1. Continues(f, pc, TransferKinds(f, pc, s))
  BY Fallthrough DEF TransferKinds
<1>2. Continues(f, pc, TransferIsNil(f, pc, s))
  BY Fallthrough DEF TransferIsNil
<1>3. Continues(f, pc, TransferAllocPair(f, pc, s))
  BY Fallthrough DEF TransferAllocPair
<1>4. Continues(f, pc, TransferGetField(f, pc, s, x))
  BY Fallthrough DEF TransferGetField, Provided
<1>5. Continues(f, pc, TransferSetField(f, pc, s, x))
  BY Fallthrough DEF TransferSetField
<1>6. Continues(f, pc, TransferLoadLocal(f, pc, s, x))
  BY Fallthrough DEF TransferLoadLocal, Provided
<1>7. Continues(f, pc, TransferStoreLocal(f, pc, s, x))
  BY Fallthrough DEF TransferStoreLocal
<1> QED BY <1>1, <1>2, <1>3, <1>4, <1>5, <1>6, <1>7

LEMMA ObjectTransfers ==
  ASSUME NEW f, NEW pc, NEW s, NEW x, NEW y, NEW z
  PROVE  /\ Continues(f, pc, TransferAlloc(f, pc, s, x, y))
         /\ Continues(f, pc, TransferGet(f, pc, s, x, y, z))
         /\ Continues(f, pc, TransferRecordSet(f, pc, s, x, y))
         /\ Continues(f, pc, TransferVariantTag(f, pc, s))
         /\ Continues(f, pc, TransferAllocWeak(f, pc, s))
         /\ Continues(f, pc, TransferWeakGet(f, pc, s))
         /\ Continues(f, pc, TransferCallClosure(f, pc, s))
         /\ Continues(f, pc, TransferLoadCapture(f, pc, s, x))
<1>1. Continues(f, pc, TransferAlloc(f, pc, s, x, y))
  BY Fallthrough DEF TransferAlloc
<1>2. Continues(f, pc, TransferGet(f, pc, s, x, y, z))
  BY Fallthrough DEF TransferGet
<1>3. Continues(f, pc, TransferRecordSet(f, pc, s, x, y))
  BY Fallthrough DEF TransferRecordSet, Provided
<1>4. Continues(f, pc, TransferVariantTag(f, pc, s))
  BY Fallthrough DEF TransferVariantTag
<1>5. Continues(f, pc, TransferAllocWeak(f, pc, s))
  BY Fallthrough DEF TransferAllocWeak
<1>6. Continues(f, pc, TransferWeakGet(f, pc, s))
  BY Fallthrough DEF TransferWeakGet
<1>7. Continues(f, pc, TransferCallClosure(f, pc, s))
  BY Fallthrough DEF TransferCallClosure
<1>8. Continues(f, pc, TransferLoadCapture(f, pc, s, x))
  BY Fallthrough DEF TransferLoadCapture
<1> QED BY <1>1, <1>2, <1>3, <1>4, <1>5, <1>6, <1>7, <1>8

LEMMA ContainerTransfers ==
  ASSUME NEW f, NEW pc, NEW s, NEW x, NEW y, NEW z
  PROVE  /\ Continues(f, pc, TransferArrayLen(f, pc, s))
         /\ Continues(f, pc, TransferAllocRefArray(f, pc, s))
         /\ Continues(f, pc, TransferRefArrayGet(f, pc, s))
         /\ Continues(f, pc, TransferRefArraySet(f, pc, s))
         /\ Continues(f, pc, TransferEntry(f, pc, s, x, y, z))
         /\ Continues(f, pc, TransferMapRead(f, pc, s, x, y))
         /\ Continues(f, pc, TransferEphemeronRead(f, pc, s, x))
         /\ Continues(f, pc, TransferAllocEphemeron(f, pc, s, x))
<1>1. Continues(f, pc, TransferArrayLen(f, pc, s))
  BY Fallthrough DEF TransferArrayLen
<1>2. Continues(f, pc, TransferAllocRefArray(f, pc, s))
  BY Fallthrough DEF TransferAllocRefArray
<1>3. Continues(f, pc, TransferRefArrayGet(f, pc, s))
  BY Fallthrough DEF TransferRefArrayGet, Provided
<1>4. Continues(f, pc, TransferRefArraySet(f, pc, s))
  BY Fallthrough DEF TransferRefArraySet
<1>5. \A kind, parts, pushed : Continues(f, pc, TransferEntry(f, pc, s, kind, parts, pushed))
  BY Fallthrough DEF TransferEntry, Provided
<1>6. Continues(f, pc, TransferMapRead(f, pc, s, x, y))
  BY <1>5, Fallthrough DEF TransferMapRead
<1>7. Continues(f, pc, TransferEphemeronRead(f, pc, s, x))
  BY Fallthrough DEF TransferEphemeronRead
<1>8. Continues(f, pc, TransferAllocEphemeron(f, pc, s, x))
  BY Fallthrough DEF TransferAllocEphemeron
<1> QED BY <1>1, <1>2, <1>3, <1>4, <1>5, <1>6, <1>7, <1>8

\* The transfers that name another program counter or a function.
LEMMA ControlTransfers ==
  ASSUME NEW f, NEW pc, NEW s, NEW x, NEW d
  PROVE  /\ Continues(f, pc, TransferTry(f, pc, s, x, d))
         /\ TransferJump(f, pc, s, x) # None =>
              x \in DOMAIN f.code /\ IsSequence(TransferJump(f, pc, s, x))
         /\ Continues(f, pc, TransferJumpIfFalse(f, pc, s, x))
         /\ TransferJumpIfFalse(f, pc, s, x) # None => x \in DOMAIN f.code
         /\ Continues(f, pc, TransferCall(f, pc, s, x))
         /\ TransferCall(f, pc, s, x) # None => x \in DOMAIN program.functions
         /\ TransferTailCall(f, pc, s, x) # None =>
              x \in DOMAIN program.functions /\ IsSequence(TransferTailCall(f, pc, s, x))
         /\ TransferReturn(f, s) # None => IsSequence(TransferReturn(f, s))
         /\ TransferThrow(f, pc, s) # None => IsSequence(TransferThrow(f, pc, s))
<1>1. Continues(f, pc, TransferTry(f, pc, s, x, d))
  BY Fallthrough DEF TransferTry, Provided
<1>2. TransferJump(f, pc, s, x) # None => x \in DOMAIN f.code /\ IsSequence(TransferJump(f, pc, s, x))
  BY SmallSequences DEF TransferJump, Provided, Successor
<1>3. /\ Continues(f, pc, TransferJumpIfFalse(f, pc, s, x))
      /\ TransferJumpIfFalse(f, pc, s, x) # None => x \in DOMAIN f.code
  <2> DEFINE result == TransferJumpIfFalse(f, pc, s, x)
  <2>1. result = None \/ (pc < Len(f.code) /\ x \in DOMAIN f.code
                           /\ \E y, z : result = <<y>> \o <<z>>)
    BY DEF TransferJumpIfFalse, Provided, Successor
  <2> HIDE DEF result
  <2>2. result = None \/ (pc < Len(f.code) /\ x \in DOMAIN f.code /\ IsSequence(result))
    BY <2>1, SmallSequences
  <2> QED BY <2>2 DEF Continues, result
<1>4. /\ Continues(f, pc, TransferCall(f, pc, s, x))
      /\ TransferCall(f, pc, s, x) # None => x \in DOMAIN program.functions
  BY Fallthrough DEF TransferCall, DirectlyCallable
<1>5. TransferTailCall(f, pc, s, x) # None =>
        x \in DOMAIN program.functions /\ IsSequence(TransferTailCall(f, pc, s, x))
  BY SmallSequences DEF TransferTailCall, Provided, DirectlyCallable
<1>6. TransferReturn(f, s) # None => IsSequence(TransferReturn(f, s))
  BY SmallSequences DEF TransferReturn, Provided
<1>7. TransferThrow(f, pc, s) # None => IsSequence(TransferThrow(f, pc, s))
  BY SmallSequences DEF TransferThrow, add_exception_successor, Successor
<1> QED BY <1>1, <1>2, <1>3, <1>4, <1>5, <1>6, <1>7

\* What an instruction of a closed function satisfies.
Checked(f, pc) ==
  LET ins == f.code[pc]
  IN  /\ OperandsInRange(ins)
      /\ ins.op \notin Diverts => pc < Len(f.code)
      /\ ins.op \in {"Jump", "JumpIfFalse"} => ins.a \in DOMAIN f.code
      /\ ins.op \in {"Call", "TailCall"} => ins.a \in DOMAIN program.functions

LEMMA TransferChecks ==
  ASSUME NEW f, NEW pc, NEW s, transfer_instruction(f, pc, s) # None
  PROVE  Checked(f, pc) /\ IsSequence(transfer_instruction(f, pc, s))
<1> DEFINE ins == f.code[pc]
           op == ins.op
           a == ins.a
           b == ins.b
           c == ins.c
           result == transfer_instruction(f, pc, s)
<1>0. OperandsInRange(ins)
  BY DEF transfer_instruction, Provided
<1>1. CASE op \in {"Jump", "JumpIfFalse", "Call", "TailCall", "Return", "Throw"}
  <2>1. /\ op = "Jump" => result = TransferJump(f, pc, s, a)
        /\ op = "JumpIfFalse" => result = TransferJumpIfFalse(f, pc, s, a)
        /\ op = "Call" => result = TransferCall(f, pc, s, a)
        /\ op = "TailCall" => result = TransferTailCall(f, pc, s, a)
        /\ op = "Return" => result = TransferReturn(f, s)
        /\ op = "Throw" => result = TransferThrow(f, pc, s)
    BY <1>0, KindOpsAre DEF transfer_instruction, Provided
  <2> QED BY <1>0, <1>1, <2>1, ControlTransfers DEF Checked, Diverts, Continues
<1>2. CASE op \notin {"Jump", "JumpIfFalse", "Call", "TailCall", "Return", "Throw"}
  <2> SUFFICES Continues(f, pc, result)
    BY <1>0, <1>2 DEF Checked, Continues
  <2>1. CASE op \in KindOps \cup {"Nil", "IsNil", "AllocPair", "GetField", "SetField", "LoadLocal",
                                 "StoreLocal", "Collect"}
    BY <1>0, <2>1, KindOpsAre, Fallthrough, OperandTransfers DEF transfer_instruction, Provided
  <2>2. CASE op \in {"AllocRecord", "RecordGet", "RecordSet", "AllocVariant", "VariantTag",
                     "VariantGet", "AllocWeak", "WeakGet", "AllocClosure", "CallClosure", "LoadCapture"}
    BY <1>0, <2>2, KindOpsAre, ObjectTransfers DEF transfer_instruction, Provided
  <2>3. CASE op \in {"ArrayLen", "AllocRefArray", "RefArrayGet", "RefArraySet", "AllocMap", "MapGet",
                     "MapKeyAt", "MapValueAt", "MapHas", "MapSet", "MapLen"}
    BY <1>0, <2>3, KindOpsAre, Fallthrough, ContainerTransfers DEF transfer_instruction, Provided
  <2>4. CASE op \in {"AllocEphemeron", "EphemeronKey", "EphemeronValue", "EphemeronSetValue",
                     "TryBegin", "TryEnd"}
    BY <1>0, <2>4, KindOpsAre, ContainerTransfers, ControlTransfers DEF transfer_instruction, Provided
  <2> QED BY <1>0, <1>2, <2>1, <2>2, <2>3, <2>4, KindOpsAre, Fallthrough
          DEF transfer_instruction, Provided
<1> QED BY <1>1, <1>2

LEMMA ArrivalsAreASequence ==
  ASSUME NEW f, NEW pc, NEW s, transfer_instruction(f, pc, s) # None
  PROVE  Len(transfer_instruction(f, pc, s) \o ExceptionalSuccessors(f, pc, s)) \in Nat
<1>1. IsSequence(ExceptionalSuccessors(f, pc, s))
  BY SmallSequences DEF ExceptionalSuccessors, add_exception_successor, Successor
<1> QED BY <1>1, TransferChecks, Concatenated, SequenceDomain

(***************************************************************************)
(* Merging the successors.  What an analysis has found out: a program      *)
(* counter that was reached waits on the worklist or has been checked.     *)
(***************************************************************************)
Advances(f, analysis) ==
  /\ IsSequence(analysis.worklist)
  /\ analysis.states = [pc \in DOMAIN f.code |-> analysis.states[pc]]
  /\ \A pc \in DOMAIN f.code :
       analysis.states[pc] # None => pc \in ToSet(analysis.worklist) \/ Checked(f, pc)

LEMMA MergedAdvances ==
  ASSUME NEW f, NEW analysis, Advances(f, analysis), NEW successor, Merged(analysis, successor) # None
  PROVE  Advances(f, Merged(analysis, successor))
<1> DEFINE at == successor.pc
           new == IF analysis.states[at] = None THEN successor.state
                  ELSE join_state(analysis.states[at], successor.state)
           known == [analysis.states EXCEPT ![at] = new]
           left == Append(analysis.worklist, at)
           merged == [states |-> known, worklist |-> left]
<1>1. Merged(analysis, successor) \in {None, analysis, merged}
  <2>1. analysis = None => Merged(analysis, successor) = None
    BY DEF Merged
  <2>2. CASE analysis # None
    <3> DEFINE old == IF analysis = None THEN None ELSE analysis.states[at]
    <3>1. old = analysis.states[at]
      BY <2>2
    <3> QED BY <2>2, <3>1 DEF Merged
  <2> QED BY <2>1, <2>2
<1>2. Advances(f, merged)
  <2> HIDE DEF new
  <2>1. IsSequence(left) /\ at \in ToSet(left) /\ ToSet(analysis.worklist) \subseteq ToSet(left)
    <3> DEFINE s == analysis.worklist
    <3>1. IsSequence(s)
      BY DEF Advances
    <3> HIDE DEF s
    <3>2. /\ DOMAIN s = 1 .. Len(s) /\ Len(s) \in Nat
          /\ IsSequence(Append(s, at)) /\ DOMAIN Append(s, at) = 1 .. Len(s) + 1
          /\ \A i \in DOMAIN s : Append(s, at)[i] = s[i]
          /\ Append(s, at)[Len(s) + 1] = at
      BY <3>1, Appended, SequenceDomain
    <3>3. at \in ToSet(Append(s, at)) /\ ToSet(s) \subseteq ToSet(Append(s, at))
      BY <3>2 DEF ToSet
    <3> QED BY <3>2, <3>3 DEF s
  <2>2. DOMAIN analysis.states = DOMAIN f.code
    BY DEF Advances
  <2>3. /\ known = [pc \in DOMAIN f.code |-> known[pc]]
        /\ \A pc \in DOMAIN f.code : pc # at => known[pc] = analysis.states[pc]
    BY <2>2
  <2> HIDE DEF known, left
  <2> QED BY <2>1, <2>3 DEF Advances
<1> HIDE DEF merged
<1> QED BY <1>1, <1>2

\* A set that contains 0 and the next number of each of its numbers below n
\* contains them all.
LEMMA IntervalInduction ==
  ASSUME NEW n \in Nat, NEW T, 0 \in T, \A i \in 0 .. n : i < n /\ i \in T => i + 1 \in T
  PROVE  \A i \in 0 .. n : i \in T
<1> DEFINE R == OpToRel(<, Nat)
           Left == (0 .. n) \ T
<1>1. SUFFICES ASSUME Left # {} PROVE FALSE
  OBVIOUS
<1>2. IsWellFoundedOn(R, Nat)
  BY NatLessThanWellFounded, Zenon
<1>3. \A x, y \in Nat : <<y, x>> \in R <=> y < x
  BY DEF OpToRel
<1>4. Left \subseteq Nat
  OBVIOUS
<1> HIDE DEF R
<1>5. PICK least \in Left : \A k \in Left : ~(<<k, least>> \in R)
  BY <1>1, <1>2, <1>4, WFMin
<1>6. least - 1 \in Left /\ least - 1 < least
  BY <1>5
<1> QED BY <1>3, <1>4, <1>5, <1>6

\* Successors are merged one after the other: the function that
\* MergedAll defines.
Solves(g, start, arrivals, n) ==
  g = [i \in 0 .. n |-> IF i = 0 THEN start ELSE Merged(g[i - 1], arrivals[i])]

LEMMA MergeExists ==
  ASSUME NEW start, NEW arrivals, NEW n \in Nat
  PROVE  \E g : Solves(g, start, arrivals, n)
<1> DEFINE Unrolled(k, g) == [i \in 0 .. k |-> IF i = 0 THEN start ELSE Merged(g[i - 1], arrivals[i])]
           T == {k \in 0 .. n : \E g : g = Unrolled(k, g)}
<1>1. 0 \in T
  <2> DEFINE g == [i \in 0 .. 0 |-> start]
  <2>1. g = Unrolled(0, g)
    OBVIOUS
  <2> HIDE DEF g, Unrolled
  <2> QED BY <2>1
<1>2. ASSUME NEW k \in 0 .. n, k < n, k \in T PROVE k + 1 \in T
  <2>1. PICK g : g = Unrolled(k, g)
    BY <1>2
  <2> DEFINE h == [i \in 0 .. k + 1 |-> IF i = k + 1 THEN Merged(g[k], arrivals[k + 1]) ELSE g[i]]
  <2>2. \A i \in 0 .. k : h[i] = g[i]
    OBVIOUS
  <2>3. \A i \in 0 .. k + 1 : h[i] = IF i = 0 THEN start ELSE Merged(h[i - 1], arrivals[i])
    BY <2>1, <2>2
  <2>4. h = Unrolled(k + 1, h)
    <3>1. h = [i \in 0 .. k + 1 |-> h[i]]
      OBVIOUS
    <3> HIDE DEF h
    <3> QED BY <2>3, <3>1
  <2> HIDE DEF h
  <2> QED BY <1>2, <2>4
<1>3. n \in T
  <2> HIDE DEF T
  <2> QED BY <1>1, <1>2, IntervalInduction
<1>4. PICK g : g = Unrolled(n, g)
  BY <1>3
<1>5. Solves(g, start, arrivals, n)
  BY <1>4 DEF Solves
<1> QED BY <1>5

LEMMA MergeUnfolds ==
  ASSUME NEW start, NEW arrivals, NEW n \in Nat, NEW merge, Solves(merge, start, arrivals, n)
  PROVE  /\ merge[0] = start
         /\ \A i \in 0 .. n : i < n => merge[i + 1] = Merged(merge[i], arrivals[i + 1])
BY DEF Solves

LEMMA MergeAdvances ==
  ASSUME NEW f, NEW start, Advances(f, start), NEW arrivals, NEW n \in Nat, NEW merge,
         merge[0] = start,
         \A i \in 0 .. n : i < n => merge[i + 1] = Merged(merge[i], arrivals[i + 1])
  PROVE  merge[n] # None => Advances(f, merge[n])
<1> DEFINE Good(i) == merge[i] # None => Advances(f, merge[i])
           T == {i \in 0 .. n : Good(i)}
<1>2. Good(0)
  OBVIOUS
<1>3. ASSUME NEW i \in 0 .. n, i < n, Good(i) PROVE Good(i + 1)
  <2>1. merge[i + 1] = Merged(merge[i], arrivals[i + 1])
    BY <1>3
  <2>2. merge[i] = None => merge[i + 1] = None
    BY <2>1 DEF Merged
  <2> QED BY <1>3, <2>1, <2>2, MergedAdvances
<1> HIDE DEF Good
<1>4. 0 \in T /\ \A i \in 0 .. n : i < n /\ i \in T => i + 1 \in T
  BY <1>2, <1>3
<1>5. n \in T
  <2> HIDE DEF T
  <2> QED BY <1>4, IntervalInduction
<1> QED BY <1>5 DEF Good

(***************************************************************************)
(* The inductive invariant of the verifier: the functions it is done with  *)
(* are closed, and so is every instruction of the current one that was     *)
(* reached and no longer waits.                                            *)
(***************************************************************************)
Analysis == [states |-> states, worklist |-> worklist]

\* The handlers of a function lie in its code.
Contained(f) ==
  /\ f.code # <<>>
  /\ \A i \in DOMAIN f.handlers : {f.handlers[i].try_begin, f.handlers[i].target} \subseteq DOMAIN f.code

VerifierInv ==
  /\ IsModule(program)
  /\ verdict \in {"loaded", "verifying", "verified", "rejected"}
  /\ verdict = "loaded" => facts = <<>>
  /\ verdict = "verifying" =>
       /\ \A i \in DOMAIN ClosureLayouts : ClosureLayouts[i].function \in DOMAIN program.functions
       /\ IsSequence(facts) /\ Len(facts) < Len(program.functions)
       /\ \A i \in 1 .. Len(facts) : FunctionIsClosed(FunctionAt(i))
       /\ Advances(Function, Analysis)
       /\ worklist = <<>> => Contained(Function)
  /\ VerifiedIsClosed

LEMMA ProgramKept ==
  ASSUME program' = program
  PROVE  /\ \A i : FunctionAt(i)' = FunctionAt(i)
         /\ \A f, pc : Checked(f, pc)' <=> Checked(f, pc)
         /\ \A f, analysis : Advances(f, analysis)' <=> Advances(f, analysis)
         /\ \A f : FunctionIsClosed(f)' <=> FunctionIsClosed(f)
<1>1. \A i : FunctionAt(i)' = FunctionAt(i)
  BY DEF FunctionAt
<1>2. /\ RecordLayouts' = RecordLayouts /\ VariantLayouts' = VariantLayouts
      /\ ClosureLayouts' = ClosureLayouts /\ MapLayouts' = MapLayouts
      /\ EphemeronLayouts' = EphemeronLayouts
  BY DEF RecordLayouts, VariantLayouts, ClosureLayouts, MapLayouts, EphemeronLayouts
<1>3. \A ins : OperandsInRange(ins)' <=> OperandsInRange(ins)
  BY <1>2 DEF OperandsInRange
<1>4. \A f, pc : Checked(f, pc)' <=> Checked(f, pc)
  BY <1>3 DEF Checked
<1>5. \A f, analysis : Advances(f, analysis)' <=> Advances(f, analysis)
  BY <1>4 DEF Advances
<1>6. \A f : FunctionIsClosed(f)' <=> FunctionIsClosed(f)
  BY <1>3 DEF FunctionIsClosed
<1> QED BY <1>1, <1>4, <1>5, <1>6

LEMMA RejectKeeps ==
  ASSUME VerifierInv, Reject PROVE VerifierInv'
BY DEF VerifierInv, Reject, VerifiedIsClosed, IsModule

\* A function starts with its first instruction on the worklist.
LEMMA StartAdvances ==
  ASSUME NEW f PROVE Advances(f, [states |-> Unreached(f), worklist |-> <<1>>])
<1>1. IsSequence(<<1>>) /\ ToSet(<<1>>) = {1}
  BY SmallSequences DEF ToSet
<1>2. /\ Unreached(f) = [pc \in DOMAIN f.code |-> Unreached(f)[pc]]
      /\ \A pc \in DOMAIN f.code : Unreached(f)[pc] # None => pc = 1
  BY DEF Unreached
<1> QED BY <1>1, <1>2 DEF Advances

LEMMA CheckModuleKeeps ==
  ASSUME VerifierInv, CheckModule PROVE VerifierInv'
<1>1. CASE Reject
  BY <1>1, RejectKeeps
<1>2. CASE ~Reject
  <2>1. /\ ModuleIsWellFormed /\ verdict' = "verifying" /\ facts = <<>> /\ facts' = <<>>
        /\ states' = Unreached(FunctionAt(1)) /\ worklist' = <<1>> /\ program' = program
    BY <1>2 DEF CheckModule, VerifierInv
  <2>2. IsSequence(<<>>) /\ Len(<<>>) = 0
    BY SmallSequences
  <2>3. Function' = FunctionAt(1)
    BY <2>1, <2>2 DEF Function, FunctionAt
  <2>4. Analysis' = [states |-> Unreached(FunctionAt(1)), worklist |-> <<1>>]
    BY <2>1 DEF Analysis
  <2>5. Advances(Function, Analysis)'
    BY <2>1, <2>3, <2>4, StartAdvances, ProgramKept DEF Advances
  <2>6. IsModule(program) /\ IsModule(program)'
    BY <2>1 DEF VerifierInv, IsModule
  <2>7. /\ \A i \in DOMAIN ClosureLayouts : ClosureLayouts[i].function \in DOMAIN program.functions
        /\ program.functions # <<>>
    BY <2>1 DEF ModuleIsWellFormed, ClosureIsWellFormed
  <2>8. 0 < Len(program.functions)
    BY <2>6, <2>7 DEF IsModule, IsSequence
  <2>9. \A i \in DOMAIN ClosureLayouts' : ClosureLayouts'[i].function \in DOMAIN program'.functions
    BY <2>1, <2>7 DEF ClosureLayouts
  <2>10. VerifiedIsClosed'
    BY <2>1 DEF VerifiedIsClosed
  <2>11. worklist' # <<>>
    BY <2>1
  <2> QED BY <2>1, <2>2, <2>5, <2>6, <2>8, <2>9, <2>10, <2>11 DEF VerifierInv
<1> QED BY <1>1, <1>2

\* The instruction at the head of the worklist has been checked when what
\* it leads to is merged.
LEMMA HeadTaken ==
  ASSUME NEW f, Advances(f, Analysis), worklist # <<>>, Checked(f, Head(worklist))
  PROVE  Advances(f, [states |-> states, worklist |-> Tail(worklist)])
<1>1. IsSequence(worklist) /\ states = [pc \in DOMAIN f.code |-> states[pc]]
  BY DEF Advances, Analysis
<1>2. Len(worklist) \in Nat /\ DOMAIN worklist = 1 .. Len(worklist) /\ Len(worklist) # 0
  BY <1>1, SequenceDomain DEF IsSequence
<1> DEFINE rest == SubSeq(worklist, 2, Len(worklist))
<1>3. Tail(worklist) = rest /\ Head(worklist) = worklist[1]
  BY <1>1, <1>2 DEF IsSequence
<1>4. /\ IsSequence(rest) /\ DOMAIN rest = 1 .. Len(worklist) - 1
      /\ \A i \in 1 .. Len(worklist) - 1 : rest[i] = worklist[i + 1]
  <2> DEFINE m == 2
             n == Len(worklist)
  <2>1. m \in Int /\ n \in Int /\ 1 <= m /\ m <= n + 1 /\ n <= Len(worklist)
    BY <1>2
  <2>2. 1 .. n + 1 - m = 1 .. n - 1 /\ \A i \in 1 .. n - 1 : m + i - 1 = i + 1
    BY <2>1
  <2> HIDE DEF m, n
  <2>3. /\ IsSequence(SubSeq(worklist, m, n)) /\ DOMAIN SubSeq(worklist, m, n) = 1 .. n + 1 - m
        /\ \A i \in 1 .. n + 1 - m : SubSeq(worklist, m, n)[i] = worklist[m + i - 1]
    BY <1>1, <2>1, Sliced
  <2> QED BY <2>2, <2>3 DEF m, n
<1> HIDE DEF rest
<1>5. \A pc \in ToSet(worklist) : pc = Head(worklist) \/ pc \in ToSet(rest)
  <2>1. ASSUME NEW i \in DOMAIN worklist, i # 1 PROVE worklist[i] \in ToSet(rest)
    <3>1. i - 1 \in DOMAIN rest /\ rest[i - 1] = worklist[i]
      BY <1>2, <1>4, <2>1
    <3> QED BY <3>1 DEF ToSet
  <2> QED BY <1>3, <2>1 DEF ToSet
<1>6. \A pc \in DOMAIN f.code : states[pc] # None => pc \in ToSet(worklist) \/ Checked(f, pc)
  BY DEF Advances, Analysis
<1> QED BY <1>1, <1>3, <1>4, <1>5, <1>6 DEF Advances

LEMMA CodeContainsHandlers ==
  ASSUME IsModule(program), verdict = "verifying", IsSequence(facts),
         Len(facts) < Len(program.functions), FunctionIsWellFormed(Function)
  PROVE  Contained(Function)
<1>1. Len(facts) + 1 \in DOMAIN program.functions
  BY SequenceDomain DEF IsModule
<1>2. /\ IsSequence(Function.code)
      /\ \A i \in DOMAIN Function.handlers :
           {Function.handlers[i].try_begin, Function.handlers[i].try_end,
            Function.handlers[i].target} \subseteq Nat \ {0}
  BY <1>1 DEF IsModule, Function, FunctionAt
<1>3. Len(Function.code) \in Nat /\ DOMAIN Function.code = 1 .. Len(Function.code)
  BY <1>2, SequenceDomain
<1>4. ASSUME NEW i \in DOMAIN Function.handlers
      PROVE  {Function.handlers[i].try_begin, Function.handlers[i].target} \subseteq DOMAIN Function.code
  <2> DEFINE h == Function.handlers[i]
  <2>1. h.try_begin < h.try_end /\ h.try_end < h.target /\ h.target <= Len(Function.code)
    BY <1>4 DEF FunctionIsWellFormed, HandlerIsWellFormed
  <2>2. h.try_begin \in Nat \ {0} /\ h.try_end \in Nat \ {0} /\ h.target \in Nat \ {0}
    BY <1>2, <1>4
  <2> HIDE DEF h
  <2>3. h.try_begin \in 1 .. Len(Function.code) /\ h.target \in 1 .. Len(Function.code)
    BY <1>3, <2>1, <2>2
  <2> QED BY <1>3, <2>3 DEF h
<1> QED BY <1>4 DEF Contained, FunctionIsWellFormed

LEMMA VerifyInstructionKeeps ==
  ASSUME VerifierInv, VerifyInstruction PROVE VerifierInv'
<1> DEFINE pc == Head(worklist)
           successors == transfer_instruction(Function, pc, states[pc])
           arrivals == successors \o ExceptionalSuccessors(Function, pc, states[pc])
           start == [states |-> states, worklist |-> Tail(worklist)]
           merge == CHOOSE g : Solves(g, start, arrivals, Len(arrivals))
           analysis == merge[Len(arrivals)]
           analysed == Analysed(successors, ExceptionalSuccessors(Function, pc, states[pc]))
<1>1. CASE Reject
  BY <1>1, RejectKeeps
<1>2. CASE ~Reject
  <2>1. /\ verdict = "verifying" /\ worklist # <<>> /\ FunctionIsWellFormed(Function)
        /\ successors # None /\ analysis # None
        /\ states' = analysis.states /\ worklist' = analysis.worklist
        /\ program' = program /\ facts' = facts /\ verdict' = verdict
    <3>1. /\ verdict = "verifying" /\ worklist # <<>> /\ FunctionIsWellFormed(Function)
          /\ analysed # None
          /\ states' = analysed.states /\ worklist' = analysed.worklist
          /\ program' = program /\ facts' = facts /\ verdict' = verdict
      BY <1>2 DEF VerifyInstruction, Continue
    <3>2. analysed = IF successors = None THEN None ELSE analysis
      BY DEF Analysed, MergedAll, Solves
    <3> HIDE DEF successors, analysis, analysed
    <3> QED BY <3>1, <3>2
  <2>2. Advances(Function, start)
    BY <2>1, TransferChecks, HeadTaken DEF VerifierInv
  <2>3. Len(arrivals) \in Nat
    BY <2>1, ArrivalsAreASequence
  <2>4. Advances(Function, analysis)
    <3> HIDE DEF start, arrivals
    <3>1. \E g : Solves(g, start, arrivals, Len(arrivals))
      BY <2>3, MergeExists
    <3>2. Solves(merge, start, arrivals, Len(arrivals))
      BY <3>1
    <3> HIDE DEF merge
    <3>3. /\ merge[0] = start
          /\ \A i \in 0 .. Len(arrivals) :
               i < Len(arrivals) => merge[i + 1] = Merged(merge[i], arrivals[i + 1])
      BY <2>3, <3>2, MergeUnfolds
    <3> QED BY <2>1, <2>2, <2>3, <3>3, MergeAdvances
  <2> HIDE DEF analysis
  <2>5. Function' = Function
    BY <2>1 DEF Function, FunctionAt
  <2>6. Advances(Function, Analysis')
    BY <2>1, <2>4 DEF Advances, Analysis
  <2>7. Advances(Function, Analysis)'
    BY <2>1, <2>5, <2>6, ProgramKept DEF Advances
  <2>8. Contained(Function)
    BY <2>1, CodeContainsHandlers DEF VerifierInv
  <2>9. Contained(Function)'
    BY <2>5, <2>8 DEF Contained
  <2>10. IsModule(program)' /\ VerifiedIsClosed'
    BY <2>1 DEF VerifierInv, IsModule, VerifiedIsClosed
  <2>11. \A i \in 1 .. Len(facts)' : FunctionIsClosed(FunctionAt(i))'
    BY <2>1, ProgramKept DEF VerifierInv
  <2>12. \A i \in DOMAIN ClosureLayouts' : ClosureLayouts'[i].function \in DOMAIN program'.functions
    BY <2>1 DEF VerifierInv, ClosureLayouts
  <2> QED BY <2>1, <2>7, <2>9, <2>10, <2>11, <2>12 DEF VerifierInv
<1> QED BY <1>1, <1>2

LEMMA RejectMalformedKeeps ==
  ASSUME VerifierInv, RejectMalformed PROVE VerifierInv'
BY RejectKeeps DEF RejectMalformed

\* When the worklist is empty and every program counter has a stack map, all
\* instructions of the function have been checked.
LEMMA FinishedIsClosed ==
  ASSUME VerifierInv, verdict = "verifying", worklist = <<>>, HasStackMaps
  PROVE  FunctionIsClosed(Function)
<1>1. /\ Len(facts) \in Nat /\ Len(facts) + 1 \in DOMAIN program.functions
  BY SequenceDomain DEF VerifierInv, IsModule
<1>2. IsSequence(Function.code) /\ IsSequence(Function.params) /\ Function.locals \in Nat
  BY <1>1 DEF VerifierInv, IsModule, Function, FunctionAt
<1>3. DOMAIN Function.code = 1 .. Len(Function.code) /\ Len(Function.code) \in Nat
  BY <1>2, SequenceDomain
<1>4. Contained(Function)
  BY DEF VerifierInv
<1>5. ASSUME NEW pc \in DOMAIN Function.code PROVE Checked(Function, pc)
  <2>1. Advances(Function, Analysis) /\ ToSet(worklist) = {}
    BY <1>4 DEF VerifierInv, ToSet
  <2>2. DOMAIN states = DOMAIN Function.code
    BY <2>1 DEF Advances, Analysis
  <2>3. states[pc] # None
    BY <1>5, <2>2 DEF HasStackMaps
  <2> QED BY <1>5, <2>1, <2>3 DEF Advances, Analysis
<1>6. ASSUME NEW pc \in DOMAIN Function.code, Function.code[pc].op \notin Diverts
      PROVE  pc + 1 \in DOMAIN Function.code
  BY <1>3, <1>5, <1>6 DEF Checked
<1> QED BY <1>2, <1>4, <1>5, <1>6 DEF Checked, Contained, FunctionIsClosed

LEMMA FinishFunctionKeeps ==
  ASSUME VerifierInv, FinishFunction PROVE VerifierInv'
<1>1. CASE Reject
  BY <1>1, RejectKeeps
<1>2. CASE ~Reject
  <2> DEFINE n == Len(facts) + 1
  <2>1. /\ verdict = "verifying" /\ worklist = <<>> /\ HasStackMaps
        /\ program' = program /\ facts' = Append(facts, states)
        /\ \/ /\ Len(facts') < Len(program.functions)
              /\ states' = Unreached(FunctionAt(Len(facts) + 2)) /\ worklist' = <<1>>
              /\ verdict' = verdict
           \/ ~(Len(facts') < Len(program.functions)) /\ verdict' = "verified"
    BY <1>2 DEF FinishFunction
  <2>2. FunctionIsClosed(FunctionAt(n))
    BY <2>1, FinishedIsClosed DEF Function
  <2>3. /\ IsModule(program) /\ IsSequence(facts) /\ Len(facts) < Len(program.functions)
        /\ \A i \in DOMAIN ClosureLayouts : ClosureLayouts[i].function \in DOMAIN program.functions
        /\ \A i \in 1 .. Len(facts) : FunctionIsClosed(FunctionAt(i))
    BY <2>1 DEF VerifierInv
  <2>4. Len(facts) \in Nat /\ IsSequence(facts') /\ Len(facts') = n
    BY <2>1, <2>3, Appended, SequenceDomain
  <2>5. \A i \in 1 .. n : FunctionIsClosed(FunctionAt(i))
    BY <2>2, <2>3, <2>4
  <2>6. IsModule(program)'
    BY <2>1, <2>3 DEF IsModule
  <2>7. CASE Len(facts') < Len(program.functions) /\ verdict' = verdict
             /\ states' = Unreached(FunctionAt(Len(facts) + 2)) /\ worklist' = <<1>>
    <3>1. Function' = FunctionAt(Len(facts) + 2)
      <4>1. Len(facts)' + 1 = Len(facts) + 2
        BY <2>4
      <4> QED BY <2>1, <4>1 DEF Function, FunctionAt
    <3>2. Analysis' = [states |-> Unreached(FunctionAt(Len(facts) + 2)), worklist |-> <<1>>]
      BY <2>7 DEF Analysis
    <3>3. Advances(Function, Analysis)'
      BY <2>1, <3>1, <3>2, StartAdvances, ProgramKept DEF Advances
    <3>4. \A i \in 1 .. Len(facts)' : FunctionIsClosed(FunctionAt(i))'
      BY <2>1, <2>4, <2>5, ProgramKept
    <3>5. \A i \in DOMAIN ClosureLayouts' : ClosureLayouts'[i].function \in DOMAIN program'.functions
      BY <2>1, <2>3 DEF ClosureLayouts
    <3>6. worklist' # <<>> /\ VerifiedIsClosed'
      BY <2>1, <2>7 DEF VerifiedIsClosed
    <3> QED BY <2>1, <2>4, <2>6, <2>7, <3>3, <3>4, <3>5, <3>6 DEF VerifierInv
  <2>8. CASE ~(Len(facts') < Len(program.functions)) /\ verdict' = "verified"
    <3>1. DOMAIN program.functions = 1 .. n /\ n \in Nat /\ IsSequence(program.functions)
      BY <2>3, <2>4, <2>8, SequenceDomain DEF IsModule
    <3>2. program.functions # <<>>
      BY <3>1, <2>4
    <3>3. \A i \in DOMAIN program.functions : FunctionIsClosed(FunctionAt(i))
      BY <2>5, <3>1
    <3>4. ModuleIsClosed
      BY <2>3, <3>1, <3>2, <3>3
         DEF ModuleIsClosed, IsModule, RecordLayouts, VariantLayouts, ClosureLayouts
    <3>5. ModuleIsClosed'
      <4>1. \A i \in DOMAIN program'.functions : FunctionIsClosed(FunctionAt(i))'
        BY <2>1, <3>3, ProgramKept
      <4> QED BY <2>1, <3>4, <4>1
              DEF ModuleIsClosed, RecordLayouts, VariantLayouts, ClosureLayouts
    <3> QED BY <2>6, <2>8, <3>5 DEF VerifierInv, VerifiedIsClosed
  <2> QED BY <2>1, <2>7, <2>8
<1> QED BY <1>1, <1>2

LEMMA VerifierInitHolds ==
  ASSUME VerifierInit PROVE VerifierInv
BY ProgramsAreModules DEF VerifierInit, VerifierInv, VerifiedIsClosed

LEMMA VerifierStepKeeps ==
  ASSUME VerifierInv, VerifierNext PROVE VerifierInv'
BY CheckModuleKeeps, VerifyInstructionKeeps, RejectMalformedKeeps, FinishFunctionKeeps
   DEF VerifierNext

(***************************************************************************)
(* The verifier and the machine together.                                  *)
(***************************************************************************)
\* The machine runs the module it was given and does not change it.
LEMMA MachineKeepsModule ==
  ASSUME VmNext PROVE UNCHANGED moduleVars
<1>1. CASE execute_verified \/ collect_at_instruction_boundary
  BY <1>1 DEF execute_verified, collect_at_instruction_boundary
<1>2. \A fs : Retired(fs) => UNCHANGED moduleVars
  BY DEF Retired
<1>3. \A n, v : Push(n, v) \/ PushNew(n, v) => UNCHANGED moduleVars
  BY <1>2 DEF Push, PushNew
<1>4. \A i : SetObjectField(i) => UNCHANGED moduleVars
  BY <1>2 DEF SetObjectField
<1>5. \A n, function, arguments, closure :
        push_frame(n, function, arguments, closure) => UNCHANGED moduleVars
  BY <1>2 DEF push_frame
<1>6. \A fs : Trapped(fs) => UNCHANGED moduleVars
  BY DEF Trapped
<1>7. CASE ExecuteKinds \/ StrIntern \/ BuilderAppend \/ PushNil \/ IsNil
  BY <1>2, <1>3, <1>7 DEF ExecuteKinds, StrIntern, BuilderAppend, PushNil, IsNil
<1>8. CASE \/ AllocPair \/ AllocRecord \/ AllocVariant \/ AllocWeak \/ AllocClosure
           \/ AllocRefArray \/ AllocMap \/ AllocEphemeron
  BY <1>3, <1>8 DEF AllocPair, AllocRecord, AllocVariant, AllocWeak, AllocClosure, AllocRefArray,
                    AllocMap, AllocEphemeron
<1>9. CASE \/ GetField \/ RecordGet \/ VariantTag \/ VariantGet \/ WeakGet \/ ArrayLen
           \/ RefArrayGet \/ MapHas \/ MapLen \/ MapRead \/ EphemeronKey \/ EphemeronValue
  BY <1>3, <1>9 DEF GetField, RecordGet, VariantTag, VariantGet, WeakGet, ArrayLen, RefArrayGet,
                    MapHas, MapLen, MapRead, EphemeronKey, EphemeronValue
<1>10. CASE SetField \/ RecordSet \/ RefArraySet \/ MapSet \/ EphemeronSetValue
  BY <1>2, <1>4, <1>10 DEF SetField, RecordSet, RefArraySet, MapSet, EphemeronSetValue
<1>11. CASE LoadCapture \/ LoadLocal \/ StoreLocal \/ Jump \/ JumpIfFalse \/ TryDelimiter \/ Collect
  BY <1>2, <1>3, <1>11 DEF LoadCapture, LoadLocal, StoreLocal, Jump, JumpIfFalse, TryDelimiter, Collect
<1>12. CASE Call \/ CallClosure \/ TailCall \/ Return
  BY <1>2, <1>5, <1>12 DEF Call, CallClosure, TailCall, Return
<1>13. CASE Throw \/ Catch \/ UnwindFrame \/ Uncaught \/ RuntimeTrap
  BY <1>6, <1>13 DEF Throw, Catch, UnwindFrame, Uncaught, RuntimeTrap
<1> QED BY <1>1, <1>7, <1>8, <1>9, <1>10, <1>11, <1>12, <1>13 DEF VmNext, ExecuteNext

\* What the verifier knows does not change while the machine runs, and the
\* machine does nothing while the verifier runs.
LEMMA SystemStepKeeps ==
  ASSUME VerifierInv, [Next]_vars PROVE VerifierInv'
<1>1. CASE UNCHANGED <<moduleVars, states, worklist>>
  <2>1. program' = program /\ facts' = facts /\ verdict' = verdict
        /\ states' = states /\ worklist' = worklist
    BY <1>1 DEF moduleVars
  <2>2. IsModule(program)' /\ VerifiedIsClosed'
    <3>1. ModuleIsClosed => ModuleIsClosed'
      <4>1. (\A i \in DOMAIN program.functions : FunctionIsClosed(FunctionAt(i))) =>
              \A i \in DOMAIN program'.functions : FunctionIsClosed(FunctionAt(i))'
        BY <2>1, ProgramKept
      <4> QED BY <2>1, <4>1
              DEF ModuleIsClosed, RecordLayouts, VariantLayouts, ClosureLayouts
    <3> QED BY <2>1, <3>1 DEF VerifierInv, VerifiedIsClosed, IsModule
  <2>3. CASE verdict = "verifying"
    <3>1. Function' = Function /\ Analysis' = Analysis
      BY <2>1 DEF Function, FunctionAt, Analysis
    <3>2. Advances(Function, Analysis)'
      BY <2>1, <2>3, <3>1, ProgramKept DEF VerifierInv, Advances
    <3>3. worklist' = <<>> => Contained(Function)'
      BY <2>1, <2>3, <3>1 DEF VerifierInv, Contained
    <3>4. \A i \in 1 .. Len(facts)' : FunctionIsClosed(FunctionAt(i))'
      BY <2>1, <2>3, ProgramKept DEF VerifierInv
    <3>5. \A i \in DOMAIN ClosureLayouts' : ClosureLayouts'[i].function \in DOMAIN program'.functions
      BY <2>1, <2>3 DEF VerifierInv, ClosureLayouts
    <3> QED BY <2>1, <2>2, <2>3, <3>2, <3>3, <3>4, <3>5 DEF VerifierInv
  <2>4. CASE verdict # "verifying"
    BY <2>1, <2>2, <2>4 DEF VerifierInv
  <2> QED BY <2>3, <2>4
<1>2. CASE VerifierNext
  BY <1>2, VerifierStepKeeps
<1>3. CASE VmNext /\ UNCHANGED <<states, worklist>>
  BY <1>1, <1>3, MachineKeepsModule
<1>4. CASE UNCHANGED vars
  BY <1>1, <1>4 DEF vars, verifierVars, moduleVars
<1> QED BY <1>2, <1>3, <1>4 DEF Next

\* Whatever modules the verifier is given, the ones it accepts are closed:
\* no instruction of theirs runs off the end of the code, jumps out of it,
\* calls a function that is not there or names a layout, a case or a field
\* that is not there (verify_function_with_stack_maps).
THEOREM VerifiedModulesAreClosed == Spec => []VerifiedIsClosed
<1>1. Init => VerifierInv
  BY VerifierInitHolds DEF Init
<1>2. VerifierInv /\ [Next]_vars => VerifierInv'
  BY SystemStepKeeps
<1>3. VerifierInv => VerifiedIsClosed
  BY DEF VerifierInv
<1> QED BY <1>1, <1>2, <1>3, PTL DEF Spec

\* Verifying a module and executing it is an execution of the machine alone
\* on a module that something verifies.
THEOREM SystemRunsTheMachine == Spec => VmSpec
<1>1. Init => VmInit
  BY DEF Init
<1>2. [Next]_vars => [VmNext \/ Prepare]_<<moduleVars, vmVars>>
  BY DEF Next, Prepare, vars, verifierVars, moduleVars
<1> QED BY <1>1, <1>2, PTL DEF Spec, VmSpec

\* Whatever modules are loaded and whenever collections happen, the machine
\* keeps its frames well formed (push_frame, reuse_frame_for_tail_call).
THEOREM SystemFramesAreTyped == Spec => []VmTypeOK
BY VerifiedModulesAreClosed, SystemRunsTheMachine, FramesAreTyped, PTL

\* Whatever modules are loaded and whenever collections happen, nothing the
\* machine can still name is reclaimed (trace_roots).
THEOREM SystemRootsAreKept == Spec => []RootsAreComplete
BY VerifiedModulesAreClosed, SystemRunsTheMachine, RootsAreKept, PTL

\* Whatever modules are loaded, no way out of execute_verified leaves an
\* incremental cycle active or an exception pending.
THEOREM SystemCyclesEndWithExecution == Spec => []NoCycleOutlivesExecution
BY VerifiedModulesAreClosed, SystemRunsTheMachine, CyclesEndWithExecution, PTL

=============================================================================
