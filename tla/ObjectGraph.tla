----------------------------- MODULE ObjectGraph -----------------------------
(***************************************************************************)
(* What lang::gc::Heap promises to a mutator: a graph of objects that have *)
(* a permanent identity and never move.  Names are never used twice.       *)
(* Storage, generations, ages, barriers and cycles do not exist here.      *)
(*                                                                         *)
(* Any step may also reclaim garbage: names that are not reachable from    *)
(* the roots.  A weak target is cleared exactly when its object goes, an   *)
(* ephemeron exactly when its key goes, and a canonical string leaves the  *)
(* intern table exactly when it goes.                                      *)
(***************************************************************************)
EXTENDS Integers, Sequences, FiniteSets

CONSTANTS
  Nil,     \* no reference
  Roots    \* the mutator's reference slots

VARIABLES
  root,      \* Roots -> name or Nil
  graph,     \* name -> [kind, strong, soft, text]
  interned,  \* the names of the canonical strings
  next       \* the next name

gvars == <<root, graph, interned, next>>

\* Steps are relations between the state before, s, and the state after, t;
\* binding them once in Next keeps the refinement mapping cheap to evaluate.
State == [root |-> root, graph |-> graph, interned |-> interned, next |-> next]

Held(r) == {r[c] : c \in Roots} \ {Nil}
Edges(node) == {node.strong[i] : i \in DOMAIN node.strong} \ {Nil}

\* What a set of names must contain to keep every held object usable: an
\* ephemeron keeps its value only together with its key.
KeepsReachable(r, g, S) ==
  /\ Held(r) \subseteq S
  /\ \A n \in S : Edges(g[n]) \subseteq S
  /\ \A n \in S : /\ g[n].kind = "Ephemeron"
                  /\ g[n].soft[1] \in S
                  /\ g[n].soft[2] # Nil
                  => g[n].soft[2] \in S

Reachable(r, g) ==
  {n \in DOMAIN g : \A S \in SUBSET DOMAIN g : KeepsReachable(r, g, S) => n \in S}

SoftWithout(node, gone) ==
  CASE node.kind = "WeakRef" /\ node.soft[1] \in gone   -> <<Nil>>
    [] node.kind = "Ephemeron" /\ node.soft[1] \in gone -> <<Nil, Nil>>
    [] OTHER                                            -> node.soft

\* The step reaches the roots r, the graph g and the intern table i, less
\* some garbage.
Installs(t, r, g, i) ==
  LET gone == DOMAIN g \ DOMAIN t.graph
  IN  /\ t.root = r
      /\ t.interned = i \ gone
      /\ t.graph = [n \in DOMAIN g \ gone |-> [g[n] EXCEPT !.soft = SoftWithout(g[n], gone)]]
      /\ \A n \in gone : n \notin Reachable(r, g)

References(s) == Held(s.root) \cup {Nil}

With(g, n, node) == [m \in DOMAIN g \cup {n} |-> IF m = n THEN node ELSE g[m]]

Init ==
  /\ root = [c \in Roots |-> Nil]
  /\ graph = <<>>
  /\ interned = {}
  /\ next = 0

Reclaim(s, t) == t.next = s.next /\ Installs(t, s.root, s.graph, s.interned)

\* A reference comes from a root or from a field of an object that is held;
\* a weak target or ephemeron value obtained here is held again.
Load(s, t) ==
  /\ t.next = s.next
  /\ \E c \in Roots, n \in Held(s.root) :
       \E v \in References(s) \cup Edges(s.graph[n]) \cup
                {s.graph[n].soft[i] : i \in DOMAIN s.graph[n].soft} :
         Installs(t, [s.root EXCEPT ![c] = v], s.graph, s.interned)

\* A new object refers to objects the mutator holds.
New(s, t) ==
  /\ t.next = s.next + 1
  /\ s.next \in DOMAIN t.graph
  /\ \E c \in Roots,
        strong \in [DOMAIN t.graph[s.next].strong -> References(s)],
        soft \in [DOMAIN t.graph[s.next].soft -> References(s)] :
       Installs(t, [s.root EXCEPT ![c] = s.next],
                With(s.graph, s.next,
                     [t.graph[s.next] EXCEPT !.strong = strong, !.soft = soft]),
                s.interned)

\* Array elements are replaced, a builder is cleared or extended by a string
\* that is held, and everything else keeps its bytes.
NewTexts(s, t, n) ==
  CASE s.graph[n].kind = "ScalarArray" -> {t.graph[n].text}
    [] s.graph[n].kind = "Builder"     ->
         {<<>>} \cup {s.graph[n].text \o s.graph[m].text :
                       m \in {k \in Held(s.root) : s.graph[k].kind = "Str"}}
    [] OTHER                           -> {s.graph[n].text}

\* A reference field, the next map entry, the value of an ephemeron or the
\* scalar payload of a held object changes.
Store(s, t) ==
  /\ t.next = s.next
  /\ \E n \in Held(s.root) :
       LET node == s.graph[n]
           refs == References(s)
       IN  \E changed \in
             {[node EXCEPT !.strong[i] = v] : i \in DOMAIN node.strong, v \in refs} \cup
             {[node EXCEPT !.strong = @ \o entry] : entry \in refs \X refs} \cup
             {[node EXCEPT !.soft = <<@[1], v>>] :
                v \in IF node.kind = "Ephemeron" THEN refs ELSE {}} \cup
             {[node EXCEPT !.text = text] : text \in NewTexts(s, t, n)} :
             Installs(t, s.root, With(s.graph, n, changed), s.interned)

\* Equal contents have one canonical object for as long as it exists.
InternHit(s, t) ==
  /\ t.next = s.next
  /\ \E c \in Roots, source \in Held(s.root), n \in s.interned :
       /\ s.graph[n].text = s.graph[source].text
       /\ Installs(t, [s.root EXCEPT ![c] = n], s.graph, s.interned)

InternMiss(s, t) ==
  /\ t.next = s.next + 1
  /\ \E c \in Roots, source \in Held(s.root) :
       /\ \A n \in s.interned : s.graph[n].text # s.graph[source].text
       /\ Installs(t, [s.root EXCEPT ![c] = s.next],
                   With(s.graph, s.next,
                        [kind |-> "Str", strong |-> <<>>, soft |-> <<>>,
                         text |-> s.graph[source].text]),
                   s.interned \cup {s.next})

Next ==
  \E s \in {State}, t \in {State'} :
     \/ Reclaim(s, t) \/ Load(s, t) \/ New(s, t) \/ Store(s, t)
     \/ InternHit(s, t) \/ InternMiss(s, t)

Spec == Init /\ [][Next]_gvars

=============================================================================
