--------------------------- MODULE AbstractValues ---------------------------
(***************************************************************************)
(* What the bytecode verifier knows about a value and about a frame:       *)
(* abstract values, the join of two frame states and what is read from a   *)
(* pair and from an array of references (src/bytecode.cpp, 312-592 and     *)
(* 1226-2013).                                                             *)
(***************************************************************************)
EXTENDS WellFormed

\* What recurses over types and values is a parameter (ValueDomain): that a
\* program's control stays in its code does not depend on it.
CONSTANTS
  DeclaredValue(_),        \* value_from_signature(type)
  JoinedValue(_, _),       \* join_values(a, b)
  ValueFits(_, _, _, _)    \* value_conforms_to_expected(state, v, expected, assumed)

value_with_kind(kind) ==
  [kind |-> kind,
   of |-> None,         \* named type, layout, or the parts of a map, ephemeron or function
   sites |-> {},        \* allocation sites a pair or a reference array may come from
   opaque |-> FALSE,    \* it may be a pair nothing is known about
   nil |-> FALSE,       \* it may be nil
   fields |-> None,     \* what a signature says of a pair's fields
   target |-> None,     \* what a weak or fetched weak reference names, an array holds
   from |-> None,       \* the local it was loaded from
   test |-> None]       \* the local whose nil test it is

Poison == value_with_kind("Poison")
nil_object_value == [value_with_kind("Object") EXCEPT !.nil = TRUE]
opaque_object_value == [value_with_kind("Object") EXCEPT !.opaque = TRUE]
object_value(site) == [value_with_kind("Object") EXCEPT !.sites = {site}]
ref_array_value(site) == [value_with_kind("RefArray") EXCEPT !.sites = {site}]
value_of(kind, of, nil) == [value_with_kind(kind) EXCEPT !.of = of, !.nil = nil]
record_value(layout, nil) == value_of("Record", layout, nil)
variant_value(layout, nil) == value_of("Variant", layout, nil)

is_poison(v) == v.kind = "Poison"

without_provenance(v) == [v EXCEPT !.from = None, !.test = None]

weak_value(target) ==
  [value_with_kind("Weak") EXCEPT !.target = without_provenance([target EXCEPT !.nil = FALSE])]
maybe_reference_value(target) ==
  [value_with_kind("MaybeReference") EXCEPT !.target = without_provenance(target)]

is_canonical_nil_object(v) ==
  v.kind = "Object" /\ v.nil /\ v.sites = {} /\ ~v.opaque /\ v.of = None /\ v.fields = None

(***************************************************************************)
(* Join.                                                                   *)
(***************************************************************************)
\* Elements of one array may be references of different kinds; then only
\* that they are references is known.
join_ref_array_element_values(a, b) ==
  LET joined == JoinedValue(a, b)
  IN  IF /\ is_poison(joined) /\ "Function" \notin {a.kind, b.kind}
         /\ is_reference_kind(a.kind) /\ is_reference_kind(b.kind)
      THEN opaque_object_value
      ELSE joined

(***************************************************************************)
(* Frame states.  kinds is the root category of a local, known even where  *)
(* the local is not definitely initialised; fields and elements are the    *)
(* facts about the pairs and the reference arrays allocated at a site of   *)
(* this function.                                                          *)
(***************************************************************************)
NoFacts == [site \in {} |-> <<>>]

JoinKind(a, b) ==
  CASE b = None -> a
    [] b # None /\ a \in {None, b} -> b
    [] OTHER -> "conflict"

\* Mutant: a local initialised on either path counts as initialised.
UnionLocal(a, b) ==
  IF a = None THEN b ELSE IF b = None THEN a ELSE JoinedValue(a, b)

JoinLocal(a, b) == IF a = None \/ b = None THEN None ELSE JoinedValue(a, b)

JoinSites(a, b, Join(_, _)) ==
  [s \in DOMAIN a \cup DOMAIN b |->
     IF s \notin DOMAIN a THEN b[s] ELSE IF s \notin DOMAIN b THEN a[s] ELSE Join(a[s], b[s])]

JoinFields(a, b) ==
  JoinSites(a, b, LAMBDA x, y : <<JoinedValue(x[1], y[1]), JoinedValue(x[2], y[2])>>)

\* None when the two states cannot meet.
join_state(a, b) ==
  LET kinds == [i \in DOMAIN a.kinds |-> JoinKind(a.kinds[i], b.kinds[i])]
  IN  IF Len(a.stack) # Len(b.stack) \/ "conflict" \in {kinds[i] : i \in DOMAIN kinds}
      THEN None
      ELSE [stack  |-> [i \in DOMAIN a.stack |-> JoinedValue(a.stack[i], b.stack[i])],
            locals |-> [i \in DOMAIN a.locals |-> JoinLocal(a.locals[i], b.locals[i])],
            kinds  |-> kinds,
            fields |-> JoinFields(a.fields, b.fields),
            elements |-> JoinSites(a.elements, b.elements, join_ref_array_element_values)]

(***************************************************************************)
(* What is read from a pair and from a reference array; Poison when the    *)
(* read must be rejected.  side is 1 for left and 2 for right.             *)
(***************************************************************************)
SiteFacts(v, fact) == LET sites == SetToSortSeq(v.sites, <)
                      IN  [i \in DOMAIN sites |-> fact[sites[i]]]

SignatureFacts(v, side) ==
  (IF v.fields = None THEN <<>> ELSE <<v.fields[side]>>) \o
  (IF v.of = None THEN <<>> ELSE <<DeclaredValue(NamedTypes[v.of]).fields[side]>>)

Merge(facts, Join(_, _)) ==
  IF facts = <<>> THEN Poison ELSE FoldLeft(Join, Head(facts), Tail(facts))

load_pair_field(state, v, side) ==
  IF v.nil \/ v.opaque \/ ~(v.sites \subseteq DOMAIN state.fields) THEN Poison
  ELSE Merge(SignatureFacts(v, side) \o
               SiteFacts(v, [s \in v.sites |-> state.fields[s][side]]), JoinedValue)

load_ref_array_element(state, v) ==
  IF ~(v.sites \subseteq DOMAIN state.elements) THEN Poison
  ELSE Merge((IF v.target = None THEN <<>> ELSE <<v.target>>) \o SiteFacts(v, state.elements),
             join_ref_array_element_values)

value_conforms_to_signature(state, v, type) ==
  ValueFits(state, v, DeclaredValue(type), {})
=============================================================================
