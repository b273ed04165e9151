---------------------------- MODULE ValueDomain -----------------------------
(***************************************************************************)
(* What the bytecode verifier computes by recursion over types and values: *)
(* well-formedness of a type, the value a type declares, the join of two   *)
(* values and conformance to an expected value (src/bytecode.cpp, 312-592, *)
(* 593-700 and 1226-1700).                                                 *)
(***************************************************************************)
EXTENDS AbstractValues, TypeParts

(***************************************************************************)
(* Well-formed types.                                                      *)
(***************************************************************************)
signature_shape_matches_kind(type) ==
  \A t \in Within(type) :
    CASE t.kind = "Record"  -> t.of \in DOMAIN RecordLayouts
      [] t.kind = "Variant" -> t.of \in DOMAIN VariantLayouts
      [] t.kind = "Named"   -> t.of \in DOMAIN NamedTypes
      [] t.kind = "Weak"    -> signature_value_is_reference(t.of[1])
      [] t.kind = "Ephemeron" -> signature_value_is_reference(t.of[1])
      [] OTHER -> TRUE

signature_has_invalid_map_key(type) ==
  \E t \in Within(type) : t.kind = "Map" /\ ~is_valid_map_key_type(t.of[1])

SignatureIsWellFormed(type) ==
  signature_shape_matches_kind(type) /\ ~signature_has_invalid_map_key(type)

(***************************************************************************)
(* The value a type declares.                                              *)
(***************************************************************************)
\* An array of references never holds nil.
RECURSIVE value_from_signature(_)
value_from_signature(type) ==
  CASE type.kind \in {"Record", "Variant"} -> value_of(type.kind, type.of, TRUE)
    [] type.kind \in {"Function", "Map", "Ephemeron"} -> value_of(type.kind, type.of, FALSE)
    [] type.kind = "Named" -> value_of("Object", type.of, TRUE)
    [] type.kind = "Pair" ->
         [value_with_kind("Object") EXCEPT
            !.fields = <<value_from_signature(type.of[1]), value_from_signature(type.of[2])>>]
    [] type.kind = "Weak" -> weak_value(value_from_signature(type.of[1]))
    [] type.kind = "Array" /\ signature_value_is_reference(type.of[1]) ->
         [value_with_kind("RefArray") EXCEPT
            !.target = [value_from_signature(type.of[1]) EXCEPT !.nil = FALSE]]
    [] type.kind = "Object" -> opaque_object_value
    [] OTHER -> value_with_kind(type.kind)

(***************************************************************************)
(* Join.                                                                   *)
(***************************************************************************)
SameProvenance(joined, a, b) ==
  [joined EXCEPT !.from = IF a.from = b.from THEN a.from ELSE None,
                 !.test = IF a.test = b.test THEN a.test ELSE None]

\* A detail only one of them has is kept.
Either(a, b) == IF a = None THEN b ELSE a

JoinName(a, b) == IF a = None \/ b = None \/ a = b THEN Either(a, b) ELSE None

RECURSIVE join_values(_, _)

JoinDetail(a, b) == IF a = None \/ b = None THEN Either(a, b) ELSE join_values(a, b)

JoinMaybe(maybe, target) ==
  LET joined == join_values(maybe.target, target)
  IN  IF is_poison(joined) THEN Poison ELSE maybe_reference_value(joined)

JoinPairs(a, b) ==
  [a EXCEPT !.sites = @ \cup b.sites, !.opaque = @ \/ b.opaque, !.nil = @ \/ b.nil,
            !.of = JoinName(@, b.of),
            !.fields = IF a.fields = None \/ b.fields = None THEN Either(a.fields, b.fields)
                       ELSE <<join_values(a.fields[1], b.fields[1]),
                              join_values(a.fields[2], b.fields[2])>>]

JoinTargets(a, b) ==
  LET joined == join_values(a.target, b.target)
  IN  IF is_poison(joined) THEN Poison ELSE SameProvenance([a EXCEPT !.target = joined], a, b)

JoinSameKind(a, b) ==
  CASE a.kind = "Object" -> SameProvenance(JoinPairs(a, b), a, b)
    [] a.kind = "RefArray" ->
         SameProvenance([a EXCEPT !.sites = @ \cup b.sites,
                                  !.target = JoinDetail(@, b.target)], a, b)
    [] a.kind \in {"Weak", "MaybeReference"} -> JoinTargets(a, b)
    [] OTHER -> IF a.of = b.of THEN SameProvenance([a EXCEPT !.nil = @ \/ b.nil], a, b) ELSE Poison

join_values(a, b) ==
  LET names(m, t) == IF m.kind = "MaybeReference" THEN m.target.kind = t.kind ELSE FALSE
      nominal == {"Record", "Variant"}
  IN  CASE names(a, b) -> JoinMaybe(a, b)
        [] ~names(a, b) /\ names(b, a) -> JoinMaybe(b, a)
        [] a.kind \in nominal /\ is_canonical_nil_object(b) ->
             SameProvenance([a EXCEPT !.nil = TRUE], a, b)
        [] b.kind \in nominal /\ is_canonical_nil_object(a) ->
             SameProvenance([b EXCEPT !.nil = TRUE], a, b)
        [] a.kind = b.kind /\ ~is_poison(a) /\ ~names(a, b) /\ ~names(b, a) -> JoinSameKind(a, b)
        [] OTHER -> Poison

(***************************************************************************)
(* Conformance.  Against a named type it is coinductive: an obligation     *)
(* that is already being discharged is assumed.                            *)
(***************************************************************************)
RECURSIVE value_conforms_to_expected(_, _, _, _)

ElementsConform(state, v, element, assumed) ==
  /\ v.target # None \/ v.sites # {}
  /\ v.target # None => value_conforms_to_expected(state, v.target, element, assumed)
  /\ \A site \in v.sites :
       /\ site \in DOMAIN state.elements
       /\ value_conforms_to_expected(state, state.elements[site], element, assumed)

FieldsConform(state, v, fields, assumed) ==
  /\ ~v.nil
  /\ fields # None => \A side \in {1, 2} :
       value_conforms_to_expected(state, load_pair_field(state, v, side), fields[side], assumed)

NameConforms(state, v, name, assumed) ==
  LET shape == <<v.sites, v.opaque, v.fields, v.of, name>>
  IN  IF ~v.opaque /\ v.sites = {} /\ v.of = None /\ v.fields = None THEN v.nil
      ELSE shape \in assumed \/
           FieldsConform(state, [v EXCEPT !.nil = FALSE],
                         value_from_signature(NamedTypes[name]).fields, assumed \cup {shape})

value_conforms_to_expected(state, v, expected, assumed) ==
  CASE is_poison(v) \/ is_poison(expected) -> FALSE
    [] expected.kind = "Nil" /\ is_canonical_nil_object(v) -> TRUE
    [] expected.kind \in {"Record", "Variant"} /\ is_canonical_nil_object(v) -> expected.nil
    [] v.kind = "MaybeReference" /\ expected.kind = "Object" /\ expected.of # None ->
         value_conforms_to_expected(state, v.target, expected, assumed)
    [] v.kind = "RefArray" /\ expected.kind = "Object" ->
         ~expected.nil /\ expected.of = None /\ expected.fields = None
    [] v.kind = expected.kind /\ v.kind = "Weak" ->
         value_conforms_to_expected(state, v.target, expected.target, assumed)
    [] v.kind = expected.kind /\ v.kind = "RefArray" ->
         expected.target = None \/ ElementsConform(state, v, expected.target, assumed)
    [] v.kind = expected.kind /\ v.kind = "Object" ->
         IF expected.of # None THEN NameConforms(state, v, expected.of, assumed)
         ELSE FieldsConform(state, v, expected.fields, assumed)
    [] v.kind = expected.kind /\ v.kind \notin {"Weak", "RefArray", "Object"} ->
         v.of = expected.of /\ (v.nil => expected.nil)
    [] OTHER -> FALSE
=============================================================================
