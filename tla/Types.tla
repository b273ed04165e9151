------------------------------- MODULE Types --------------------------------
(***************************************************************************)
(* Types, as the frontend writes them (TypeSpec, src/frontend/parser.hpp)  *)
(* and as a module carries them (SignatureValue, include/lang/             *)
(* bytecode.hpp): a kind and what it refers to.  A named pair type, a      *)
(* record or a variant refers to its position in the module's tables, a    *)
(* function to <<parameters, result>>, the others to their parts.          *)
(*                                                                         *)
(* Source declarations also hold nominal types by name, not resolved yet,  *)
(* and type parameters; a nil literal and an expression without a type     *)
(* have kinds of their own.                                                *)
(*                                                                         *)
(* What a kind refers to has a shape that depends on the kind.  TLC        *)
(* compares records field by field in the order in which it met their      *)
(* names, and must compare kinds first: kind is written before of, here    *)
(* and wherever a record has both.                                         *)
(***************************************************************************)
EXTENDS Integers, Sequences, FiniteSets, SequencesExt

CONSTANT None      \* absent: no detail, no local, no state

Type(kind, of) == [kind |-> kind, of |-> of]
Int64   == Type("Int64", None)
Bool    == Type("Bool", None)
Str     == Type("Str", None)
Builder == Type("Builder", None)
AnyPair == Type("Object", None)
NamedPair(name)        == Type("Named", name)
PairOf(left, right)    == Type("Pair", <<left, right>>)
RecordOf(layout)       == Type("Record", layout)
VariantOf(layout)      == Type("Variant", layout)
ArrayOf(type)          == Type("Array", <<type>>)
WeakOf(type)           == Type("Weak", <<type>>)
MapOf(key, value)      == Type("Map", <<key, value>>)
EphemeronOf(key, value) == Type("Ephemeron", <<key, value>>)
FunctionOf(ps, result) == Type("Function", Append(ps, result))

NilType == Type("Nil", None)
Invalid == Type("Invalid", None)
Nominal(name, args) == Type("Nominal", [name |-> name, args |-> args])
Parameter(i)        == Type("Parameter", i)
Tuple(types)        == Type("Tuple", types)

signature_value_is_reference(type) == type.kind \notin {"Int64", "Bool"}
is_valid_map_key_type(type) == type.kind \in {"Int64", "Bool", "Str"}

Parts(type) ==
  CASE type.kind \in {"Array", "Weak", "Pair", "Map", "Ephemeron", "Function", "Tuple"} -> type.of
    [] type.kind = "Nominal" -> type.of.args
    [] OTHER                 -> <<>>

\* The same type with other parts.
WithParts(type, parts) ==
  CASE type.kind \in {"Array", "Weak", "Pair", "Map", "Ephemeron", "Function", "Tuple"} ->
         Type(type.kind, parts)
    [] type.kind = "Nominal" -> Nominal(type.of.name, parts)
    [] OTHER                 -> type

\* A function type's parameters and its result.
ParametersOf(type) == Front(type.of)
ResultOf(type)     == Last(type.of)
=============================================================================
