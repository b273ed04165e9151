------------------------------ MODULE Bytecode ------------------------------
(***************************************************************************)
(* The bytecode of include/lang/bytecode.hpp: instructions, functions and  *)
(* the module's layout tables.                                             *)
(*                                                                         *)
(* Reference bitmaps are derived from the types, and layouts are told      *)
(* apart by their position.  Program counters start at 1.                  *)
(***************************************************************************)
EXTENDS Types, Instructions

VARIABLE program   \* the module: its functions and its tables

FunctionAt(i)    == program.functions[i]
NamedTypes       == program.named_types       \* body of each named pair type
RecordLayouts    == program.record_layouts    \* field types of each record
VariantLayouts   == program.variant_layouts   \* field types of each case of each variant
MapLayouts       == program.map_layouts       \* <<key type, value type>>
EphemeronLayouts == program.ephemeron_layouts \* <<key type, value type>>
ClosureLayouts   == program.closure_layouts   \* [function, captures]

(***************************************************************************)
(* Instructions.                                                           *)
(***************************************************************************)
ReferenceKinds == {"Object", "Array", "RefArray", "Str", "Function", "Map", "Weak",
                   "MaybeReference", "Record", "Variant", "Ephemeron", "Builder"}
is_reference_kind(kind) == kind \in ReferenceKinds

\* Operand and result kinds of the instructions that only look at kinds,
\* the deepest operand first.
Signature(pops, push) == [pops |-> pops, push |-> push]
NumberOps == [
  ConstantI64 |-> Signature(<<>>, <<"Int64">>),
  AddI64      |-> Signature(<<"Int64", "Int64">>, <<"Int64">>),
  I64Abs      |-> Signature(<<"Int64">>, <<"Int64">>),
  LessI64     |-> Signature(<<"Int64", "Int64">>, <<"Bool">>)]
StringOps == [
  PushStr   |-> Signature(<<>>, <<"Str">>),
  StrLen    |-> Signature(<<"Str">>, <<"Int64">>),
  StrEq     |-> Signature(<<"Str", "Str">>, <<"Bool">>),
  StrConcat |-> Signature(<<"Str", "Str">>, <<"Str">>),
  StrIntern |-> Signature(<<"Str">>, <<"Str">>),
  StrSub    |-> Signature(<<"Str", "Int64", "Int64">>, <<"Str">>),
  StrLt     |-> Signature(<<"Str", "Str">>, <<"Bool">>),
  StrIndex  |-> Signature(<<"Str", "Int64">>, <<"Int64">>)]
ConversionOps == [
  PrintStr  |-> Signature(<<"Str">>, <<>>),
  I64ToStr  |-> Signature(<<"Int64">>, <<"Str">>),
  StrToI64  |-> Signature(<<"Str">>, <<"Int64">>),
  BoolToStr |-> Signature(<<"Bool">>, <<"Str">>)]
BuilderOps == [
  AllocBuilder  |-> Signature(<<>>, <<"Builder">>),
  BuilderAppend |-> Signature(<<"Builder", "Str">>, <<>>),
  BuilderLen    |-> Signature(<<"Builder">>, <<"Int64">>),
  BuilderToStr  |-> Signature(<<"Builder">>, <<"Str">>),
  BuilderClear  |-> Signature(<<"Builder">>, <<>>)]
ArrayOps == [
  AllocArray |-> Signature(<<"Int64", "Int64">>, <<"Array">>),
  ArrayGet   |-> Signature(<<"Array", "Int64">>, <<"Int64">>),
  ArraySet   |-> Signature(<<"Array", "Int64", "Int64">>, <<>>)]

KindOps == DOMAIN NumberOps \cup DOMAIN StringOps \cup DOMAIN ConversionOps
             \cup DOMAIN BuilderOps \cup DOMAIN ArrayOps

KindSignature(op) ==
  CASE op \in DOMAIN NumberOps     -> NumberOps[op]
    [] op \in DOMAIN StringOps     -> StringOps[op]
    [] op \in DOMAIN ConversionOps -> ConversionOps[op]
    [] op \in DOMAIN BuilderOps    -> BuilderOps[op]
    [] op \in DOMAIN ArrayOps      -> ArrayOps[op]

(***************************************************************************)
(* Exception regions.                                                      *)
(***************************************************************************)
Encloses(handler, pc) == handler.try_begin < pc /\ pc < handler.try_end

Innermost(handlers) ==
  IF handlers = {} THEN None
  ELSE CHOOSE h \in handlers : \A g \in handlers : g.try_begin <= h.try_begin

\* The innermost region around pc, whatever it catches.
enclosing_handler(function, pc) ==
  Innermost({h \in {function.handlers[i] : i \in DOMAIN function.handlers} : Encloses(h, pc)})

\* The innermost region around pc that catches this layout.
handler_for(function, pc, layout) ==
  Innermost({h \in {function.handlers[i] : i \in DOMAIN function.handlers} :
               Encloses(h, pc) /\ h.layout = layout})
=============================================================================
