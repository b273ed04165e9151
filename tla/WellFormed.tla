----------------------------- MODULE WellFormed -----------------------------
(***************************************************************************)
(* What makes a module well formed before its code is looked at            *)
(* (src/bytecode.cpp, 593-1172).                                           *)
(***************************************************************************)
EXTENDS Bytecode

CONSTANT TypeIsWellFormed(_)   \* every part of a type is well formed (ValueDomain)

(***************************************************************************)
(* Well-formed tables.                                                     *)
(***************************************************************************)
FieldTypes(layouts) == UNION {ToSet(layouts[i]) : i \in DOMAIN layouts}

ClosureIsWellFormed(i) ==
  /\ ClosureLayouts[i].function \in DOMAIN program.functions
  /\ FunctionAt(ClosureLayouts[i].function).closure = i
  /\ \A type \in ToSet(ClosureLayouts[i].captures) : TypeIsWellFormed(type)

ModuleIsWellFormed ==
  /\ program.functions # <<>>
  /\ \A type \in FieldTypes(RecordLayouts) : TypeIsWellFormed(type)
  /\ \A i \in DOMAIN VariantLayouts :
       /\ VariantLayouts[i] # <<>>
       /\ \A type \in FieldTypes(VariantLayouts[i]) : TypeIsWellFormed(type)
  /\ \A i \in DOMAIN MapLayouts :
       /\ is_valid_map_key_type(MapLayouts[i][1])
       /\ \A type \in ToSet(MapLayouts[i]) : TypeIsWellFormed(type)
  /\ \A i \in DOMAIN EphemeronLayouts :
       /\ signature_value_is_reference(EphemeronLayouts[i][1])
       /\ \A type \in ToSet(EphemeronLayouts[i]) : TypeIsWellFormed(type)
  /\ \A i \in DOMAIN NamedTypes : NamedTypes[i].kind = "Pair" /\ TypeIsWellFormed(NamedTypes[i])
  /\ \A i \in DOMAIN ClosureLayouts : ClosureIsWellFormed(i)
  /\ \A i \in DOMAIN program.functions :
       LET f == FunctionAt(i)
       IN  /\ \A type \in ToSet(f.params) \cup {f.result} : TypeIsWellFormed(type)
           /\ f.closure # None =>
                /\ f.closure \in DOMAIN ClosureLayouts
                /\ ClosureLayouts[f.closure].function = i
                /\ i = 1 => ClosureLayouts[f.closure].captures = <<>>

(***************************************************************************)
(* Exception regions and functions.                                        *)
(***************************************************************************)
HandlerIsWellFormed(function, i) ==
  LET h == function.handlers[i]
      n == Len(function.code)
      delimits(pc, op) == function.code[pc].op = op /\ function.code[pc].a = i
  IN  /\ h.try_begin < h.try_end /\ h.try_end < h.target /\ h.target <= n
      /\ h.layout \in DOMAIN VariantLayouts
      /\ delimits(h.try_begin, "TryBegin") /\ delimits(h.try_end, "TryEnd")
      /\ \A j \in 1 .. i - 1 :
           LET other == function.handlers[j]
           IN  /\ ~(/\ other.try_begin < h.try_begin /\ h.try_begin < other.try_end
                    /\ other.try_end < h.try_end)
               /\ other.target # h.target

FunctionIsWellFormed(function) ==
  /\ function.code # <<>>
  /\ Len(function.params) <= function.locals
  /\ \A i \in DOMAIN function.handlers : HandlerIsWellFormed(function, i)
=============================================================================
