-------------------------------- MODULE MCVm --------------------------------
(***************************************************************************)
(* Programs for Vm, in families: a skeleton whose holes range over a few   *)
(* instructions each.  The verifier rejects many members of a family; the  *)
(* others run under every collection schedule.                             *)
(***************************************************************************)
EXTENDS VmProperties, ValueDomain

\* The operators of the code.
MCWellFormed(type) == SignatureIsWellFormed(type)
MCDeclared(type) == value_from_signature(type)
MCJoined(a, b) == join_values(a, b)
MCFits(state, v, expected, assumed) == value_conforms_to_expected(state, v, expected, assumed)

\* Named types List = pair<i64, List>, Text = pair<str, Text> and
\* Nest = pair<List, Nest>; a record {i64, List} and a record {str}; a
\* variant A with an empty and a full case, a variant B; a map and an
\* ephemeron; a closure over a List.
Module(functions) ==
  [functions         |-> functions,
   named_types       |-> <<PairOf(Int64, NamedPair(1)), PairOf(Str, NamedPair(2)), PairOf(NamedPair(1), NamedPair(3))>>,
   record_layouts    |-> <<<<Int64, NamedPair(1)>>, <<Str>>>>,
   variant_layouts   |-> <<<<<<>>, <<Int64, RecordOf(1)>>>>, <<<<>>>>>>,
   map_layouts       |-> <<<<Str, NamedPair(1)>>>>,
   ephemeron_layouts |-> <<<<NamedPair(1), Str>>>>,
   closure_layouts   |-> <<>>]
WithClosure(functions) ==
  [Module(functions) EXCEPT !.closure_layouts = <<[function |-> 2, captures |-> <<NamedPair(1)>>]>>]
List == NamedPair(1)
A == 1
B == 2

Body(params, result, locals, code) ==
  [params |-> params, result |-> result, locals |-> locals, code |-> code,
   handlers |-> <<>>, closure |-> None]
Main(locals, code) == Body(<<>>, Int64, locals, code)
WithHandlers(function, handlers) == [function EXCEPT !.handlers = handlers]
Region(begin, end, target, layout) ==
  [try_begin |-> begin, try_end |-> end, target |-> target, layout |-> layout]

\* () -> List, a fresh one.
NewList == Body(<<>>, List, 0, <<Const, I("Nil"), I("AllocPair"), I("Return")>>)

\* () -> Text and () -> Nest, fresh ones, and (Text) -> i64, how long its
\* first element is.
NewText == Body(<<>>, NamedPair(2), 0, <<I("PushStr"), I("Nil"), I("AllocPair"), I("Return")>>)
NewNest == Body(<<>>, NamedPair(3), 0,
                <<Const, I("Nil"), I("AllocPair"), I("Nil"), I("AllocPair"), I("Return")>>)
FirstLength ==
  Body(<<NamedPair(2)>>, Int64, 1, <<Load(1), I("IsNil"), I1("JumpIfFalse", 6), Const, I("Return"),
                                     Load(1), I1("GetField", 1), I("StrLen"), I("Return")>>)
NoList == Body(<<>>, List, 0, <<I("Nil"), I("Return")>>)

\* () -> i64 that throws the empty case of a variant.
Thrower(variant) == Body(<<>>, Int64, 0, <<I2("AllocVariant", variant, 1), I("Throw")>>)

(***************************************************************************)
(* A nil test that branches forward or loops, and reads after it.          *)
(***************************************************************************)
Branches ==
  {Module(<<Main(2, <<Const, I("Nil"), I("AllocPair"), Store(1), second, Store(2),
               Load(i), I("IsNil"), I1("JumpIfFalse", 13),
               inNil, Store(j), I1("Jump", t),
               Load(k), use, Store(m),
               Const, I("Return")>>), NewList>>) :
     second \in {I("Nil"), Load(1), Const, I1("Call", 2)},
     i \in {1, 2}, inNil \in {Const, Load(1), I("Nil")}, j \in {1, 2},
     t \in {7, 13, 16}, k \in {1, 2},
     use \in {I1("GetField", 1), I1("GetField", 2), I("IsNil")}, m \in {1, 2}}

(***************************************************************************)
(* Two pairs, a store into one of them and a chain of two reads.           *)
(***************************************************************************)
PairStores ==
  {Module(<<Main(2, <<Const, I("Nil"), I("AllocPair"), Store(1),
               Const, field, I("AllocPair"), Store(2),
               Load(i), v, I1("SetField", side), I("Collect"),
               Load(2), I1("GetField", 2), use, Store(1), Const, I("Return")>>)>>) :
     field \in {I("Nil"), Load(1), Const, I("PushStr")}, i \in {1, 2},
     v \in {Load(1), Load(2), Const, I("Nil")}, side \in {1, 2},
     use \in {I1("GetField", 1), I1("GetField", 2), I("IsNil")}}

(***************************************************************************)
(* One region around a call that may throw with an operand below it.       *)
(***************************************************************************)
Regions ==
  {Module(<<WithHandlers(
       Main(2, <<Const, Store(1), I1("TryBegin", 1), v, Store(i), Const, I1("Call", callee),
                 I("AddI64"), Store(1), I1("TryEnd", 1), I1("Jump", 13),
                 Store(j), Const, I("Return")>>),
       <<Region(3, 10, 12, layout)>>), Thrower(A), Thrower(B), Main(0, <<Const, I("Return")>>)>>) :
     v \in {Const, I("Nil"), I("PushStr")}, i \in {1, 2}, callee \in {2, 3, 4},
     j \in {1, 2}, layout \in {A, B}}

\* A throw between nested regions, in the inner or in the outer one.
NestedThrows ==
  {Module(<<WithHandlers(
       Main(2, <<I1("TryBegin", 1), I1("TryBegin", 2), v, Store(1),
                 Load(1), I("IsNil"), I1("JumpIfFalse", 10),
                 I2("AllocVariant", thrown, 1), I("Throw"),
                 I1("TryEnd", 2), Const, I1("TryEnd", 1), I("Return"),
                 Store(i), Const, I("Return"),
                 Store(j), Const, I("Return")>>),
       <<Region(1, 12, 17, outer), Region(2, 10, 14, inner)>>)>>) :
     v \in {I("Nil"), I2("AllocVariant", B, 1), I("PushStr")}, thrown \in {A, B},
     i \in {1, 2}, j \in {1, 2}, outer \in {A, B}, inner \in {A, B}}

(***************************************************************************)
(* Records, variants and weak references.                                  *)
(***************************************************************************)
Records ==
  {Module(<<Main(2, <<Const, I1("Call", 2), I1("AllocRecord", 1), Store(1),
               Load(1), v, I2("RecordSet", 1, n), I("Collect"),
               Load(1), I2("RecordGet", 1, 2), Store(2),
               Load(2), I("IsNil"), I1("JumpIfFalse", 16 + Len(ifNil))>> \o
             ifNil \o <<I("Return")>> \o otherwise \o <<I("Return")>>), NewList>>) :
     v \in {Const, I("Nil"), I1("Call", 2)}, n \in {1, 2},
     ifNil \in {<<Const>>, <<Load(2), I1("GetField", 1)>>},
     otherwise \in {<<Const>>, <<Load(2), I1("GetField", 1)>>,
                    <<Load(2), I1("GetField", 2), Store(1), Const>>}}

Variants ==
  {Module(<<Main(2, <<Const, I("Nil"), I2("AllocVariant", A, made), Store(1),
               Load(1), I("VariantTag"), Store(2), I("Collect"),
               Load(1), I3("VariantGet", layout, read, 2), Store(1), Const, I("Return")>>)>>) :
     made \in {1, 2}, layout \in {A, B}, read \in {1, 2}}

Weaks ==
  {Module(<<Main(3, <<Const, I("Nil"), I("AllocPair"), Store(1), Load(1), I("AllocWeak"), Store(2),
               kept, Store(1), I("Collect"), Load(2), I("WeakGet"), Store(3),
               Load(tested), I("IsNil"), I1("JumpIfFalse", 19), Const, I("Return"),
               Load(3), I1("GetField", 2), Store(1), Const, I("Return")>>)>>) :
     kept \in {I("Nil"), Load(1), Const}, tested \in {1, 3}}

(***************************************************************************)
(* Arrays of references, maps and ephemerons.                              *)
(***************************************************************************)
NewRecord == <<Const, I1("Call", 2), I1("AllocRecord", 1)>>
RefArrays ==
  {Module(<<Main(2, <<Const>> \o init \o <<I("AllocRefArray"), Store(1), Load(1), Const>> \o
                    stored \o <<I("RefArraySet"), I("Collect"), Load(1), I("ArrayLen"), Store(2),
                                 Load(1), Const, I("RefArrayGet"), use, Store(2), Const, I("Return")>>),
            NewList>>) :
     init \in {<<I("PushStr")>>, NewRecord, <<I("Nil")>>},
     stored \in {<<I("PushStr")>>, NewRecord, <<I1("Call", 2)>>},
     use \in {I("StrLen"), I2("RecordGet", 1, 1), I("IsNil")}}

\* What a map gives back is nil, a list, or a trap.
Maps ==
  {Module(<<Main(2, <<I1("AllocMap", 1), Store(1), Load(1), I("PushStr"), v, I("MapSet"),
                      Load(1), I("PushStr"), I("MapHas"), I("BoolToStr"), I("PrintStr"), I("Collect"),
                      Load(1)>> \o read \o <<Store(2), Load(2), I("IsNil"), I1("JumpIfFalse", 23),
                      Load(1), I("MapLen"), I("Return"), Load(2), use, I("Return")>>), NewList>>) :
     v \in {I("Nil"), I1("Call", 2), I("PushStr")},
     read \in {<<I("PushStr"), I("MapGet")>>, <<Const, I("MapGet")>>,
               <<Const, I("MapKeyAt")>>, <<Const, I("MapValueAt")>>},
     use \in {I1("GetField", 1), I("StrLen")}}

\* The key is kept or dropped before the collection.
Ephemerons ==
  {Module(<<Main(3, <<Const, I("Nil"), I("AllocPair"), Store(1), Load(1), I("PushStr"),
                      I1("AllocEphemeron", 1), Store(2), kept, Store(1), I("Collect")>> \o
                    between \o
                    <<Load(2), I(read), Store(3), Load(3), I("IsNil"),
                      I1("JumpIfFalse", 20 + Len(between)), Const, I("Return"),
                      Load(3)>> \o use \o <<I("Return")>>)>>) :
     kept \in {I("Nil"), Load(1)}, read \in {"EphemeronKey", "EphemeronValue"},
     between \in {<<>>, <<Load(2), I("PushStr"), I("EphemeronSetValue")>>,
                  <<Load(2), I("Nil"), I("EphemeronSetValue")>>},
     use \in {<<I1("GetField", 1)>>, <<I("StrLen")>>, <<I("IsNil"), I("BoolToStr"), I("StrLen")>>}}

(***************************************************************************)
(* Closures, tail calls and the call depth.                                *)
(***************************************************************************)
\* (List) -> i64 that walks the list with tail calls to the function callee.
Walk(callee) ==
  Body(<<List>>, Int64, 2, <<Load(1), I("IsNil"), I1("JumpIfFalse", 6), Const, I("Return"),
                             Load(1), I1("GetField", 2), I1("TailCall", callee)>>)
\* The closure's body, with or without a tail call of its own.
Captured == Body(<<Int64>>, Int64, 2,
                 <<I("Collect"), I1("LoadCapture", 1), Store(2), Load(2), I("IsNil"),
                   I1("JumpIfFalse", 9), Const, I("Return"), Load(2), I1("GetField", 1), I("Return")>>)
CapturedTail == Body(<<Int64>>, Int64, 1, <<I1("LoadCapture", 1), I1("TailCall", 4)>>)
Closures ==
  {WithClosure(<<Main(0, <<Const, I1("Call", 3), I1("AllocClosure", 1), call, I("Return")>>),
     [body EXCEPT !.closure = 1], NewList, Walk(4)>>) :
     call \in {I("CallClosure"), I1("Call", 2)}, body \in {Captured, CapturedTail}}

TailCalls ==
  {Module(<<Main(0, <<argument, I1("TailCall", 2)>>), Walk(2), NewList>>) :
     argument \in {I("Nil"), I1("Call", 3), Const}}

Recursion == {Module(<<Main(0, <<I1("Call", 1), I("Return")>>)>>)}

(***************************************************************************)
(* The instructions that only look at kinds.                               *)
(***************************************************************************)
Texts ==
  {Module(<<Main(2, <<I("PushStr"), I("StrIntern"), Store(1), I("PushStr"), I("StrIntern"), Store(2),
               Load(1), Load(2), compare, I("BoolToStr"), I("PrintStr"),
               Load(1), Const, Const, I("StrSub"), I("StrToI64"), I("I64ToStr"), Const,
               I("StrIndex"), I("Return")>>)>>) :
     compare \in {I("StrEq"), I("StrLt"), I("StrLen")}}
Buffers ==
  {Module(<<Main(2, <<I("AllocBuilder"), Store(1), Load(1), I("PushStr"), I("BuilderAppend"),
               Load(1), I("BuilderToStr"), Load(1), I("BuilderClear"), I("PushStr"), I("StrConcat"),
               Store(1), Const, Const, I("AllocArray"), Store(2),
               Load(2), Const, Load(2), I("ArrayLen"), I("ArraySet"), Load(2), Const, I("ArrayGet"),
               I("I64Abs"), Load(1), last, I("LessI64"), I1("JumpIfFalse", 30), Const, I("Return")>>)>>) :
     last \in {I("StrLen"), I("BuilderLen")}}

\* A handler that starts before its region ends, tables that name what is
\* not there, and code that is never reached and runs off the end.
Malformed ==
  LET main == Main(0, <<Const, I("Return")>>)
      bad == [Module(<<main>>) EXCEPT !.record_layouts = <<<<WeakOf(Int64)>>>>]
  IN  {Module(<<WithHandlers(main, <<Region(1, 2, 2, A)>>)>>), bad,
       [Module(<<main>>) EXCEPT !.map_layouts = <<<<NamedPair(1), Int64>>>>],
       [Module(<<main>>) EXCEPT !.closure_layouts = <<[function |-> 1, captures |-> <<>>]>>],
       Module(<<[main EXCEPT !.result = RecordOf(3)]>>), Module(<<>>), Module(<<Main(0, <<Const, I("Return"), Const>>)>>)}

SoundPrograms ==
  Branches \cup PairStores \cup Regions \cup NestedThrows \cup Records \cup Variants \cup Weaks
    \cup RefArrays \cup Maps \cup Ephemerons \cup Closures \cup TailCalls \cup Recursion \cup Texts \cup Buffers \cup Malformed

(***************************************************************************)
(* Programs for what the verifier does not see.                            *)
(***************************************************************************)
\* A local changed inside two nested regions that catch different variants,
\* before a call, and read in the outer handler.
NestedCalls ==
  {Module(<<WithHandlers(
       Main(2, <<Const, I("Nil"), I("AllocPair"), Store(1), I1("TryBegin", 1), I1("TryBegin", 2),
                 v, Store(1), I1("Call", callee), I1("TryEnd", 2), I1("TryEnd", 1), I("Return"),
                 I("VariantTag"), I("Return"),
                 Store(2), Load(1), I1("GetField", 1), I("Return")>>),
       <<Region(5, 11, 15, B), Region(6, 10, 13, A)>>), Thrower(A), Thrower(B)>>) :
     v \in {I("Nil"), Load(1)}, callee \in {2, 3}}

\* (List) -> i64 that cuts the list after its first element.
Cut == Body(<<List>>, Int64, 1, <<Load(1), I("IsNil"), I1("JumpIfFalse", 6), Const, I("Return"),
                                  Load(1), I("Nil"), I1("SetField", 2), Const, I("Return")>>)

\* A list of two, handed to a function that reads it or cuts it, and read.
SharedLists ==
  {Module(<<Main(2, <<Const, Const, I("Nil"), I("AllocPair"), I("AllocPair"), Store(1),
               Load(1), I1("Call", callee), Store(2),
               Load(1), I1("GetField", 2), I1("GetField", 1), I("Return")>>), Cut, Walk(3)>>) :
     callee \in {2, 3}}

\* A nil test whose local is overwritten before the branch.
OverwrittenTests ==
  {Module(<<Main(1, <<I1("Call", 2), Store(1), Load(1), I("IsNil"), v, Store(1),
                      I1("JumpIfFalse", 10), Const, I("Return"),
                      Load(1), I1("GetField", 1), I("Return")>>), NewList, NoList>>) :
     v \in {Load(1), I1("Call", 2), I1("Call", 3), I("Nil")}}

\* A loop that allocates an array, reads the array of the turn before and
\* stores into the new one.
OtherRecord == <<I("PushStr"), I1("AllocRecord", 2)>>
ReallocatedArrays ==
  {Module(<<Main(2, <<Const>> \o NewRecord \o <<I("AllocRefArray"), Store(2),
                      Const>> \o NewRecord \o <<I("AllocRefArray"), Store(1),
                      Load(old), Const, I("RefArrayGet"), I2("RecordGet", 1, 1), I("I64ToStr"), I("PrintStr"),
                      Load(1), Const>> \o stored \o <<I("RefArraySet"), Load(1), Store(2),
                      Const, Const, I("LessI64"), I1("JumpIfFalse", 29 + Len(stored)), I1("Jump", 7),
                      Const, I("Return")>>), NewList>>) :
     old \in {1, 2}, stored \in {OtherRecord, NewRecord}}

\* Two named types meet at a join, and the value is handed on as the first.
JoinedNames ==
  {Module(<<Main(1, <<Const, Const, I("LessI64"), I1("JumpIfFalse", 8),
                      I1("Call", 3), Store(1), I1("Jump", 11), I1("Call", 4), Store(1), I1("Jump", 11),
                      Load(1), I1("Call", 2), I("Return")>>), FirstLength, one, other>>) :
     one \in {NewText, NewNest}, other \in {NewText, NewNest}}

StuckPrograms == JoinedNames \cup NestedCalls \cup SharedLists \cup OverwrittenTests \cup ReallocatedArrays

(***************************************************************************)
(* Collection schedules.                                                   *)
(***************************************************************************)
Schedule(every, minor, mark, compact) ==
  [every |-> every, minor |-> minor, mark |-> mark, compact |-> compact]
MCSchedules == {Schedule(1, 0, FALSE, FALSE), Schedule(0, 1, FALSE, FALSE),
                Schedule(0, 3, TRUE, FALSE), Schedule(2, 0, TRUE, TRUE)}
=============================================================================
