----------------------------- MODULE MCFrontend -----------------------------
(***************************************************************************)
(* Source programs for Frontend, in families: a skeleton whose holes range *)
(* over a few expressions or statements each.  The checker refuses many    *)
(* members of a family; the others are compiled, verified and run.         *)
(***************************************************************************)
EXTENDS MCVm, Frontend

(***************************************************************************)
(* Expressions and statements.                                             *)
(***************************************************************************)
X(k, xs)   == Expr(k, None, None, xs)
Num        == X("Int", <<>>)
Yes        == Expr("Bool", TRUE, None, <<>>)
No         == Expr("Bool", FALSE, None, <<>>)
Text       == X("String", <<>>)
NilExpr    == X("Nil", <<>>)
V(n)       == Expr("Var", n, None, <<>>)
Get(x, n)  == Expr("Field", n, None, <<x>>)
At1(x, i)  == X("Index", <<x, i>>)
CallOf(f, args)         == X("Call", args \o <<V(f)>>)
CallAs(f, types, args)  == Expr("Call", None, Tuple(types), args \o <<V(f)>>)
Fun(name, params, result, body, value) ==
  Expr("Lambda", Callable(name, 0, params, result, body, value), None, <<>>)
Param(n, type) == [name |-> n, type |-> type]

St(k, n, xs, blocks)   == Statement(k, n, None, xs, blocks, None)
Let(n, type, x)        == Statement("Let", n, type, <<x>>, <<>>, None)
Set(n, x)              == St("Assign", n, <<x>>, <<>>)
SetIn(x, n, v)         == St("AssignField", n, <<v, x>>, <<>>)
SetAt(x, i, v)         == St("AssignIndex", None, <<v, x, i>>, <<>>)
If(x, then, else)      == St("If", None, <<x>>, <<then, else>>)
While(label, x, body)  == Statement("While", None, None, <<x>>, <<body>>, label)
For(label, ns, xs, body) == Statement("For", ns, None, xs, <<body>>, label)
Exit(k, label)        == Statement(k, None, None, <<>>, <<>>, label)
Try(body, n, type, handler) == Statement("Try", n, type, <<>>, <<body, handler>>, None)
Do(k, xs)             == St(k, None, xs, <<>>)
Match(x, arms, blocks) == St("Match", arms, <<x>>, blocks)
Arm(case, names)       == [case |-> case, names |-> names]

(***************************************************************************)
(* Declarations: record R {x: i64, next: R}, type L = pair<i64, L>,        *)
(* variant E {Boom, Full(i64, R)}, variant G {Bang}, record Box<T>         *)
(* {value: T}, fn id<T>(v: T) -> T, and functions that make an R and throw.*)
(***************************************************************************)
R == Nominal("R", <<>>)
L == Nominal("L", <<>>)
E == Nominal("E", <<>>)
BoxOf(type) == Nominal("Box", <<type>>)
Nominals ==
  <<Declaration("L", "Named", 0, <<>>, <<<<Int64, L>>>>),
    Declaration("R", "Record", 0, <<"x", "next">>, <<<<Int64, R>>>>),
    Declaration("E", "Variant", 0, <<"Boom", "Full">>, <<<<>>, <<Int64, R>>>>),
    Declaration("G", "Variant", 0, <<"Bang">>, <<<<>>>>),
    Declaration("Box", "Record", 1, <<"value">>, <<<<Parameter(1)>>>>)>>
NewR(next) == Expr("Record", <<"x", "next">>, R, <<Num, next>>)
Boom       == Expr("Variant", "Boom", E, <<>>)
Full(r)    == Expr("Variant", "Full", E, <<Num, r>>)
PairAt(site, l, r) == Expr("Pair", site, None, <<l, r>>)
IsNilOf(x) == X("IsNil", <<x>>)
Identity   == Callable("id", 1, <<Param("v", Parameter(1))>>, Parameter(1), <<>>, V("v"))
MakeR      == Callable("make", 0, <<Param("n", Int64)>>, R, <<>>, NewR(NilExpr))
Fail       == Callable("fail", 0, <<>>, Int64, <<Do("Throw", <<Boom>>)>>, Num)

Entry(body, value) == Callable("main", 0, <<>>, None, body, value)
Unit(functions, generics, body, value) == Program(Nominals, functions, generics, Entry(body, value), 3)
Script(body, value) == Unit(<<>>, <<>>, body, value)

(***************************************************************************)
(* A record that may be nil, tested, overwritten and read.                 *)
(***************************************************************************)
NilFlows ==
  {Unit(<<MakeR>>, <<>>,
        <<Let("n", Int64, Num), Let("r", R, init),
          If(IsNilOf(V("r")), <<inNil>>, <<otherwise>>), last>>,
        Get(V("r"), "x")) :
     init \in {NewR(NilExpr), CallOf("make", <<Num>>)},
     inNil \in {Set("r", NewR(V("r"))), Set("n", Num), Set("r", NilExpr)},
     otherwise \in {Set("n", Get(V("r"), "x")), Set("r", Get(V("r"), "next")), Do("Throw", <<Boom>>)},
     last \in {Set("r", NewR(NilExpr)), SetIn(V("r"), "x", V("n")), Set("n", Num)}}


(***************************************************************************)
(* Loops, labelled or not, over ranges and arrays, with jumps out of them. *)
(***************************************************************************)
Inner ==
  {While(label, Yes, <<If(IsNilOf(V("r")), <<Exit("Break", to)>>, <<Exit("Continue", to)>>)>>) :
     label \in {None, "a", "b"}, to \in {None, "a"}} \cup
  {If(IsNilOf(V("r")), <<act>>, <<Exit(k, None)>>) :
     act \in {Set("r", NilExpr), Set("r", NewR(V("r")))}, k \in {"Break", "Continue"}} \cup
  {Set("r", NilExpr), Set("n", Get(V("r"), "x"))}
Loops ==
  {Script(<<Let("n", Int64, Num), Let("r", R, NewR(NilExpr)),
            outer, Set("n", X("Add", <<V("n"), Num>>))>>, Get(V("r"), "x")) :
     outer \in {While("a", test, <<inner>>) : test \in {Yes, X("Less", <<V("n"), Num>>)},
                                              inner \in Inner}
          \cup {For("a", <<"i">>, over, <<inner, Set("n", V("i"))>>) :
                  over \in {<<Num, Num>>, <<X("Array", <<Num, V("n")>>)>>, <<V("n")>>},
                  inner \in Inner}}

(***************************************************************************)
(* Pair literals: what a field of a pair holds follows its stores, through *)
(* an alias and around a loop.                                             *)
(***************************************************************************)
Pairs ==
  {Script(<<Let("p", AnyPair, PairAt(1, Num, NilExpr)),
            Let("q", type, PairAt(2, Num, field)),
            While(None, X("Less", <<Get(V("q"), "left"), Num>>), <<act>>)>>,
          Get(read, "left")) :
     type \in {AnyPair, L, PairOf(Int64, AnyPair)},
     field \in {V("p"), NilExpr, Text},
     act \in {SetIn(V("q"), "right", V("p")), SetIn(V("q"), "left", Text), Set("p", V("q")),
              Set("q", PairAt(3, Num, NilExpr))},
     read \in {V("q"), Get(V("q"), "right")}}

(***************************************************************************)
(* Exceptions that a call, a match arm or a branch may throw.              *)
(***************************************************************************)
Tries ==
  {Unit(<<Fail>>, <<>>,
        <<Let("n", Int64, Num), Let("r", R, NewR(NilExpr)),
          Try(<<act, Set("n", Num)>>, "e", caught, <<inCatch>>)>>,
        value) :
     act \in {Set("n", CallOf("fail", <<>>)), If(IsNilOf(V("r")), <<Do("Throw", <<Boom>>)>>, <<>>),
              Do("Throw", <<V("r")>>), Do("TailCall", <<CallOf("fail", <<>>)>>)},
     caught \in {E, Nominal("G", <<>>), R},
     inCatch \in {Match(V("e"), <<Arm("Full", <<"k", "t">>), Arm("Boom", <<>>)>>,
                        <<<<Set("n", V("k")), Set("r", V("t"))>>, <<>>>>),
                  Match(V("e"), <<Arm("Boom", <<>>)>>, <<<<>>>>),
                  Set("r", NilExpr), Do("Throw", <<V("e")>>), Set("e", Boom)},
     value \in {V("n"), Get(V("r"), "x")}}

Matches ==
  {Script(<<Let("n", Int64, Num), Let("v", E, made),
            Match(V("v"), <<Arm("Boom", <<>>), Arm("Full", names)>>, <<<<onBoom>>, <<onFull>>>>)>>,
          V("n")) :
     made \in {Boom, Full(NilExpr), NilExpr},
     names \in {<<"k", "t">>, <<"k">>, <<"n", "t">>},
     onBoom \in {Set("n", Num), Do("Throw", <<V("v")>>)},
     onFull \in {Set("n", Get(V("t"), "x")),
                 If(IsNilOf(V("t")), <<Set("n", V("k"))>>, <<Set("n", Get(V("t"), "x"))>>)}}

(***************************************************************************)
(* Closures over scalars and arrays, nested, and functions as values.      *)
(***************************************************************************)
IntToInt == FunctionOf(<<Int64>>, Int64)
Lambdas1 ==
  {Unit(<<Callable("twice", 0, <<Param("f", IntToInt), Param("n", Int64)>>, Int64, <<>>,
                   CallOf("f", <<CallOf("f", <<V("n")>>)>>)),
          Callable("plain", 0, <<Param("n", Int64)>>, Int64, <<last>>, V("n"))>>, <<>>,
        <<Let("k", Int64, Num), Let("a", ArrayOf(Bool), X("Array", <<Yes, No>>)), Let("f", IntToInt, f)>>,
        call) :
     f \in {V("plain"), V("missing"),
            Fun("one", <<Param("n", Int64)>>, Int64, <<>>, X("Add", <<V("n"), V("k")>>)),
            Fun("one", <<Param("n", Int64)>>, Int64,
                <<Let("g", IntToInt, Fun("two", <<Param("m", Int64)>>, Int64,
                                         <<If(At1(V("a"), V("m")), <<Do("TailCall", <<CallOf("plain", <<V("k")>>)>>)>>, <<>>)>>,
                                         V("k")))>>, CallOf("g", <<V("n")>>))},
     last \in {Set("n", Num), Do("TailCall", <<CallOf("plain", <<V("n")>>)>>)},
     call \in {CallOf("twice", <<V("f"), Num>>), CallOf("f", <<Num>>), CallOf("f", <<Text>>),
               CallOf("plain", <<Num>>)}}

(***************************************************************************)
(* Instances of generic functions and records, recursive ones too.         *)
(***************************************************************************)
Grow == Callable("grow", 1, <<Param("v", Parameter(1))>>, Int64, <<>>,
                 CallOf("grow", <<X("Array", <<V("v")>>)>>))
Again == Callable("again", 1, <<Param("v", Parameter(1)), Param("f", FunctionOf(<<Parameter(1)>>, Parameter(1)))>>,
                  Parameter(1), <<Let("b", BoxOf(Parameter(1)), Expr("Record", <<"value">>, BoxOf(Parameter(1)), <<V("v")>>)),
                                  If(No, <<Do("TailCall", <<CallOf("again", <<V("v"), V("f")>>)>>)>>, <<>>)>>,
                  CallOf("f", <<Get(V("b"), "value")>>))
Generics ==
  {Unit(<<MakeR>>, <<Identity, Grow, Again>>, <<Let("b", BoxOf(Str), Expr("Record", <<"value">>, BoxOf(Str), <<v>>))>>, use) :
     v \in {Text, CallOf("id", <<Text>>), CallAs("id", <<Int64>>, <<Num>>)},
     use \in {CallOf("id", <<V("b")>>), CallAs("id", <<Str>>, <<Get(V("b"), "value")>>),
              CallOf("again", <<Num, Fun("one", <<Param("n", Int64)>>, Int64, <<>>, V("n"))>>),
              CallOf("again", <<Num, V("make")>>), CallOf("id", <<NilExpr>>), CallOf("grow", <<Num>>)}}

(***************************************************************************)
(* Arrays, maps, weak references, ephemerons, builders and strings.        *)
(***************************************************************************)
Containers ==
  {Script(<<Let("a", ArrayOf(R), X("Array", first)), Let("m", MapOf(Str, R), Expr("MapEmpty", None, Tuple(<<Str, R>>), <<>>)),
            SetAt(V("m"), Text, At1(V("a"), Num)), act,
            For(None, <<"k", "r">>, <<V("m")>>, <<SetAt(V("a"), Num, NewR(V("r")))>>)>>,
          value) :
     first \in {<<NewR(NilExpr)>>, <<NewR(NilExpr), NewR(NilExpr)>>, <<>>},
     act \in {SetAt(V("m"), Text, NilExpr), SetAt(V("a"), Num, NilExpr),
              SetIn(At1(V("a"), Num), "next", At1(V("m"), Text)), SetAt(V("m"), Num, NilExpr)},
     value \in {Get(V("a"), "len"), Get(At1(V("a"), Num), "x"), Get(At1(V("m"), Text), "x"),
                X("MapHas", <<V("m"), Text>>)}}
Flags ==
  {Script(<<Let("a", ArrayOf(Bool), Expr("ArraySized", None, Bool, <<Num, v>>)),
            For(None, <<"b">>, <<V("a")>>, <<SetAt(V("a"), Num, V("b"))>>)>>,
          At1(V("a"), Num)) : v \in {Yes, Num}}
WeakRefs ==
  {Script(<<Let("r", R, NewR(NilExpr)), Let("w", WeakOf(R), X("Weak", <<V("r")>>)),
            Let("e", EphemeronOf(R, Str), X("Ephemeron", <<V("r"), Text>>)), act,
            Let("t", R, X("WeakGet", <<V("w")>>)), Let("s", Str, X("EphemeronValue", <<V("e")>>)),
            If(IsNilOf(V(tested)), <<>>, <<Do("Print", <<X("ToStr", <<Get(V("t"), "x")>>)>>)>>),
            If(IsNilOf(V("s")), <<Set("s", Text)>>, <<>>), Do("Print", <<V("s")>>)>>,
          Num) :
     act \in {Set("r", NilExpr), Do("EphemeronSet", <<V("e"), Text>>), Do("EphemeronSet", <<V("e"), Num>>)},
     tested \in {"t", "r"}}
Strings ==
  {Script(<<Let("b", Builder, X("Builder", <<>>)), Do("Append", <<V("b"), v[1]>>), Do("Clear", <<V("b")>>),
            Let("s", Str, X("Intern", <<X("BuilderToStr", <<V("b")>>)>>))>>, v[2]) :
     v \in {<<part, V("s")>> : part \in {Num, Yes, Text, NilExpr}}
        \cup {<<Text, X(k, <<V("s"), Text>>)>> :
                k \in {"Contains", "StartsWith", "EndsWith", "IndexOf", "LessEq",
                       "Greater", "GreaterEq", "Eq", "NotEq", "Add"}}
        \cup {<<Text, X(k, <<Num, X("Abs", <<Num>>)>>)>> : k \in {"Min", "Max", "LessEq"}}
        \cup {<<Text, X("ToI64", <<X("Sub", <<V("s"), Num, Get(V("s"), "len")>>)>>)>>,
              <<Text, At1(V("s"), Get(V("b"), "len"))>>}}

SoundSources == NilFlows \cup Loops \cup Pairs \cup Tries \cup Matches \cup Lambdas1 \cup Generics
                  \cup Containers \cup Flags \cup WeakRefs \cup Strings

(***************************************************************************)
(* Programs that the checker accepts and that are not compiled to a        *)
(* verified module.                                                        *)
(***************************************************************************)
Some  == Let("r", R, NewR(NilExpr))
Count == Let("n", Int64, Num)
ReadUnlessNil(n) == If(IsNilOf(V(n)), <<>>, <<Set("n", Get(V(n), "x"))>>)
Constant(name) == Fun(name, <<Param("m", Int64)>>, Int64, <<>>, Num)

\* The key of an ephemeron, tested and then read.
KeyReads ==
  {Script(<<Count, Some, Let("e", EphemeronOf(R, Str), X("Ephemeron", <<V("r"), Text>>)),
            Let("k", R, X("EphemeronKey", <<V("e")>>)), ReadUnlessNil("k")>>, V("n"))}
\* A record just upgraded from a weak reference, stored in another one.
UpgradedFields ==
  {Script(<<Some, Let("w", WeakOf(R), X("Weak", <<V("r")>>)), Set("r", NewR(X("WeakGet", <<V("w")>>)))>>, Num)}
\* A local that is nil on every path, tested and then read.
KnownNils == {Script(<<Count, Let("r", R, NilExpr), ReadUnlessNil("r")>>, V("n"))}
\* A try whose body never reaches its end.
EndlessTries == {Script(<<Count, Try(<<Do("Throw", <<Boom>>)>>, "e", E, <<Set("n", Num)>>)>>, V("n"))}
\* A local set to nil in a try and read in its handler.
CatchStates ==
  {Unit(<<Fail>>, <<>>,
        <<Count, Some, Try(<<Set("r", NilExpr), Set("n", CallOf("fail", <<>>))>>, "e", E,
                           <<Set("n", Get(V("r"), "x"))>>)>>, V("n"))}
\* A record captured by a lambda that reads it.
CapturedRecords ==
  {Script(<<Some, Let("f", IntToInt, Fun("one", <<Param("m", Int64)>>, Int64, <<>>, Get(V("r"), "x")))>>,
          CallOf("f", <<Num>>))}
\* A lambda after a statement that never ends.
DeadLambdas ==
  {Script(<<Let("f", IntToInt, Constant("one")), Do("Throw", <<Boom>>), Set("f", Constant("two"))>>, Num)}
\* A lambda with a handler, in a loop that is checked twice.
LoopedLambdas ==
  {Script(<<Count, Some, Let("f", IntToInt, Constant("one")),
            While(None, X("Less", <<V("n"), Num>>),
                  <<Set("f", Fun("two", <<Param("m", Int64)>>, Int64,
                                 <<Try(<<Set("m", Num)>>, "e", E, <<>>)>>, V("m"))),
                    Set("r", NilExpr), Set("n", CallOf("f", <<V("n")>>))>>)>>, V("n"))}
\* A map type with a key type that is not allowed, never written down.
RecordKeys == {Script(<<>>, IsNilOf(Expr("MapEmpty", None, Tuple(<<R, Int64>>), <<>>)))}
\* An array of nil literals.
NilArrays == {Script(<<>>, Get(X("Array", <<NilExpr>>), "len"))}
\* A generic function called with a pair that holds nil.
NilArguments == {Unit(<<>>, <<Identity>>, <<>>, CallOf("id", <<PairAt(1, Num, NilExpr)>>))}

\* A generic function that leaves its outer loop by name.
LabelledGenerics ==
  {Unit(<<>>, <<Callable("g", 1, <<Param("v", Parameter(1))>>, Int64,
                         <<Count, For("outer", <<"i">>, <<Num, Num>>,
                                      <<For(None, <<"j">>, <<Num, Num>>,
                                            <<Set("n", X("Add", <<V("n"), V("i")>>)), Exit(k, "outer")>>)>>)>>,
                         V("n"))>>, <<>>, CallOf("g", <<Num>>)) :
     k \in {"Break", "Continue"}}

RejectedSources ==
  KeyReads \cup UpgradedFields \cup KnownNils \cup EndlessTries \cup CatchStates \cup CapturedRecords
    \cup DeadLambdas \cup LoopedLambdas \cup RecordKeys \cup NilArrays \cup NilArguments
=============================================================================
