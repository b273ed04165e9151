---------------------------- MODULE TypeChecker -----------------------------
(***************************************************************************)
(* The type checker of src/frontend/type_checker_internal.cpp: expressions *)
(* and statements, along the flow of a callable.  It annotates the program *)
(* for the compiler.                                                       *)
(***************************************************************************)
EXTENDS TypeFlow

(***************************************************************************)
(* Expressions whose value depends on their operands' values only.  Each   *)
(* rule gives that value, None when it is diagnosed.                       *)
(***************************************************************************)
Overload(params, result) == [params |-> params, result |-> result]
Literal(type)  == <<Overload(<<>>, type)>>
OnStrings(type) == <<Overload(<<Str, Str>>, type)>>
OnNumbers == <<Overload(<<Int64, Int64>>, Int64)>>
Builtins ==
  [Int |-> Literal(Int64), Bool |-> Literal(Bool), String |-> Literal(Str),
   Builder |-> Literal(Builder), BuilderToStr |-> <<Overload(<<Builder>>, Str)>>,
   Add |-> OnNumbers \o OnStrings(Str),
   Less |-> <<Overload(<<Int64, Int64>>, Bool)>> \o OnStrings(Bool),
   LessEq |-> OnStrings(Bool), Greater |-> OnStrings(Bool), GreaterEq |-> OnStrings(Bool),
   Eq |-> OnStrings(Bool), NotEq |-> OnStrings(Bool),
   Abs |-> <<Overload(<<Int64>>, Int64)>>, Min |-> OnNumbers, Max |-> OnNumbers,
   Sub |-> <<Overload(<<Str, Int64, Int64>>, Str)>>,
   Contains |-> OnStrings(Bool), StartsWith |-> OnStrings(Bool), EndsWith |-> OnStrings(Bool),
   IndexOf |-> OnStrings(Int64),
   ToStr |-> <<Overload(<<Int64>>, Str), Overload(<<Bool>>, Str)>>,
   ToI64 |-> <<Overload(<<Str>>, Int64)>>, Intern |-> <<Overload(<<Str>>, Str)>>]
Comparisons == {"Less", "LessEq", "Greater", "GreaterEq"}
Conversions == {"ToStr", "ToI64", "Intern"}

AnyInvalid(vs) == \E v \in ToSet(vs) : v.type = Invalid
\* Operands already diagnosed pass for the first overload, except in a
\* comparison.
Selects(k, i, vs) ==
  LET params == Builtins[k][i].params
  IN  /\ Len(vs) = Len(params)
      /\ \A j \in DOMAIN vs :
           \/ vs[j].type = params[j] /\ ~vs[j].nil
           \/ vs[j].type = Invalid /\ i = 1 /\ k \notin Comparisons
check_builtin(k, vs) ==
  LET selected == {i \in DOMAIN Builtins[k] : Selects(k, i, vs)}
  IN  CASE k \in Conversions /\ AnyInvalid(vs) -> invalid_value
        [] OTHER -> IF selected = {} THEN None
                    ELSE scalar_value(Builtins[k][Min(selected)].result)

FieldsFit(c, vs, types) == Len(vs) = Len(types) /\ \A i \in DOMAIN vs : Fits(c, vs[i], types[i])
PositionOf(name, names) == Where(LAMBDA n : n = name, names)

check_record_literal(c, x, vs) ==
  IF /\ x.as.kind = "Record"
     /\ x.n = c.env.layouts.Record[x.as.of].names
     /\ FieldsFit(c, vs, c.env.layouts.Record[x.as.of].cases[1])
  THEN NonNil(value_from_type(x.as)) ELSE None

check_variant_literal(c, x, vs) ==
  LET layout == c.env.layouts.Variant[x.as.of]
      case == PositionOf(x.n, layout.names)
  IN  IF x.as.kind = "Variant" /\ case # {} /\ FieldsFit(c, vs, layout.cases[TheOnly(case)])
      THEN NonNil(value_from_type(x.as)) ELSE None

is_known_nonnil_reference(v) == is_object_type(v.type) /\ ~v.nil
require_nonnil_ref_array_element(v, type) == is_object_type(type) => is_known_nonnil_reference(v)

check_array_literal(vs) ==
  CASE vs = <<>> \/ \E i \in 2..Len(vs) : vs[i].type \notin {Invalid, vs[1].type} -> None
    [] \E v \in ToSet(vs) : ~require_nonnil_ref_array_element(v, vs[1].type) -> None
    [] AnyInvalid(vs) -> invalid_value
    [] OTHER -> TypedValue(ArrayOf(vs[1].type), {}, FALSE, FoldLeft(join_checked_values, vs[1], Tail(vs)))

check_array_sized(c, x, vs) ==
  IF /\ vs[1].type \in {Invalid, Int64}
     /\ Fits(c, vs[2], x.as) /\ require_nonnil_ref_array_element(vs[2], x.as)
  THEN TypedValue(ArrayOf(x.as), {}, FALSE, NonNil(value_as_declared_type(vs[2], x.as))) ELSE None

load_array_element(v) ==
  [(IF v.element = None THEN value_from_type(v.type.of[1]) ELSE v.element)
   EXCEPT !.type = v.type.of[1], !.nil = @ /\ ~is_object_type(v.type.of[1])]

check_array_index(c, receiver, index) ==
  CASE receiver.type # Invalid /\ receiver.nil -> None
    [] receiver.type.kind = "Map" ->
         IF Fits(c, index, receiver.type.of[1]) THEN value_from_type(receiver.type.of[2]) ELSE None
    [] index.type \notin {Invalid, Int64} -> None
    [] receiver.type = Str -> scalar_value(Int64)
    [] receiver.type = Invalid -> invalid_value
    [] receiver.type.kind = "Array" -> load_array_element(receiver)
    [] OTHER -> None

\* An invalid key type is not diagnosed here.
check_map_empty(x) ==
  IF is_valid_map_key_type(x.as.of[1])
  THEN value_from_type(MapOf(x.as.of[1], x.as.of[2])) ELSE invalid_value

check_map_has(c, vs) ==
  CASE AnyInvalid(vs) -> invalid_value
    [] vs[1].type.kind = "Map" /\ ~vs[1].nil /\ value_conforms_to_type(c, vs[2], vs[1].type.of[1]) ->
         scalar_value(Bool)
    [] OTHER -> None

check_weak_construct(v) ==
  CASE v.type = Invalid -> invalid_value
    [] is_known_nonnil_reference(v) -> value_from_type(WeakOf(v.type))
    [] OTHER -> None
check_weak_get(v) ==
  CASE v.type = Invalid -> invalid_value
    [] v.type.kind = "Weak" /\ ~v.nil -> [value_from_type(v.type.of[1]) EXCEPT !.nil = TRUE]
    [] OTHER -> None

check_ephemeron_construct(vs) ==
  CASE AnyInvalid(vs) -> invalid_value
    [] is_known_nonnil_reference(vs[1]) /\ vs[2].type # NilType /\ ~vs[2].nil ->
         value_from_type(EphemeronOf(vs[1].type, vs[2].type))
    [] OTHER -> None
check_ephemeron_get(v, part) ==
  CASE v.type = Invalid -> invalid_value
    [] v.type.kind = "Ephemeron" /\ ~v.nil ->
         [value_from_type(v.type.of[part]) EXCEPT
            !.nil = @ \/ part = 1 \/ is_object_type(v.type.of[part])]
    [] OTHER -> None

check_is_nil(v) ==
  IF v.type.kind \in {"Invalid", "Nil", "Record", "Variant"} \/ IsPair(v.type) \/ v.nil
  THEN scalar_value(Bool) ELSE None

Sides == [left |-> 1, right |-> 2]
load_record_field(c, v, field) ==
  LET layout == c.env.layouts.Record[v.type.of]
      at == PositionOf(field, layout.names)
  IN  IF v.nil \/ at = {} THEN None ELSE value_from_type(layout.cases[1][TheOnly(at)])
load_field(c, v, field) ==
  CASE v.type = Invalid -> invalid_value
    [] IsPair(v.type) /\ field \in DOMAIN Sides /\ ~v.nil ->
         try_load_field(c.env, c.flow.sites, v, Sides[field])
    [] OTHER -> None
check_len(v) ==
  IF v.type = Invalid \/ (~v.nil /\ v.type.kind \in {"Array", "Str", "Map", "Builder"})
  THEN scalar_value(Int64) ELSE None
check_field_access(c, v, field) ==
  CASE v.type.kind = "Record" -> load_record_field(c, v, field)
    [] field = "len"          -> check_len(v)
    [] OTHER                  -> load_field(c, v, field)

ValueOf(c, x, vs) ==
  CASE x.k \in DOMAIN Builtins  -> check_builtin(x.k, vs)
    [] x.k = "Nil"              -> nil_value
    [] x.k = "Pair"             -> TypedValue(PairOf(vs[1].type, vs[2].type), {x.n}, FALSE, None)
    [] x.k = "Record"           -> check_record_literal(c, x, vs)
    [] x.k = "Variant"          -> check_variant_literal(c, x, vs)
    [] x.k = "Array"            -> check_array_literal(vs)
    [] x.k = "ArraySized"       -> check_array_sized(c, x, vs)
    [] x.k = "Index"            -> check_array_index(c, vs[1], vs[2])
    [] x.k = "Field"            -> check_field_access(c, vs[1], x.n)
    [] x.k = "MapEmpty"         -> check_map_empty(x)
    [] x.k = "MapHas"           -> check_map_has(c, vs)
    [] x.k = "Weak"             -> check_weak_construct(vs[1])
    [] x.k = "WeakGet"          -> check_weak_get(vs[1])
    [] x.k = "Ephemeron"        -> check_ephemeron_construct(vs)
    [] x.k = "EphemeronKey"     -> check_ephemeron_get(vs[1], 1)
    [] x.k = "EphemeronValue"   -> check_ephemeron_get(vs[1], 2)
    [] x.k = "IsNil"            -> check_is_nil(vs[1])

\* The position a field's or a case's name stands for.
MeaningOf(c, x, vs) ==
  CASE x.k = "Variant" -> TheOnly(PositionOf(x.n, c.env.layouts.Variant[x.as.of].names))
    [] x.k = "Field" /\ vs[1].type.kind = "Record" ->
         TheOnly(PositionOf(x.n, c.env.layouts.Record[vs[1].type.of].names))
    [] x.k = "Field" /\ x.n \in DOMAIN Sides -> Sides[x.n]
    [] OTHER -> x.at

\* A pair literal evaluated again joins what its fields held before.
EvaluatedPair(c, x, vs) ==
  IF x.k # "Pair" THEN c
  ELSE [c EXCEPT !.flow.sites = JoinPairSites(@, x.n :> <<vs[1], vs[2]>>)]

Annotated(c, x, v) == Result(c, [x |-> [x EXCEPT !.type = v.type], v |-> v])
Diagnosed(c, x)    == Annotated(Accept(c, FALSE), x, invalid_value)

Exprs(checked)  == [i \in DOMAIN checked |-> checked[i].x]
Values(checked) == [i \in DOMAIN checked |-> checked[i].v]

Judge(c, x, vs) ==
  LET v == ValueOf(c, x, vs)
  IN  IF v = None THEN Diagnosed(c, x)
      ELSE Annotated(EvaluatedPair(c, x, vs), [x EXCEPT !.at = MeaningOf(c, x, vs)], v)

(***************************************************************************)
(* Names.                                                                  *)
(***************************************************************************)
Meaning(k, i) == [k |-> k, i |-> i]
Named(c, x, k, i, v) == Annotated(c, [x EXCEPT !.at = Meaning(k, i)], v)

NameFunction(c, x) ==
  LET known == Where(LAMBDA f : f.name = x.n, c.env.symbols)
      f == c.env.symbols[TheOnly(known)]
  IN  IF known = {} THEN Diagnosed(c, x)
      ELSE Named(c, x, "function", TheOnly(known), value_from_type(FunctionOf(f.params, f.result)))

\* A captured value is taken to be non-nil: it was when it was captured.
NameCapture(captured, x) ==
  IF captured.out = None THEN NameFunction(captured.st, x)
  ELSE Named(captured.st, x, "capture", captured.out,
             NonNil(value_from_type(Last(captured.st.scopes).captures[captured.out].type)))

check_variable(c, x) ==
  IF x.n \in DOMAIN c.flow.locals
  THEN Named(c, x, "local", c.flow.locals[x.n].index, c.flow.locals[x.n].value)
  ELSE NameCapture(try_ensure_capture(c, Len(c.scopes), x.n), x)

(***************************************************************************)
(* Calls.  Type arguments that are not written are inferred: Bindings are  *)
(* pairs of a type parameter and a type, with parameter 0 for a mismatch.  *)
(***************************************************************************)
Mismatch == {<<0, Invalid>>}
InstanceOf(env, type) == Where(LAMBDA m : m.type = type, env.made)

RECURSIVE infer_type_arguments(_, _, _)
InferAll(env, patterns, actuals) ==
  IF Len(patterns) # Len(actuals) THEN Mismatch
  ELSE UNION {infer_type_arguments(env, patterns[i], actuals[i]) : i \in DOMAIN patterns}
InferNominal(env, pattern, actual) ==
  LET made == InstanceOf(env, actual)
  IN  IF made # {} /\ env.made[TheOnly(made)].generic = pattern.of.name
      THEN InferAll(env, pattern.of.args, env.made[TheOnly(made)].arguments)
      ELSE Mismatch
infer_type_arguments(env, pattern, actual) ==
  CASE pattern.kind = "Parameter" ->
         IF actual.kind \in {"Nil", "Invalid"} \/ contains_type_parameter(actual) THEN Mismatch
         ELSE {<<pattern.of, actual>>}
    [] pattern.kind = "Nominal" -> InferNominal(env, pattern, actual)
    [] pattern.kind = "Object"  -> IF actual.kind \in {"Object", "Pair"} THEN {} ELSE Mismatch
    [] Parts(pattern) # <<>> /\ pattern.kind = actual.kind ->
         InferAll(env, Parts(pattern), Parts(actual))
    [] OTHER -> IF pattern = actual THEN {} ELSE Mismatch

\* The types bound to the parameters, None unless each has exactly one.
Settled(bindings, arity) ==
  IF {b[1] : b \in bindings} = 1..arity /\ Cardinality(bindings) = arity
  THEN [i \in 1..arity |-> TheOnly({b \in bindings : b[1] = i})[2]]
  ELSE None

RECURSIVE check_expr(_, _), check_exprs(_, _), check_block(_, _, _), CheckBody(_, _)
check_exprs(c, xs) == Thread(check_expr, c, xs)

\* The body of a callable and its final expression.
ResultFits(c, v, result) ==
  IF result = None
  THEN v.type # NilType /\ (v.nil => v.type.kind \in {"Named", "Record", "Variant"})
  ELSE Fits(c, v, result)
Checked(f, body, value) ==
  Result(Accept(value.st, ResultFits(value.st, value.out.v, f.result)),
         [f EXCEPT !.body = body.out, !.value = value.out.x, !.locals = value.st.next,
                   !.result = IF @ = None THEN value.out.v.type ELSE @])
CheckResult(f, body) == Checked(f, body, check_expr(body.st, f.value))
CheckBody(c, f) == CheckResult(f, check_block(c, f.body, TRUE))

check_function(env, f, depth) == CheckBody(EnterCallable([env EXCEPT !.depth = depth], f, <<>>), f)

CheckedLambda(c, x, f) ==
  Annotated([c EXCEPT !.env = f.st.env, !.scopes = Front(f.st.scopes)],
            [x EXCEPT !.n = [f.out EXCEPT !.captures = Last(f.st.scopes).captures]],
            value_from_type(FunctionOf(ParameterTypes(f.out), f.out.result)))
EnterLambda(c, x, f) ==
  CheckedLambda(c, x,
    CheckBody(EnterCallable(f.st, f.out,
                            Append(c.scopes, [locals |-> c.flow.locals,
                                              captures |-> x.n.captures])),
              f.out))
check_lambda(c, x) == EnterLambda(c, x, resolve_function_types(c.env, x.n))

\* An instance is recorded before its body is checked, so that the body may
\* call it.
FinishInstance(env, at, f) ==
  Result([f.st.env EXCEPT !.depth = env.depth, !.instances[at].f = f.out],
         Len(env.functions) + at)
CheckInstance(env, placed, f) ==
  FinishInstance(env, Len(placed.instances), check_function(placed, f, env.depth + 1))
PlaceFunction(env, generic, arguments, f) ==
  CheckInstance(env,
    [f.st EXCEPT !.instances = Append(@, [generic |-> generic, arguments |-> arguments, f |-> f.out]),
                 !.symbols = Append(@, Symbol(None, f.out))],
    f.out)
request_generic_instantiation(env, generic, arguments) ==
  LET made == Where(LAMBDA i : i.generic = generic.name /\ i.arguments = arguments, env.instances)
  IN  CASE ~HasKey(Tuple(arguments)) -> Result([env EXCEPT !.wild = TRUE], None)
        [] made # {} -> Result(env, Len(env.functions) + TheOnly(made))
        [] made = {} /\ env.depth >= MaxInstantiationDepth -> Result(Require(env, FALSE), None)
        [] OTHER ->
             PlaceFunction(env, generic.name, arguments,
                           resolve_function_types([env EXCEPT !.depth = @ + 1],
                                                  CloneCallable(generic, arguments)))

\* Arguments against parameters; a call with an invalid argument is invalid.
JudgeCall(c, x, vs, params, result) ==
  CASE ~FieldsFit(c, vs, params) -> Diagnosed(c, x)
    [] AnyInvalid(vs)            -> Annotated(c, x, invalid_value)
    [] OTHER                     -> Annotated(c, x, value_from_type(result))

CallInstance(c, x, vs, at) ==
  IF at = None THEN Diagnosed(c, x)
  ELSE JudgeCall(c, [x EXCEPT !.at = at], vs, c.env.symbols[at].params, c.env.symbols[at].result)
Instantiate(c, x, vs, made) == CallInstance([c EXCEPT !.env = made.st], x, vs, made.out)
CallGenericWith(c, x, vs, generic, arguments) ==
  IF arguments = None \/ Len(arguments) # generic.arity \/ ~Going(c) THEN Diagnosed(c, x)
  ELSE Instantiate(c, x, vs, request_generic_instantiation(c.env, generic, arguments))
CallExplicit(c, x, vs, generic, resolved) ==
  CallGenericWith([c EXCEPT !.env = resolved.st], [x EXCEPT !.as = resolved.out], vs, generic,
                  resolved.out.of)
check_generic_call(c, x, vs, generic) ==
  IF x.as = None
  THEN CallGenericWith(c, x, vs, generic,
                       Settled(InferAll(c.env, ParameterTypes(generic),
                                        [i \in DOMAIN vs |-> vs[i].type]),
                               generic.arity))
  ELSE CallExplicit(c, x, vs, generic, resolve_type(c.env, x.as, FALSE))

\* A function called by its name is called directly.
CallValue(callee, x, vs) ==
  LET v == callee.out.v
      called == [x EXCEPT !.xs = Append(Front(@), callee.out.x),
                          !.at = IF callee.out.x.k = "Var" /\ callee.out.x.at # None
                                    /\ callee.out.x.at.k = "function"
                                 THEN callee.out.x.at.i ELSE None]
  IN  CASE v.type = Invalid -> Annotated(callee.st, called, invalid_value)
        [] v.type.kind # "Function" \/ v.nil -> Diagnosed(callee.st, called)
        [] OTHER -> JudgeCall(callee.st, called, vs, ParametersOf(v.type), ResultOf(v.type))
CallWith(x, arguments) ==
  LET callee == Last(x.xs)
      generic == Where(LAMBDA f : callee.k = "Var" /\ f.name = callee.n, arguments.st.env.generics)
      called == [x EXCEPT !.xs = Append(Exprs(arguments.out), callee)]
  IN  IF generic # {}
      THEN check_generic_call(arguments.st, called, Values(arguments.out),
                              arguments.st.env.generics[TheOnly(generic)])
      ELSE CallValue(check_expr(arguments.st, callee), called, Values(arguments.out))
check_call(c, x) == CallWith(x, check_exprs(c, Front(x.xs)))

JudgeOperands(x, checked) == Judge(checked.st, [x EXCEPT !.xs = Exprs(checked.out)], Values(checked.out))
CheckOperands(c, x, written) ==
  JudgeOperands([x EXCEPT !.as = written.out], check_exprs([c EXCEPT !.env = written.st], x.xs))

check_expr(c, x) ==
  CASE x.k = "Var"    -> check_variable(c, x)
    [] x.k = "Lambda" -> check_lambda(c, x)
    [] x.k = "Call"   -> check_call(c, x)
    [] OTHER          -> CheckOperands(c, x, ResolveWritten(c.env, x.as, FALSE))

(***************************************************************************)
(* Statements.  falls tells whether control may reach the next one.        *)
(***************************************************************************)
Done(c, s, falls) == [st |-> c, out |-> s, falls |-> falls]

RECURSIVE check_statement(_, _, _)
After(done, next) == Done(next.st, Append(done.out, next.out), next.falls)
check_block(c, block, top) ==
  FoldLeft(LAMBDA done, s : IF done.falls /\ Going(done.st)
                            THEN After(done, check_statement(done.st, s, top))
                            ELSE Done(done.st, Append(done.out, s), FALSE),
           Done(c, <<>>, TRUE), block)

BindLocal(c, name, index, type, v) ==
  [c EXCEPT !.flow.locals = @ @@ (name :> Local(index, type, v, FALSE))]
check_let(c, s, v, top) ==
  IF /\ top /\ s.n \notin DOMAIN c.flow.locals
     /\ Fits(c, v, s.as) \/ (v.nil /\ v.type = s.as /\ is_object_type(s.as))
  THEN Done(BindLocal([c EXCEPT !.next = @ + 1], s.n, c.next + 1, s.as,
                      value_as_declared_type(v, s.as)),
            [s EXCEPT !.at = c.next + 1], TRUE)
  ELSE Done(Accept(c, FALSE), s, TRUE)

\* Assignment to a local; a capture cannot be assigned.
AssignLocal(c, s, v) ==
  IF s.n \notin DOMAIN c.flow.locals THEN Done(Accept(c, FALSE), s, TRUE)
  ELSE Done([Accept(c, ~c.flow.locals[s.n].fixed /\ Fits(c, v, c.flow.locals[s.n].type))
             EXCEPT !.flow.locals[s.n].value = value_as_declared_type(v, c.flow.locals[s.n].type)],
            [s EXCEPT !.at = c.flow.locals[s.n].index], TRUE)

\* A place starts at a local, not at a capture.
RECURSIVE IsPlace(_, _)
IsPlace(c, x) ==
  CASE x.k = "Var" -> x.n \in DOMAIN c.flow.locals
    [] x.k \in {"Field", "Index"} -> IsPlace(c, x.xs[1])
    [] OTHER -> FALSE

store_field(sites, targets, side, v) ==
  [site \in DOMAIN sites |->
     IF site \in targets THEN [sites[site] EXCEPT ![side] = join_checked_values(@, v)] ELSE sites[site]]

AssignField(c, s, v, receiver) ==
  CASE Invalid \in {v.type, receiver.type} -> Done(c, s, TRUE)
    [] receiver.type.kind = "Record" ->
         LET held == load_record_field(c, receiver, s.n)
         IN  IF held = None \/ ~value_conforms_to_type(c, v, held.type)
             THEN Done(Accept(c, FALSE), s, TRUE)
             ELSE Done(c, [s EXCEPT !.at = TheOnly(PositionOf(s.n, c.env.layouts.Record[receiver.type.of].names))],
                       TRUE)
    [] OTHER ->
         LET held == load_field(c, receiver, s.n)
         IN  IF held = None \/ ~value_conforms_to_type(c, v, held.type)
             THEN Done(Accept(c, FALSE), s, TRUE)
             ELSE Done([c EXCEPT !.flow.sites = store_field(@, receiver.sites, Sides[s.n], v)],
                       [s EXCEPT !.at = Sides[s.n]], TRUE)

IndexedStoreFits(c, v, receiver, index) ==
  \/ Invalid \in {v.type, receiver.type}
  \/ /\ ~receiver.nil
     /\ \/ /\ receiver.type.kind = "Map"
           /\ Fits(c, index, receiver.type.of[1])
           /\ value_conforms_to_type(c, v, receiver.type.of[2])
        \/ /\ receiver.type.kind = "Array" /\ index.type \in {Invalid, Int64}
           /\ value_conforms_to_type(c, v, receiver.type.of[1])
           /\ require_nonnil_ref_array_element(v, receiver.type.of[1])

check_builder_mutation(vs) ==
  /\ vs[1].type = Invalid \/ (vs[1].type = Builder /\ ~vs[1].nil)
  /\ \A i \in 2..Len(vs) :
       vs[i].type.kind \in {"Invalid", "Int64", "Bool"} \/ (vs[i].type = Str /\ ~vs[i].nil)

EphemeronSetFits(c, receiver, v) ==
  receiver.type.kind = "Ephemeron" /\ ~receiver.nil /\ value_conforms_to_type(c, v, receiver.type.of[2])

TailCallFits(c, x, v) ==
  /\ c.result # None /\ x.k = "Call" /\ x.at # None /\ c.tries = 0
  /\ v.type = Invalid \/ (v.type = c.result /\ value_conforms_to_type(c, v, c.result))

\* Statements that only evaluate their operands and act on the values.
Act(c, s, vs, top) ==
  CASE s.k = "Let"          -> check_let(c, s, vs[1], top)
    [] s.k = "Assign"       -> AssignLocal(c, s, vs[1])
    [] s.k = "AssignField"  -> AssignField(Accept(c, IsPlace(c, s.xs[2])), s, vs[1], vs[2])
    [] s.k = "AssignIndex"  -> Done(Accept(c, /\ IsPlace(c, s.xs[2])
                                              /\ IndexedStoreFits(c, vs[1], vs[2], vs[3])), s, TRUE)
    [] s.k = "Print"        -> Done(Accept(c, vs[1].type = Invalid \/ (vs[1].type = Str /\ ~vs[1].nil)),
                                    s, TRUE)
    [] s.k = "Throw"        -> Done(Accept(c, vs[1].type.kind = "Variant" /\ ~vs[1].nil), s, FALSE)
    [] s.k = "TailCall"     -> Done(Accept(c, TailCallFits(c, s.xs[1], vs[1])), s, FALSE)
    [] s.k = "EphemeronSet" -> Done(Accept(c, EphemeronSetFits(c, vs[1], vs[2])), s, TRUE)
    [] s.k \in {"Append", "Clear"} -> Done(Accept(c, check_builder_mutation(vs)), s, TRUE)
ActOn(s, checked, top) == Act(checked.st, [s EXCEPT !.xs = Exprs(checked.out)], Values(checked.out), top)

(***************************************************************************)
(* Branches.                                                               *)
(***************************************************************************)
WithFlow(c, flow) == [c EXCEPT !.flow = flow]
FallingFlow(done) == IF done.falls THEN <<done.st.flow>> ELSE <<>>
Join(before, s, blocks, flows, c) ==
  Done(WithFlow(c, MergedFlows(before, flows)), [s EXCEPT !.blocks = blocks], flows # <<>>)

\* A test for nil of a local tells the branches what it found.
IsRefined(c, x) ==
  /\ x.k = "IsNil" /\ x.xs[1].k = "Var" /\ x.xs[1].n \in DOMAIN c.flow.locals
  /\ is_object_type(c.flow.locals[x.xs[1].n].type)
refine_is_nil_condition(c, x, found) ==
  IF ~IsRefined(c, x) THEN c.flow
  ELSE [c.flow EXCEPT !.locals[x.xs[1].n].value =
          IF found THEN value_as_declared_type(nil_value, c.flow.locals[x.xs[1].n].type)
          ELSE NonNil(@)]

IfElse(c, s, then, else) ==
  Join(c.flow, s, <<then.out, else.out>>, FallingFlow(then) \o FallingFlow(else), else.st)
IfThen(c, s, then) ==
  IfElse(c, s, then,
         check_block(WithFlow(then.st, refine_is_nil_condition(c, s.xs[1], FALSE)), s.blocks[2], FALSE))
IfCondition(c, s) ==
  IfThen(c, s,
         check_block(WithFlow(c, refine_is_nil_condition(c, s.xs[1], TRUE)), s.blocks[1], FALSE))
check_if(s, checked) ==
  IfCondition(Accept(checked.st, checked.out[1].v.type \in {Invalid, Bool}),
              [s EXCEPT !.xs = Exprs(checked.out)])

\* The handler starts from the state before the try.
TryJoin(c, s, body, handler, name, at) ==
  Join(c.flow, [s EXCEPT !.at = at], <<body.out, handler.out>>,
       FallingFlow(body) \o
       (IF handler.falls THEN <<Unbind(handler.st.flow, name)>> ELSE <<>>),
       Leave(handler.st, name))
TryHandler(c, s, body, catch) ==
  TryJoin(c, s, body,
          check_block([WithFlow(catch.st, Bind(c.flow, <<s.n>>,
                                               <<Local(catch.out[1], s.as, NonNil(value_from_type(s.as)), TRUE)>>))
                       EXCEPT !.tries = c.tries],
                      s.blocks[2], FALSE),
          {s.n} \ DOMAIN c.flow.locals, catch.out)
TryBody(c, s, body) == TryHandler(c, s, body, Allocate(body.st, s.at, 1))
EnterTry(c, s) == TryBody(c, s, check_block([c EXCEPT !.tries = @ + 1], s.blocks[1], FALSE))
check_try_catch(c, s) == EnterTry(Accept(c, s.as.kind = "Variant"), s)

\* A match names every case once, with a new name for each field.
ArmsAreExact(c, s, layout) ==
  /\ \A arm \in ToSet(s.n) :
       /\ arm.case \in ToSet(layout.names) /\ Distinct(arm.names)
       /\ s.at = None => \A name \in ToSet(arm.names) : IsFresh(c, name)
       /\ Len(arm.names) = Len(layout.cases[TheOnly(PositionOf(arm.case, layout.names))])
  /\ Len(s.n) = Len(layout.names)
  /\ {arm.case : arm \in ToSet(s.n)} = ToSet(layout.names)

CaseAt(s, i, layout) == TheOnly(PositionOf(s.n[i].case, layout.names))
FirstLocal(s, i) == MapThenSumSet(LAMBDA j : Len(s.n[j].names), 1..(i - 1))
ArmLocals(s, i, layout, at) ==
  [j \in DOMAIN s.n[i].names |->
     LET type == layout.cases[CaseAt(s, i, layout)][j]
     IN  Local(at[FirstLocal(s, i) + j], type, value_from_type(type), TRUE)]
CheckArm(c, flow, s, i, layout, at) ==
  check_block(WithFlow(c, Bind(flow, s.n[i].names, ArmLocals(s, i, layout, at))), s.blocks[i], FALSE)
AfterArm(done, arm, names) ==
  [st |-> Leave(arm.st, names), blocks |-> Append(done.blocks, arm.out),
   flows |-> done.flows \o (IF arm.falls THEN <<Unbind(arm.st.flow, names)>> ELSE <<>>)]
CheckArms(c, s, layout, at) ==
  FoldLeft(LAMBDA done, i : AfterArm(done, CheckArm(done.st, c.flow, s, i, layout, at),
                                     ToSet(s.n[i].names)),
           [st |-> c, blocks |-> <<>>, flows |-> <<>>], [i \in DOMAIN s.n |-> i])
MatchJoin(c, s, arms) == Join(c.flow, s, arms.blocks, arms.flows, arms.st)
MatchArms(s, layout, allocated) ==
  IF ~Going(allocated.st) THEN Done(allocated.st, s, TRUE)
  ELSE MatchJoin(allocated.st, [s EXCEPT !.at = allocated.out],
                 CheckArms(allocated.st, s, layout, allocated.out))
MatchSubject(c, s, v) ==
  CASE v.type = Invalid -> Done(c, s, TRUE)
    [] v.type.kind # "Variant" \/ v.nil -> Done(Accept(c, FALSE), s, TRUE)
    [] OTHER ->
         LET layout == c.env.layouts.Variant[v.type.of]
         IN  IF ~ArmsAreExact(c, s, layout) THEN Done(Accept(c, FALSE), s, TRUE)
             ELSE MatchArms(s, layout, Allocate(c, s.at, FirstLocal(s, Len(s.n) + 1)))
check_match(s, checked) ==
  MatchSubject(checked.st, [s EXCEPT !.xs = Exprs(checked.out)], checked.out[1].v)

(***************************************************************************)
(* Loops.  The body is checked again until what is known at its head no    *)
(* longer changes.                                                         *)
(***************************************************************************)
LoopNamed(c, label) == Where(LAMBDA loop : label = None \/ loop.label = label, c.loops)
check_loop_control(c, s) ==
  LET enclosing == LoopNamed(c, s.label)
  IN  CASE enclosing = {} -> Done(Accept(c, FALSE), s, TRUE)
        [] enclosing # {} /\ s.k = "Break" ->
             Done([c EXCEPT !.loops[Max(enclosing)].breaks = Append(@, c.flow)], s, FALSE)
        [] OTHER -> Done([c EXCEPT !.loops[Max(enclosing)].continues = Append(@, c.flow)], s, FALSE)

check_loop_label(c, s) ==
  Accept(c, s.label = None \/ \A loop \in ToSet(c.loops) : loop.label # s.label)
max_loop_iterations(c) == c.env.pair_sites + c.next + 8

Looped(c, s, breaks) == [st |-> c, out |-> s, breaks |-> breaks]
RECURSIVE LoopFrom(_, _, _, _, _)
NextPass(c, head, s, names, locals, loop, left) ==
  CASE ~Going(c) \/ c.flow = head -> Looped(c, s, loop.breaks)
    [] left = 1 -> Looped(Accept(c, FALSE), s, loop.breaks)
    [] OTHER    -> LoopFrom(c, s, names, locals, left - 1)
CloseLoop(c, head, s, names, locals, falls, left) ==
  LET loop == Last(c.loops)
      back == (IF falls THEN <<c.flow>> ELSE <<>>) \o loop.continues
  IN  NextPass([c EXCEPT !.loops = Front(@), !.flow = MergedFlows(head, <<head>> \o back)],
               head, s, names, locals, loop, left)
LoopBody(head, s, names, locals, body, left) ==
  CloseLoop(Leave(body.st, ToSet(names)), head, [s EXCEPT !.blocks = <<body.out>>], names, locals,
            body.falls, left)
\* Only a while loop evaluates its operand on every pass.
LoopCondition(head, s, names, locals, checked, left) ==
  LoopBody(head, [s EXCEPT !.xs = IF s.k = "While" THEN Exprs(checked.out) ELSE @], names, locals,
           check_block([Accept(checked.st, \A v \in ToSet(Values(checked.out)) : v.type \in {Invalid, Bool})
                        EXCEPT !.flow = Bind(@, names, locals),
                               !.loops = Append(@, [label |-> s.label, breaks |-> <<>>,
                                                    continues |-> <<>>])],
                       s.blocks[1], FALSE),
           left)
LoopFrom(c, s, names, locals, left) ==
  LoopCondition(c.flow, s, names, locals,
                check_exprs(c, IF s.k = "While" THEN s.xs ELSE <<>>), left)

IsTrue(x) == x.k = "Bool" /\ x.n
WhileExit(s, looped) ==
  LET exits == (IF IsTrue(s.xs[1]) THEN <<>> ELSE <<looped.st.flow>>) \o looped.breaks
  IN  Done(WithFlow(looped.st, MergedFlows(looped.st.flow, exits)), looped.out, exits # <<>>)
check_while(c, s) ==
  WhileExit(s, LoopFrom(check_loop_label(c, s), s, <<>>, <<>>, max_loop_iterations(c)))

\* What a for loop binds: a number, an element, or a key and a value.
LoopValues(vs) ==
  CASE Len(vs) = 2 -> IF \A v \in ToSet(vs) : v.type \in {Invalid, Int64}
                      THEN <<scalar_value(Int64)>> ELSE None
    [] vs[1].type.kind = "Array" /\ ~vs[1].nil -> <<load_array_element(vs[1])>>
    [] vs[1].type.kind = "Map" /\ ~vs[1].nil ->
         <<value_from_type(vs[1].type.of[1]), value_from_type(vs[1].type.of[2])>>
    [] OTHER -> None
ForExit(looped) ==
  Done(WithFlow(looped.st, MergedFlows(looped.st.flow, <<looped.st.flow>> \o looped.breaks)), looped.out, TRUE)
ForLocals(s, values, allocated) ==
  IF ~Going(allocated.st) THEN Done(allocated.st, s, TRUE)
  ELSE ForExit(LoopFrom(allocated.st, [s EXCEPT !.at = allocated.out], s.n,
                        [i \in DOMAIN values |->
                           Local(allocated.out[i], values[i].type, values[i], TRUE)],
                        max_loop_iterations(allocated.st)))
ForValues(c, s, values) ==
  IF \/ values = None \/ ~Going(c)
     \/ Len(values) # Len(s.n) \/ ~Distinct(s.n) \/ \E name \in ToSet(s.n) : ~IsFresh(c, name)
  THEN Done(Accept(c, FALSE), s, TRUE)
  ELSE ForLocals(s, values, AllocateLoopLocals(c, s.at, Len(values)))
ForIterable(c, s, checked) ==
  IF Len(s.xs) = 1 /\ AnyInvalid(Values(checked)) THEN Done(c, s, TRUE)
  ELSE ForValues(c, [s EXCEPT !.xs = Exprs(checked)], LoopValues(Values(checked)))
check_for_in(s, checked) == ForIterable(check_loop_label(checked.st, s), s, checked.out)

\* Statements that evaluate their operands first.
WithOperands(s, checked, top) ==
  CASE s.k = "If"    -> check_if(s, checked)
    [] s.k = "For"   -> check_for_in(s, checked)
    [] s.k = "Match" -> check_match(s, checked)
    [] OTHER         -> ActOn(s, checked, top)
check_statement(c, s, top) ==
  CASE s.k = "While" -> check_while(c, s)
    [] s.k = "Try"   -> check_try_catch(c, s)
    [] s.k \in {"Break", "Continue"} -> check_loop_control(c, s)
    [] OTHER         -> WithOperands(s, check_exprs(c, s.xs), top)
=============================================================================
