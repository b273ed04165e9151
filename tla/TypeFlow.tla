------------------------------ MODULE TypeFlow ------------------------------
(***************************************************************************)
(* What the type checker of src/frontend/type_checker_internal.cpp knows:  *)
(* the declarations and their instances, the types it resolves, what each  *)
(* local and each pair literal may hold at a point of the program, and     *)
(* when a value conforms to a type.                                        *)
(*                                                                         *)
(* A checking operator takes the checker's state and a part of the program *)
(* and returns both, changed: [st, out].  A diagnostic clears ok, after    *)
(* which the rest of the program no longer matters; wild records that the  *)
(* checker used a local its context does not have, or threw an exception   *)
(* that nothing catches.                                                   *)
(***************************************************************************)
EXTENDS Source

CONSTANT MaxInstantiationDepth   \* 32 in the code

Result(st, out) == [st |-> st, out |-> out]

\* Op applied along a sequence, each application starting in the state the
\* one before left.
Thread(Op(_, _), st, seq) ==
  FoldLeft(LAMBDA done, e : LET next == Op(done.st, e)
                            IN  Result(next.st, Append(done.out, next.out)),
           Result(st, <<>>), seq)

TheOnly(S) == CHOOSE e \in S : TRUE
Where(Holds(_), seq) == {i \in DOMAIN seq : Holds(seq[i])}

(***************************************************************************)
(* Declarations and written types.                                         *)
(***************************************************************************)
PairKinds   == {"Pair", "Object", "Named", "Nominal"}
ObjectKinds == PairKinds \cup {"Record", "Variant", "Array", "Str", "Function", "Map",
                               "Weak", "Ephemeron", "Builder"}
IsPair(type) == type.kind \in PairKinds
IsScalar(type) == type.kind \in {"Int64", "Bool"}
is_object_type(type) == type.kind \in ObjectKinds

Require(env, condition) == IF condition THEN env ELSE [env EXCEPT !.ok = FALSE]

PartsAreAllowed(kind, parts) ==
  CASE kind = "Map" -> is_valid_map_key_type(parts[1]) \/ parts[1].kind = "Parameter"
    [] kind \in {"Weak", "Ephemeron"} -> is_object_type(parts[1]) \/ parts[1].kind = "Parameter"
    [] OTHER -> TRUE

RECURSIVE resolve_type(_, _, _)
ResolveAll(env, types, defer) == Thread(LAMBDA e, t : resolve_type(e, t, defer), env, types)
ResolveCases(env, cases, defer) == Thread(LAMBDA e, ts : ResolveAll(e, ts, defer), env, cases)

\* An instance is recorded before its own parts are resolved, so that they
\* may refer to it.
PlaceInstance(env, declaration, arguments) ==
  [env EXCEPT
     !.made = Append(@, [generic |-> declaration.name, arguments |-> arguments,
                         type |-> Type(declaration.kind, Len(env.layouts[declaration.kind]) + 1)]),
     !.layouts[declaration.kind] =
        Append(@, instantiate_generic_nominal(declaration, arguments)),
     !.depth = @ + 1]

FillLayout(env, resolved, type) ==
  Result([resolved.st EXCEPT !.depth = env.depth, !.layouts[type.kind][type.of].cases = resolved.out],
         type)

request_generic_nominal_instantiation(env, declaration, arguments) ==
  LET made == Where(LAMBDA m : m.generic = declaration.name /\ m.arguments = arguments, env.made)
  IN  CASE made # {} -> Result(env, env.made[TheOnly(made)].type)
        [] made = {} /\ env.depth >= MaxInstantiationDepth -> Result(Require(env, FALSE), Invalid)
        [] OTHER ->
             FillLayout(env,
                        ResolveCases(PlaceInstance(env, declaration, arguments),
                                     instantiate_generic_nominal(declaration, arguments).cases,
                                     FALSE),
                        Type(declaration.kind, Len(env.layouts[declaration.kind]) + 1))

IsConcrete(declaration) == declaration.arity = 0
OfKind(nominals, kind) ==
  SelectSeq(nominals, LAMBDA d : d.kind = kind /\ IsConcrete(d))

ResolveNominal(env, type, defer) ==
  LET known == Where(LAMBDA d : d.name = type.of.name, env.nominals)
      declaration == env.nominals[TheOnly(known)]
  IN  CASE known = {} -> Result(Require(env, FALSE), Invalid)
        [] Len(type.of.args) # declaration.arity -> Result(Require(env, FALSE), Invalid)
        [] IsConcrete(declaration) ->
             Result(env, Type(declaration.kind,
                              Len(OfKind(SubSeq(env.nominals, 1, TheOnly(known)),
                                         declaration.kind))))
        [] defer \/ contains_type_parameter(type) -> Result(env, type)
        [] OTHER -> request_generic_nominal_instantiation(env, declaration, type.of.args)

WithResolvedParts(type, parts, defer) ==
  IF type.kind = "Nominal"
  THEN ResolveNominal(parts.st, WithParts(type, parts.out), defer)
  ELSE Result(Require(parts.st, PartsAreAllowed(type.kind, parts.out)), WithParts(type, parts.out))

resolve_type(env, type, defer) ==
  WithResolvedParts(type, ResolveAll(env, Parts(type), defer), defer)

ResolveWritten(env, as, defer) == IF as = None THEN Result(env, None) ELSE resolve_type(env, as, defer)

\* Of a statement only the types a let or a catch declares.
RECURSIVE resolve_statement_types(_, _, _)
ResolveBlock(env, block, defer) ==
  Thread(LAMBDA e, s : resolve_statement_types(e, s, defer), env, block)
ResolvedStatement(s, as, blocks) == Result(blocks.st, [s EXCEPT !.as = as, !.blocks = blocks.out])
ResolveInner(s, written, defer) ==
  ResolvedStatement(s, written.out,
                    Thread(LAMBDA e, b : ResolveBlock(e, b, defer), written.st, s.blocks))
resolve_statement_types(env, s, defer) == ResolveInner(s, ResolveWritten(env, s.as, defer), defer)

ParameterTypes(f) == [i \in DOMAIN f.params |-> f.params[i].type]
ResolvedCallable(f, types, result, body) ==
  Result(body.st, [f EXCEPT !.params = [i \in DOMAIN @ |-> [@[i] EXCEPT !.type = types[i]]],
                            !.result = result, !.body = body.out])
ResolveCallableBody(f, types, result, defer) ==
  ResolvedCallable(f, types, result.out, ResolveBlock(result.st, f.body, defer))
ResolveSignature(f, types, defer) ==
  ResolveCallableBody(f, types.out, ResolveWritten(types.st, f.result, defer), defer)
resolve_function_types(env, f) ==
  ResolveSignature(f, ResolveAll(env, ParameterTypes(f), f.arity > 0), f.arity > 0)

(***************************************************************************)
(* Symbols, in the order the checker collects them.                        *)
(***************************************************************************)
Distinct(names) == Cardinality(ToSet(names)) = Len(names)
NamesOf(things) == [i \in DOMAIN things |-> things[i].name]

ResolveDeclaration(env, declaration) ==
  LET resolved == ResolveCases(env, declaration.cases, ~IsConcrete(declaration))
      at == Len(OfKind(SubSeq(env.nominals, 1,
                              TheOnly(Where(LAMBDA d : d = declaration, env.nominals))),
                       declaration.kind))
  IN  IF IsConcrete(declaration)
      THEN [resolved.st EXCEPT !.layouts[declaration.kind][at].cases = resolved.out]
      ELSE resolved.st

Unchecked(p) ==
  [nominals |-> p.nominals,
   layouts |-> [kind \in {"Named", "Record", "Variant"} |-> OfKind(p.nominals, kind)],
   made |-> <<>>,                                      \* instances of generic nominal types
   symbols |-> <<>>, functions |-> p.functions,        \* program functions, then instances
   generics |-> p.generics, instances |-> <<>>,
   entry |-> p.entry, pair_sites |-> p.pair_sites, depth |-> 0,
   ok |-> /\ Distinct(NamesOf(p.nominals))
          /\ \A d \in ToSet(p.nominals) : Distinct(d.names),
   wild |-> FALSE]

Declarations(env) ==
  FoldLeft(ResolveDeclaration, env,
           SelectSeq(env.nominals, IsConcrete) \o
           SelectSeq(env.nominals, LAMBDA d : ~IsConcrete(d)))

WithFunctions(functions) == [functions.st EXCEPT !.functions = functions.out]
WithGenerics(generics)   == [generics.st EXCEPT !.generics = generics.out]
WithEntry(entry)         == [entry.st EXCEPT !.entry = entry.out]

ResolveFunctions(env) == WithFunctions(Thread(resolve_function_types, env, env.functions))
ResolveGenerics(env)  == WithGenerics(Thread(resolve_function_types, env, env.generics))
ResolveEntry(env)     == WithEntry(resolve_function_types(env, env.entry))

collect_type_symbols(p) ==
  ResolveEntry(ResolveGenerics(ResolveFunctions(Declarations(Unchecked(p)))))

Symbol(name, f) == [name |-> name, params |-> ParameterTypes(f), result |-> f.result]
collect_function_symbols(env) ==
  Require([env EXCEPT !.symbols = [i \in DOMAIN env.functions |->
                                     Symbol(env.functions[i].name, env.functions[i])]],
          Distinct(NamesOf(env.functions \o env.generics)))

(***************************************************************************)
(* What is known of a value: its type, the pair literals it may come from, *)
(* whether it may be nil, and of an array what its elements are.           *)
(***************************************************************************)
TypedValue(type, sites, nil, element) == [type |-> type, sites |-> sites, nil |-> nil, element |-> element]
invalid_value == TypedValue(Invalid, {}, FALSE, None)
nil_value == TypedValue(NilType, {}, TRUE, None)
scalar_value(type) == TypedValue(type, {}, FALSE, None)
NonNil(v) == [v EXCEPT !.nil = FALSE]

RECURSIVE value_from_type(_)
value_from_type(type) ==
  IF type.kind = "Array"
  THEN TypedValue(type, {}, FALSE, NonNil(value_from_type(type.of[1])))
  ELSE TypedValue(type, {}, type.kind \in {"Named", "Record", "Variant"}, None)

RECURSIVE value_as_declared_type(_, _)
value_as_declared_type(v, type) ==
  TypedValue(type,
        IF is_object_type(type) THEN v.sites ELSE {},
        is_object_type(type) /\ (v.nil \/ v.type = NilType),
        CASE type.kind # "Array" -> None
          [] v.element # None    -> NonNil(value_as_declared_type(v.element, type.of[1]))
          [] OTHER               -> NonNil(value_from_type(type.of[1])))

join_types(l, r) ==
  CASE l = Invalid \/ l = r -> r
    [] r = Invalid          -> l
    [] l = NilType /\ (IsPair(r) \/ r.kind \in {"Record", "Variant"}) -> r
    [] r = NilType /\ (IsPair(l) \/ l.kind \in {"Record", "Variant"}) -> l
    [] IsPair(l) /\ IsPair(r) -> AnyPair
    [] OTHER -> Invalid

RECURSIVE join_checked_values(_, _)
JoinElements(l, r) ==
  CASE l = None -> r
    [] r = None -> l
    [] OTHER    -> join_checked_values(l, r)
\* Mutant: maybe nil only where it is on both paths.
JoinedUnlessNil(type, l, r) ==
  TypedValue(type,
        IF is_object_type(type) THEN l.sites \cup r.sites ELSE {},
        is_object_type(type) /\ l.nil /\ r.nil,
        IF type.kind = "Array" THEN JoinElements(l.element, r.element) ELSE None)

JoinedAs(type, l, r) ==
  TypedValue(type,
        IF is_object_type(type) THEN l.sites \cup r.sites ELSE {},
        is_object_type(type) /\ (l.nil \/ r.nil \/ NilType \in {l.type, r.type}),
        IF type.kind = "Array" THEN JoinElements(l.element, r.element) ELSE None)
join_checked_values(l, r) ==
  CASE l.type = Invalid -> r
    [] r.type = Invalid -> l
    [] OTHER            -> JoinedAs(join_types(l.type, r.type), l, r)

join_fields(l, r) == [side \in 1..2 |-> join_checked_values(l[side], r[side])]

(***************************************************************************)
(* A flow state: the locals in scope and, for each pair literal evaluated  *)
(* so far, what its two fields may hold.                                   *)
(***************************************************************************)
JoinSite(l, r, site) ==
  CASE site \notin DOMAIN l -> r[site]
    [] site \notin DOMAIN r -> l[site]
    [] OTHER -> join_fields(l[site], r[site])
JoinPairSites(l, r) == [site \in DOMAIN l \cup DOMAIN r |-> JoinSite(l, r, site)]

join_states(l, r) ==
  [locals |-> [name \in DOMAIN l.locals |->
                 [l.locals[name] EXCEPT !.value = join_checked_values(@, r.locals[name].value)]],
   sites |-> JoinPairSites(l.sites, r.sites)]

\* Where the flows of several branches meet; without any, control does not
\* get there and the state stays what it was.
MergedFlows(before, flows) ==
  IF flows = <<>> THEN before ELSE FoldLeft(join_states, Head(flows), Tail(flows))

BodyOf(env, type) == env.layouts.Named[type.of].cases[1]
DeclaredFields(env, type) ==
  CASE type.kind = "Pair"  -> type.of
    [] type.kind = "Named" -> BodyOf(env, type)
    [] OTHER               -> None

InOrder(sites) == SetToSortSeq(sites, <)
LoadedFrom(env, sites, v, side) ==
  LET facts == [i \in 1..Cardinality(v.sites) |-> sites[InOrder(v.sites)[i]][side]]
      declared == DeclaredFields(env, v.type)
  IN  IF declared # None
      THEN FoldLeft(join_checked_values, value_from_type(declared[side]), facts)
      ELSE FoldLeft(join_checked_values, invalid_value, facts)

\* What a field of a pair may hold, None when that is not known.
try_load_field(env, sites, v, side) ==
  IF ~IsPair(v.type) \/ v.nil \/ ~(v.sites \subseteq DOMAIN sites)
  THEN None
  ELSE LET loaded == LoadedFrom(env, sites, v, side)
       IN  IF loaded.type = Invalid THEN None ELSE loaded

HasEvidence(v) == v.type.kind \in {"Named", "Pair"} \/ v.sites # {}

RECURSIVE Conforms(_, _, _, _, _)
FieldConforms(env, sites, loaded, type, assumed) ==
  loaded # None /\ Conforms(env, sites, loaded, type, assumed)
ConformsToNamed(env, sites, v, target, assumed) ==
  \/ <<v.type, v.sites, target>> \in assumed
  \/ Conforms(env, sites, NonNil(v), Type("Pair", BodyOf(env, target)),
              assumed \cup {<<v.type, v.sites, target>>})
Conforms(env, sites, v, target, assumed) ==
  CASE Invalid \in {v.type, target} -> FALSE
    [] target.kind = "Array" ->
         /\ v.type.kind = "Array" /\ ~v.nil
         /\ IsScalar(target.of[1]) = IsScalar(v.type.of[1])
         /\ IF v.element = None THEN v.type = target
            ELSE Conforms(env, sites, v.element, target.of[1], assumed)
    [] target.kind \in {"Record", "Variant"} -> v.type \in {NilType, target}
    [] target.kind = "Named" ->
         \/ v.type = NilType
         \/ IsPair(v.type) /\ (IF HasEvidence(v)
                               THEN ConformsToNamed(env, sites, v, target, assumed)
                               ELSE v.nil)
    [] ~IsPair(target) /\ target # NilType -> ~v.nil /\ v.type = target
    [] OTHER ->
         /\ IsPair(v.type) /\ ~v.nil
         /\ target.kind = "Pair" =>
              \A side \in 1..2 :
                FieldConforms(env, sites, try_load_field(env, sites, v, side), target.of[side],
                              assumed)

(***************************************************************************)
(* The checker inside a callable.                                          *)
(***************************************************************************)
EnterCallable(env, f, scopes) ==
  [env |-> Require(env, Distinct(NamesOf(f.params))),
   flow |-> [locals |-> [name \in ToSet(NamesOf(f.params)) |->
                           LET i == TheOnly(Where(LAMBDA p : p.name = name, f.params))
                           IN  [index |-> i, type |-> f.params[i].type,
                                value |-> value_from_type(f.params[i].type), fixed |-> FALSE]],
             sites |-> <<>>],
   next |-> Len(f.params),   \* locals allocated so far
   scopes |-> scopes,        \* enclosing callables' locals and what each lambda captured
   loops |-> <<>>,           \* enclosing loops: label, states at breaks and continues
   tries |-> 0,              \* active try regions
   result |-> f.result]

Going(c) == c.env.ok /\ ~c.env.wild
Accept(c, condition) == [c EXCEPT !.env = Require(@, condition)]
value_conforms_to_type(c, v, type) == Conforms(c.env, c.flow.sites, v, type, {})
\* A part already diagnosed is not diagnosed again.
Fits(c, v, type) == v.type = Invalid \/ value_conforms_to_type(c, v, type)

capture_name_is_visible(c, name) ==
  \E scope \in ToSet(c.scopes) :
    name \in DOMAIN scope.locals \cup ToSet(NamesOf(scope.captures))
IsFresh(c, name) == name \notin DOMAIN c.flow.locals /\ ~capture_name_is_visible(c, name)

Local(index, type, value, fixed) == [index |-> index, type |-> type, value |-> value, fixed |-> fixed]
\* Names, each with its local; a name already in scope keeps its meaning.
Bind(flow, names, locals) ==
  [flow EXCEPT !.locals = @ @@ [name \in ToSet(names) |->
                                  locals[TheOnly(Where(LAMBDA n : n = name, names))]]]
Unbind(flow, names) == [flow EXCEPT !.locals = Restrict(@, DOMAIN @ \ names)]
UnbindAll(flows, names) == [i \in DOMAIN flows |-> Unbind(flows[i], names)]

\* Leaving the scope of names: in the state at hand and in those that left
\* through a break or a continue.
Leave(c, names) ==
  [c EXCEPT !.flow = Unbind(@, names),
            !.loops = [i \in DOMAIN @ |-> [@[i] EXCEPT !.breaks = UnbindAll(@, names),
                                                      !.continues = UnbindAll(@, names)]]]

\* The locals a statement introduces keep their indices when a loop checks
\* it again; only a for loop makes sure that the context has them.
Allocate(c, at, count) ==
  IF at = None
  THEN Result([c EXCEPT !.next = @ + count], [i \in 1..count |-> c.next + i])
  ELSE Result(IF \A i \in ToSet(at) : i <= c.next THEN c ELSE [c EXCEPT !.env.wild = TRUE], at)
RegisterExisting(c, index) ==
  CASE index <= c.next     -> c
    [] index = c.next + 1  -> [c EXCEPT !.next = index]
    [] OTHER               -> [c EXCEPT !.env.wild = TRUE]
AllocateLoopLocals(c, at, count) ==
  IF at = None THEN Allocate(c, at, count) ELSE Result(FoldLeft(RegisterExisting, c, at), at)

(***************************************************************************)
(* Captures, from the innermost lambda outwards.  out is the position of   *)
(* the capture, None when the name is not visible.                         *)
(***************************************************************************)
Capture(name, type, from, up) == [name |-> name, type |-> type, from |-> from, up |-> up]
AddCapture(c, depth, capture) ==
  Result([c EXCEPT !.scopes[depth].captures = Append(@, capture)],
         Len(c.scopes[depth].captures) + 1)
CaptureLocal(c, depth, name, local) ==
  AddCapture(Accept(c, ~local.value.nil), depth, Capture(name, local.type, local.index, FALSE))

RECURSIVE try_ensure_capture(_, _, _)
CaptureUp(parent, depth, name) ==
  IF parent.out = None THEN parent
  ELSE AddCapture(parent.st, depth,
                  Capture(name, parent.st.scopes[depth - 1].captures[parent.out].type,
                          parent.out, TRUE))
try_ensure_capture(c, depth, name) ==
  IF depth = 0 THEN Result(c, None)
  ELSE LET scope == c.scopes[depth]
           existing == Where(LAMBDA k : k.name = name, scope.captures)
       IN  CASE existing # {} -> Result(c, TheOnly(existing))
             [] existing = {} /\ name \in DOMAIN scope.locals ->
                  CaptureLocal(c, depth, name, scope.locals[name])
             [] OTHER -> CaptureUp(try_ensure_capture(c, depth - 1, name), depth, name)
=============================================================================
