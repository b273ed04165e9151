------------------------------ MODULE Compiler ------------------------------
(***************************************************************************)
(* The compiler of src/frontend/compiler.cpp: code for every callable of a *)
(* checked program, and the module's tables.                               *)
(*                                                                         *)
(* A compilation is a record: the code emitted so far, the number of       *)
(* locals (temporaries follow those of the source), the handlers, the      *)
(* enclosing loops with the jumps still to be patched, and the layouts     *)
(* that maps and ephemerons add to the module.  ok is cleared where an     *)
(* assertion of the compiler fails.                                        *)
(***************************************************************************)
EXTENDS TypeChecker, Instructions

\* nil and an expression without a type have the same signature.
RECURSIVE signature_value_from_type(_)
signature_value_from_type(type) ==
  CASE type.kind = "Nominal" -> AnyPair
    [] type.kind = "Invalid" -> NilType
    [] OTHER -> WithParts(type, [i \in DOMAIN Parts(type) |-> signature_value_from_type(Parts(type)[i])])
Signatures(types) == [i \in DOMAIN types |-> signature_value_from_type(types[i])]

(***************************************************************************)
(* Emitting and patching.                                                  *)
(***************************************************************************)
pc(k) == Len(k.code) + 1
emit(k, code) == [k EXCEPT !.code = @ \o code]
patch(k, at, target) == [k EXCEPT !.code[at].a = target]
PatchAll(k, jumps, target) ==
  FoldLeft(LAMBDA done, at : patch(done, at, target), k, jumps)
allocate_temps(k, n) == [k EXCEPT !.locals = @ + n]

Branch        == I1("Jump", 0)
BranchIfFalse == I1("JumpIfFalse", 0)
bool_literal == <<Const, Const, I("LessI64")>>

\* Code whose jumps count from its own start.
Code(code) == [code |-> code]
Relocated(code, base) ==
  [i \in DOMAIN code |-> IF code[i].op \in {"Jump", "JumpIfFalse"} THEN [code[i] EXCEPT !.a = @ + base]
                         ELSE code[i]]

\* Expressions and code, in order.
RECURSIVE compile_expr(_, _)
Sequence(k, items) ==
  FoldLeft(LAMBDA done, item : IF "code" \in DOMAIN item
                               THEN emit(done, Relocated(item.code, Len(done.code)))
                               ELSE compile_expr(done, item),
           k, items)

(***************************************************************************)
(* Expressions.                                                            *)
(***************************************************************************)
invert_bool_on_stack ==
  <<I1("JumpIfFalse", 6)>> \o bool_literal \o <<I1("Jump", 9)>> \o bool_literal
bool_as_scalar_storage == <<I1("JumpIfFalse", 4), Const, I1("Jump", 5), Const>>
scalar_storage_as_bool == <<Const, I("LessI64")>>

AsArrayStorage(x, element) ==
  IF element = Bool THEN <<x, Code(bool_as_scalar_storage)>> ELSE <<x>>
ArrayOp(element, scalar, reference) == I(IF IsScalar(element) THEN scalar ELSE reference)
ReadElement(element) ==
  <<ArrayOp(element, "ArrayGet", "RefArrayGet")>> \o
  (IF element = Bool THEN scalar_storage_as_bool ELSE <<>>)

LengthOf(type) ==
  I(CASE type = Str -> "StrLen" [] type.kind = "Map" -> "MapLen"
      [] type = Builder -> "BuilderLen" [] OTHER -> "ArrayLen")
ReadField(x, type) ==
  CASE type.kind = "Record" -> I2("RecordGet", type.of, x.at)
    [] x.n = "len"          -> LengthOf(type)
    [] OTHER                -> I1("GetField", x.at)
ReadIndex(type) ==
  CASE type = Str        -> <<I("StrIndex")>>
    [] type.kind = "Map" -> <<I("MapGet")>>
    [] OTHER             -> ReadElement(type.of[1])

\* A name that was never checked is a load of the first local.
ReadName(x) ==
  CASE x.at = None         -> Load(1)
    [] x.at.k = "capture"  -> I1("LoadCapture", x.at.i)
    [] x.at.k = "function" -> I1("AllocClosure", x.at.i)
    [] x.at.k = "local"    -> Load(x.at.i)

\* Operations that follow their operands.
OperationsOf(x) ==
  CASE x.k = "Int"       -> <<Const>>
    [] x.k = "Bool"      -> bool_literal
    [] x.k = "String"    -> <<I("PushStr")>>
    [] x.k = "Nil"       -> <<I("Nil")>>
    [] x.k = "Builder"   -> <<I("AllocBuilder")>>
    [] x.k = "Var"       -> <<ReadName(x)>>
    [] x.k = "Pair"      -> <<I("AllocPair")>>
    [] x.k = "Record"    -> <<I1("AllocRecord", x.as.of)>>
    [] x.k = "Variant"   -> <<I2("AllocVariant", x.as.of, x.at)>>
    [] x.k = "Index"     -> ReadIndex(x.xs[1].type)
    [] x.k = "Field"     -> <<ReadField(x, x.xs[1].type)>>
    [] x.k = "Sub"       -> <<I("StrSub")>>
    [] x.k = "Abs"       -> <<I("I64Abs")>>
    [] x.k = "Add"       -> <<I(IF x.xs[1].type = Str THEN "StrConcat" ELSE "AddI64")>>
    [] x.k = "Less"      -> <<I(IF x.xs[1].type = Str THEN "StrLt" ELSE "LessI64")>>
    [] x.k = "Eq"        -> <<I("StrEq")>>
    [] x.k = "IsNil"     -> <<I("IsNil")>>
    [] x.k = "MapHas"    -> <<I("MapHas")>>
    [] x.k = "Weak"      -> <<I("AllocWeak")>>
    [] x.k = "WeakGet"   -> <<I("WeakGet")>>
    [] x.k = "EphemeronKey"   -> <<I("EphemeronKey")>>
    [] x.k = "EphemeronValue" -> <<I("EphemeronValue")>>
    [] x.k = "BuilderToStr"   -> <<I("BuilderToStr")>>
    [] x.k = "ToStr"     -> <<I(IF x.xs[1].type = Bool THEN "BoolToStr" ELSE "I64ToStr")>>
    [] x.k = "ToI64"     -> <<I("StrToI64")>>
    [] x.k = "Intern"    -> <<I("StrIntern")>>
    [] x.k = "GreaterEq" -> <<I("StrLt")>>
    [] x.k = "NotEq"     -> <<I("StrEq")>>

\* Both operands are stored first, in temporaries t and t + 1.
StoredOperands(x, t) == <<x.xs[1], Code(<<Store(t)>>), x.xs[2], Code(<<Store(t + 1)>>)>>
compile_comparison(k, x, t) ==
  Sequence(allocate_temps(k, 2),
           StoredOperands(x, t) \o <<Code(<<Load(t + 1), Load(t), I("StrLt")>>)>> \o
           (IF x.k = "LessEq" THEN <<Code(invert_bool_on_stack)>> ELSE <<>>))
compile_min_max(k, x, t) ==
  LET chosen == IF x.k = "Min" THEN t ELSE t + 1
  IN  Sequence(allocate_temps(k, 2),
               StoredOperands(x, t) \o
               <<Code(<<Load(t), Load(t + 1), I("LessI64"), I1("JumpIfFalse", 7),
                        Load(chosen), I1("Jump", 8), Load(2 * t + 1 - chosen)>>)>>)

\* String searches: the temporaries are the receiver t, the needle, their
\* lengths and the index.
emit_increment_local(local) == <<Load(local), Const, I("AddI64"), Store(local)>>
candidate_substring(t) ==
  <<Load(t), Load(t + 4), Load(t + 4), Load(t + 3), I("AddI64"), I("StrSub"), Load(t + 1), I("StrEq")>>
search_operands(t) ==
  <<Load(t), I("StrLen"), Store(t + 2), Load(t + 1), I("StrLen"), Store(t + 3), Const, Store(t + 4)>>
contains_or_index_of(t, absent, present) ==
  LET n == Len(absent)
  IN  <<Load(t + 2), Load(t + 4), Load(t + 3), I("AddI64"), I("LessI64"), I1("JumpIfFalse", n + 8)>> \o
      absent \o <<I1("Jump", 2 * n + 23)>> \o
      candidate_substring(t) \o <<I1("JumpIfFalse", 2 * n + 18)>> \o
      present \o <<I1("Jump", 2 * n + 23)>> \o
      emit_increment_local(t + 4) \o <<I1("Jump", 1)>>
starts_with(t) ==
  <<Load(t + 2), Load(t + 3), I("LessI64"), I1("JumpIfFalse", 9)>> \o bool_literal \o
  <<I1("Jump", 17)>> \o candidate_substring(t)
ends_with(t) ==
  <<Load(t + 2), Load(t + 3), I("LessI64"), I1("JumpIfFalse", 9)>> \o bool_literal \o
  <<I1("Jump", 28), Load(t + 4), Load(t + 3), I("AddI64"), Load(t + 2), I("LessI64"),
    I1("JumpIfFalse", 20)>> \o
  emit_increment_local(t + 4) \o <<I1("Jump", 9)>> \o candidate_substring(t)
SearchFor(x, t) ==
  CASE x.k = "Contains"   -> contains_or_index_of(t, bool_literal, bool_literal)
    [] x.k = "IndexOf"    -> contains_or_index_of(t, <<Const>>, <<Load(t + 4)>>)
    [] x.k = "StartsWith" -> starts_with(t)
    [] x.k = "EndsWith"   -> ends_with(t)
compile_string_search(k, x, t) ==
  Sequence(allocate_temps(k, 5),
           StoredOperands(x, t) \o <<Code(search_operands(t)), Code(SearchFor(x, t))>>)

compile_array_sized(k, x) ==
  Sequence(k, <<x.xs[1]>> \o AsArrayStorage(x.xs[2], x.as) \o
              <<Code(<<ArrayOp(x.as, "AllocArray", "AllocRefArray")>>)>>)

FurtherElement(x, element, t) ==
  <<Code(<<Load(t), Const>>)>> \o AsArrayStorage(x, element) \o
  <<Code(<<ArrayOp(element, "ArraySet", "RefArraySet")>>)>>
FurtherElements(k, xs, element, t) ==
  IF xs = <<>> THEN k
  ELSE Sequence(allocate_temps(k, 1),
                <<Code(<<Store(t)>>)>> \o
                FlattenSeq([i \in DOMAIN xs |-> FurtherElement(xs[i], element, t)]) \o
                <<Code(<<Load(t)>>)>>)
FirstElement(k, xs, element) == FurtherElements(k, Tail(xs), element, k.locals + 1)
compile_array_literal(k, x) ==
  FirstElement(Sequence(k, <<Code(<<Const>>)>> \o AsArrayStorage(x.xs[1], x.type.of[1]) \o
                           <<Code(<<ArrayOp(x.type.of[1], "AllocArray", "AllocRefArray")>>)>>),
               x.xs, x.type.of[1])

\* Every map and every ephemeron expression has a layout of its own.
compile_map_empty(k, x) ==
  emit([k EXCEPT !.maps = Append(@, Signatures(x.as.of)),
                 !.ok = @ /\ is_valid_map_key_type(x.as.of[1])],
       <<I1("AllocMap", Len(k.maps) + 1)>>)
compile_ephemeron(k, type) ==
  emit([k EXCEPT !.ephemerons = Append(@, Signatures(type.of))],
       <<I1("AllocEphemeron", Len(k.ephemerons) + 1)>>)

\* The functions' layouts come first, then one for each lambda.
LambdaLayout(k, lambda) ==
  Len(k.env.symbols) +
  TheOnly(Where(LAMBDA l : l.owner = k.owner /\ l.f.name = lambda.name, k.lambdas))
compile_lambda(k, x) ==
  emit(k, [i \in DOMAIN x.n.captures |->
             I1(IF x.n.captures[i].up THEN "LoadCapture" ELSE "LoadLocal", x.n.captures[i].from)] \o
          <<I1("AllocClosure", LambdaLayout(k, x.n))>>)

\* Function i of the checker is function i + 1 of the module.
compile_call(k, x) ==
  IF x.at # None THEN Sequence(k, Front(x.xs) \o <<Code(<<I1("Call", x.at + 1)>>)>>)
  ELSE Sequence(k, x.xs \o <<Code(<<I("CallClosure")>>)>>)

compile_expr(k, x) ==
  CASE x.k \in {"Greater", "LessEq"} -> compile_comparison(k, x, k.locals + 1)
    [] x.k \in {"Min", "Max"}        -> compile_min_max(k, x, k.locals + 1)
    [] x.k \in {"Contains", "IndexOf", "StartsWith", "EndsWith"} ->
         compile_string_search(k, x, k.locals + 1)
    [] x.k = "ArraySized" -> compile_array_sized(k, x)
    [] x.k = "Array"      -> compile_array_literal(k, x)
    [] x.k = "MapEmpty"   -> compile_map_empty(k, x)
    [] x.k = "Ephemeron"  -> compile_ephemeron(Sequence(k, x.xs), x.type)
    [] x.k = "Lambda"     -> compile_lambda(k, x)
    [] x.k = "Call"       -> compile_call(k, x)
    [] OTHER ->
         Sequence(k, x.xs \o <<Code(OperationsOf(x))>> \o
                     (IF x.k \in {"GreaterEq", "NotEq"} THEN <<Code(invert_bool_on_stack)>> ELSE <<>>))

(***************************************************************************)
(* Statements.  falls tells whether control may reach what follows.        *)
(***************************************************************************)
Flow(k, falls) == [st |-> k, falls |-> falls]
Straight(k, items) == Flow(Sequence(k, items), TRUE)

RECURSIVE compile_statement(_, _)
compile_block(k, block) ==
  FoldLeft(LAMBDA done, s : IF done.falls THEN compile_statement(done.st, s) ELSE done,
           Flow(k, TRUE), block)

compile_assign_field(k, s, type) ==
  Straight(k, <<s.xs[2], s.xs[1],
                Code(<<IF type.kind = "Record" THEN I2("RecordSet", type.of, s.at)
                       ELSE I1("SetField", s.at)>>)>>)
compile_assign_index(k, s, type) ==
  Straight(k, <<s.xs[2], s.xs[3]>> \o
              (IF type.kind = "Map" THEN <<s.xs[1], Code(<<I("MapSet")>>)>>
               ELSE AsArrayStorage(s.xs[1], type.of[1]) \o
                    <<Code(<<ArrayOp(type.of[1], "ArraySet", "RefArraySet")>>)>>))

compile_append(k, s, type) ==
  Straight(k, s.xs \o <<Code((CASE type = Int64 -> <<I("I64ToStr")>> [] type = Bool -> <<I("BoolToStr")>>
                                [] OTHER -> <<>>) \o <<I("BuilderAppend")>>)>>)

\* A jump emitted only when control gets there, patched to the end.
JumpIf(flow) == IF flow.falls THEN emit(flow.st, <<Branch>>) ELSE flow.st
Landed(k, from) == IF from.falls THEN patch(k, pc(from.st), pc(k)) ELSE k

EndIf(then, else) == Flow(Landed(else.st, then), then.falls \/ else.falls)
PatchHere(k, at) == patch(k, at, pc(k))
ElseBranch(s, test, then) ==
  EndIf(then, compile_block(PatchHere(JumpIf(then), test), s.blocks[2]))
ThenBranch(k, s) == ElseBranch(s, Len(k.code), compile_block(k, s.blocks[1]))
compile_if(k, s) == ThenBranch(Sequence(k, <<s.xs[1], Code(<<BranchIfFalse>>)>>), s)

\* The arms follow the order of the cases; the last one is not tested.
ArmFor(k, s, case) == TheOnly(Where(LAMBDA arm : arm.case = k.env.layouts.Variant[s.xs[1].type.of].names[case], s.n))
BindFields(s, case, arm, subject) ==
  FlattenSeq([j \in DOMAIN s.n[arm].names |->
                <<Load(subject), I3("VariantGet", s.xs[1].type.of, case, j),
                  Store(s.at[FirstLocal(s, arm) + j])>>])
TestTag(k, s, case, subject) ==
  IF case = Len(s.n) THEN k
  ELSE emit(k, <<Load(subject + 1), Const, I("LessI64"), BranchIfFalse>>)
EndArm(s, case, test, done, arm) ==
  LET skips == arm.falls /\ case < Len(s.n)
      after == IF skips THEN emit(arm.st, <<Branch>>) ELSE arm.st
  IN  [st |-> IF case < Len(s.n) THEN PatchHere(after, test) ELSE after,
       falls |-> done.falls \/ arm.falls,
       jumps |-> IF skips THEN Append(done.jumps, pc(arm.st)) ELSE done.jumps]
ArmBody(k, s, case, arm, subject, done) ==
  EndArm(s, case, Len(k.code), done,
         compile_block(emit(k, BindFields(s, case, arm, subject)), s.blocks[arm]))
MatchEnd(done) == Flow(PatchAll(done.st, done.jumps, pc(done.st)), done.falls)
CompileArms(k, s, subject) ==
  MatchEnd(FoldLeft(LAMBDA done, case : ArmBody(TestTag(done.st, s, case, subject), s, case,
                                                ArmFor(k, s, case), subject, done),
                    [st |-> k, falls |-> FALSE, jumps |-> <<>>], [case \in DOMAIN s.n |-> case]))
compile_match(k, s, t) ==
  CompileArms(Sequence(allocate_temps(k, 2),
                     <<s.xs[1], Code(<<Store(t), Load(t), I("VariantTag"), Store(t + 1)>>)>>), s, t)

\* The region ends with TryEnd even when its body never gets there.
EndTry(s, h, begin, body, handler) ==
  Flow([Landed(handler.st, [body EXCEPT !.st = emit(@, <<I1("TryEnd", h)>>)]) EXCEPT
          !.handlers[h] = [try_begin |-> begin, try_end |-> pc(body.st),
                           target |-> pc(body.st) + (IF body.falls THEN 2 ELSE 1),
                           layout |-> s.as.of]],
       body.falls \/ handler.falls)
CompileHandler(s, h, begin, body) ==
  EndTry(s, h, begin, body,
         compile_block(emit(JumpIf([body EXCEPT !.st = emit(@, <<I1("TryEnd", h)>>)]),
                            <<Store(s.at[1])>>), s.blocks[2]))
CompileTryBody(k, s, h) == CompileHandler(s, h, Len(k.code), compile_block(k, s.blocks[1]))
compile_try_catch(k, s) ==
  CompileTryBody(emit([k EXCEPT !.handlers = Append(@, None)], <<I1("TryBegin", Len(k.handlers) + 1)>>),
                 s, Len(k.handlers) + 1)

(***************************************************************************)
(* Loops.                                                                  *)
(***************************************************************************)
compile_loop_control(k, s) ==
  LET at == Max(LoopNamed(k, s.label))
  IN  Flow(emit(IF s.k = "Break" THEN [k EXCEPT !.loops[at].breaks = Append(@, pc(k))]
                ELSE [k EXCEPT !.loops[at].continues = Append(@, pc(k))], <<Branch>>), FALSE)

EnterLoop(k, s) == [k EXCEPT !.loops = Append(@, [label |-> s.label, breaks |-> <<>>, continues |-> <<>>])]
LeaveLoop(k) == [k EXCEPT !.loops = Front(@)]

\* The loop's test is the jump at test, 0 when there is none.
LoopExit(k, test, breaks) ==
  PatchAll(k, breaks \o (IF test = 0 THEN <<>> ELSE <<test>>), pc(k))

WhileEnd(k, s, header, test, loop, falls) ==
  Flow(LoopExit(IF falls THEN emit(k, <<I1("Jump", header)>>) ELSE k, test, loop.breaks),
       ~IsTrue(s.xs[1]) \/ loop.breaks # <<>>)
WhileBack(s, header, test, body) ==
  WhileEnd(PatchAll(LeaveLoop(body.st), Last(body.st.loops).continues, header), s, header, test,
           Last(body.st.loops), body.falls)
WhileBody(k, s, header) ==
  WhileBack(s, header, IF IsTrue(s.xs[1]) THEN 0 ELSE Len(k.code),
            compile_block(EnterLoop(k, s), s.blocks[1]))
compile_while(k, s) ==
  WhileBody(IF IsTrue(s.xs[1]) THEN k ELSE Sequence(k, <<s.xs[1], Code(<<BranchIfFalse>>)>>), s, pc(k))

\* A for loop's temporaries: the index t, the bound t + 1, the container t + 2.
ForEnd(k, t, header, test, loop, falls) ==
  LoopExit(IF falls \/ loop.continues # <<>>
           THEN emit(PatchAll(k, loop.continues, pc(k)),
                     emit_increment_local(t) \o <<I1("Jump", header)>>)
           ELSE k, test, loop.breaks)
ForBack(t, header, test, body) ==
  Flow(ForEnd(LeaveLoop(body.st), t, header, test, Last(body.st.loops), body.falls), TRUE)
ForBody(k, s, t, header, test) == ForBack(t, header, test, compile_block(EnterLoop(k, s), s.blocks[1]))

NextElement(s, type, t) ==
  IF type.kind = "Map"
  THEN <<Load(t + 2), Load(t), I("MapKeyAt"), Store(s.at[1]),
         Load(t + 2), Load(t), I("MapValueAt"), Store(s.at[2])>>
  ELSE <<Load(t + 2), Load(t)>> \o ReadElement(type.of[1]) \o <<Store(s.at[1])>>
NextItem(s, t) ==
  IF Len(s.xs) = 2 THEN <<Load(t), Store(s.at[1])>> ELSE NextElement(s, s.xs[1].type, t)
ForTest(k, s, t, header) ==
  ForBody(emit(k, <<Load(t), Load(t + 1), I("LessI64"), BranchIfFalse>> \o NextItem(s, t)), s, t, header,
          Len(k.code) + 4)

\* A map that grew under the loop traps at its head.
GrowthTest(s, t) ==
  <<Load(t + 1), Load(t + 2), I("MapLen"), I("LessI64"), I1("JumpIfFalse", 10),
    Load(t + 2), Const, I("MapKeyAt"), Store(s.at[1])>>
ForHeader(k, s, t) ==
  ForTest(IF Len(s.xs) = 1 /\ s.xs[1].type.kind = "Map"
          THEN Sequence(k, <<Code(GrowthTest(s, t))>>) ELSE k, s, t, pc(k))
compile_for_in(k, s, t) ==
  IF Len(s.xs) = 2 THEN ForHeader(Sequence(allocate_temps(k, 2), StoredOperands(s, t)), s, t)
  ELSE ForHeader(Sequence(allocate_temps(k, 3),
                          <<s.xs[1], Code(<<Store(t + 2), Load(t + 2), LengthOf(s.xs[1].type),
                                            Store(t + 1), Const, Store(t)>>)>>), s, t)

compile_statement(k, s) ==
  CASE s.k \in {"Let", "Assign"} -> Straight(k, <<s.xs[1], Code(<<Store(s.at)>>)>>)
    [] s.k = "AssignField"  -> compile_assign_field(k, s, s.xs[2].type)
    [] s.k = "AssignIndex"  -> compile_assign_index(k, s, s.xs[2].type)
    [] s.k = "If"           -> compile_if(k, s)
    [] s.k = "While"        -> compile_while(k, s)
    [] s.k = "For"          -> compile_for_in(k, s, k.locals + 1)
    [] s.k = "Match"        -> compile_match(k, s, k.locals + 1)
    [] s.k = "Try"          -> compile_try_catch(k, s)
    [] s.k = "Throw"        -> Flow(Sequence(k, <<s.xs[1], Code(<<I("Throw")>>)>>), FALSE)
    [] s.k = "TailCall"     -> Flow(Sequence(k, Front(s.xs[1].xs) \o
                                                <<Code(<<I1("TailCall", s.xs[1].at + 1)>>)>>), FALSE)
    [] s.k \in {"Break", "Continue"} -> compile_loop_control(k, s)
    [] s.k = "Print"        -> Straight(k, <<s.xs[1], Code(<<I("PrintStr")>>)>>)
    [] s.k = "EphemeronSet" -> Straight(k, s.xs \o <<Code(<<I("EphemeronSetValue")>>)>>)
    [] s.k = "Append"       -> compile_append(k, s, s.xs[2].type)
    [] s.k = "Clear"        -> Straight(k, s.xs \o <<Code(<<I("BuilderClear")>>)>>)

(***************************************************************************)
(* The module.                                                             *)
(***************************************************************************)
EndCallable(f, body) ==
  IF body.falls THEN Sequence(body.st, <<f.value, Code(<<I("Return")>>)>>) ELSE body.st
FunctionOfCode(k, f, closure) ==
  [k EXCEPT !.functions = Append(@, [params |-> Signatures(ParameterTypes(f)),
                                     result |-> signature_value_from_type(f.result),
                                     locals |-> k.locals, code |-> k.code,
                                     handlers |-> k.handlers, closure |-> closure])]
compile(k, owner, f, closure) ==
  FunctionOfCode(EndCallable(f, compile_block([k EXCEPT !.code = <<>>, !.locals = f.locals,
                                                        !.handlers = <<>>, !.loops = <<>>,
                                                        !.owner = owner], f.body)),
                 f, closure)

\* The callables of a checked program: functions, instances, lambdas.
Functions(env) == env.functions \o [i \in DOMAIN env.instances |-> env.instances[i].f]
OwnedLambdas(f, owner) ==
  [i \in DOMAIN CallableLambdas(f) |-> [owner |-> owner, f |-> CallableLambdas(f)[i]]]
Lambdas(env) ==
  FlattenSeq([i \in DOMAIN Functions(env) |-> OwnedLambdas(Functions(env)[i], i)]) \o
  OwnedLambdas(env.entry, 0)
Owned(env) == [i \in DOMAIN Functions(env) |-> [owner |-> i, f |-> Functions(env)[i]]] \o Lambdas(env)

NoCode(env) ==
  [env |-> env, lambdas |-> Lambdas(env), owner |-> 0, code |-> <<>>, locals |-> 0, handlers |-> <<>>,
   loops |-> <<>>, maps |-> <<>>, ephemerons |-> <<>>, functions |-> <<>>, ok |-> TRUE]

LayoutTypes(layouts) ==
  [i \in DOMAIN layouts |-> [j \in DOMAIN layouts[i].cases |-> Signatures(layouts[i].cases[j])]]
FirstCases(layouts) == [i \in DOMAIN layouts |-> layouts[i][1]]
ModuleOf(k, owned) ==
  [functions         |-> <<Last(k.functions)>> \o Front(k.functions),
   named_types       |-> [i \in DOMAIN k.env.layouts.Named |->
                            Type("Pair", LayoutTypes(k.env.layouts.Named)[i][1])],
   record_layouts    |-> FirstCases(LayoutTypes(k.env.layouts.Record)),
   variant_layouts   |-> LayoutTypes(k.env.layouts.Variant),
   map_layouts       |-> k.maps,
   ephemeron_layouts |-> k.ephemerons,
   closure_layouts   |-> [i \in DOMAIN owned |->
                            [function |-> i + 1,
                             captures |-> Signatures([j \in DOMAIN owned[i].f.captures |->
                                                        owned[i].f.captures[j].type])]]]

\* What is asserted of every signature: type parameters are gone, and the keys
\* of a map can be compared.
Lowered(type) ==
  \A t \in Within(type) : t.kind # "Parameter" /\ (t.kind = "Map" => is_valid_map_key_type(t.of[1]))
SignaturesOf(module) ==
  module.named_types \o FlattenSeq(module.record_layouts) \o
  FlattenSeq(FlattenSeq(module.variant_layouts)) \o
  FlattenSeq(module.map_layouts) \o FlattenSeq(module.ephemeron_layouts) \o
  FlattenSeq([i \in DOMAIN module.closure_layouts |-> module.closure_layouts[i].captures]) \o
  FlattenSeq([i \in DOMAIN module.functions |->
                Append(module.functions[i].params, module.functions[i].result)])

\* The entry is compiled last and placed first.  None when an assertion of
\* the compiler fails.
Asserted(module) == IF \A type \in ToSet(SignaturesOf(module)) : Lowered(type) THEN module ELSE None
Linked(k, owned) == IF k.ok THEN Asserted(ModuleOf(k, owned)) ELSE None
CompileEntry(k, env, owned) == Linked(compile(k, 0, env.entry, None), owned)
CompileAll(env, owned) ==
  CompileEntry(FoldLeft(LAMBDA k, i : compile(k, owned[i].owner, owned[i].f, i),
                        NoCode(env), [i \in DOMAIN owned |-> i]),
               env, owned)
compile_checked_program(env) == CompileAll(env, Owned(env))
=============================================================================
