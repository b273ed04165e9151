------------------------------ MODULE Verifier ------------------------------
(***************************************************************************)
(* The bytecode verifier (src/bytecode.cpp, 2015-3657, 3858-3922): a       *)
(* forward dataflow analysis of one function after the other, with a       *)
(* worklist of program counters and one frame state per program counter.   *)
(*                                                                         *)
(* An instruction is a record [op, a, b, c]: op names it, a, b and c are   *)
(* its operands.                                                           *)
(***************************************************************************)
EXTENDS AbstractValues, VerifiedModule

CONSTANT Programs          \* modules; execution enters the first function

\* A vector is a sequence, a count or a program counter is a number.
IsModule(p) ==
  /\ IsSequence(p.functions)
  /\ \A i \in DOMAIN p.functions :
       LET f == p.functions[i]
       IN  /\ IsSequence(f.code) /\ IsSequence(f.params) /\ f.locals \in Nat
           /\ \A j \in DOMAIN f.handlers :
                {f.handlers[j].try_begin, f.handlers[j].try_end, f.handlers[j].target} \subseteq Nat \ {0}
  /\ \A i \in DOMAIN p.record_layouts : IsSequence(p.record_layouts[i])
  /\ \A i \in DOMAIN p.variant_layouts :
       \A j \in DOMAIN p.variant_layouts[i] : IsSequence(p.variant_layouts[i][j])
  /\ \A i \in DOMAIN p.closure_layouts : IsSequence(p.closure_layouts[i].captures)

ASSUME ProgramsAreModules == \A p \in Programs : IsModule(p)

VARIABLES
  states,      \* the frame states of the function at hand; None: not reached
  worklist     \* program counters still to be processed

verifierVars == <<program, facts, states, worklist, verdict>>

Function == FunctionAt(Len(facts) + 1)

(***************************************************************************)
(* Transfer.  The result is the sequence of successors, or None when the   *)
(* instruction is rejected.  Operand(s, 0) is the top of the stack.        *)
(***************************************************************************)
Operand(s, i) == s.stack[Len(s.stack) - i]
CanPop(s, n) == Len(s.stack) >= n /\ \A i \in 0 .. n - 1 : ~is_poison(Operand(s, i))
Popped(s, n) == [s EXCEPT !.stack = SubSeq(@, 1, Len(@) - n)]
Pushed(s, v) == [s EXCEPT !.stack = Append(@, v)]

Successor(pc, s) == <<[pc |-> pc, state |-> s]>>
push_fallthrough(f, pc, s) == IF pc < Len(f.code) THEN Successor(pc + 1, s) ELSE None
Provided(condition, successors) == IF condition THEN successors ELSE None

\* The last Len(types) operands conform to the declared types.
OperandsConform(s, types) ==
  /\ CanPop(s, Len(types))
  /\ \A i \in DOMAIN types :
       value_conforms_to_signature(s, Operand(s, Len(types) - i), types[i])

TransferKinds(f, pc, s) ==
  LET sig == KindSignature(f.code[pc].op)
      n   == Len(sig.pops)
  IN  IF CanPop(s, n) /\ \A i \in 1 .. n : Operand(s, n - i).kind = sig.pops[i]
      THEN push_fallthrough(f, pc,
             [s EXCEPT !.stack = SubSeq(@, 1, Len(@) - n) \o
                                 [i \in DOMAIN sig.push |-> value_with_kind(sig.push[i])]])
      ELSE None

TransferIsNil(f, pc, s) ==
  IF CanPop(s, 1) /\ is_reference_kind(Operand(s, 0).kind)
  THEN push_fallthrough(f, pc,
         Pushed(Popped(s, 1), [value_with_kind("Bool") EXCEPT !.test = Operand(s, 0).from]))
  ELSE None

TransferAllocPair(f, pc, s) ==
  IF CanPop(s, 2)
  THEN LET new    == <<without_provenance(Operand(s, 1)), without_provenance(Operand(s, 0))>>
           fields == JoinFields(s.fields, [site \in {pc} |-> new])
       IN  push_fallthrough(f, pc, [Pushed(Popped(s, 2), object_value(pc)) EXCEPT !.fields = fields])
  ELSE None

TransferGetField(f, pc, s, side) ==
  IF CanPop(s, 1) /\ Operand(s, 0).kind = "Object"
  THEN LET loaded == load_pair_field(s, Operand(s, 0), side)
       IN  Provided(~is_poison(loaded), push_fallthrough(f, pc, Pushed(Popped(s, 1), loaded)))
  ELSE None

\* A store must conform to what signatures say of the field, and joins the
\* fact of every site the receiver may come from.
store_pair_field(s, receiver, side, v) ==
  LET declared == SignatureFacts(receiver, side)
      fits == /\ ~receiver.nil
              /\ ~(receiver.opaque /\ receiver.fields # None)
              /\ declared # <<>> => ValueFits(s, v, Merge(declared, JoinedValue), {})
              /\ receiver.sites \subseteq DOMAIN s.fields
              /\ declared # <<>> \/ receiver.sites # {} \/ receiver.opaque
      fields == [site \in DOMAIN s.fields |->
                   IF site \in receiver.sites
                   THEN [s.fields[site] EXCEPT ![side] = JoinedValue(@, v)]
                   ELSE s.fields[site]]
  IN  Provided(fits, [s EXCEPT !.fields = fields])

TransferSetField(f, pc, s, side) ==
  IF CanPop(s, 2) /\ Operand(s, 1).kind = "Object"
  THEN LET stored == store_pair_field(s, Operand(s, 1), side, without_provenance(Operand(s, 0)))
       IN  IF stored = None THEN None ELSE push_fallthrough(f, pc, Popped(stored, 2))
  ELSE None

TransferLoadLocal(f, pc, s, i) ==
  IF i \in 1 .. f.locals /\ s.locals[i] # None
  THEN Provided(~is_poison(s.locals[i]),
         push_fallthrough(f, pc, Pushed(s, [s.locals[i] EXCEPT !.from = i, !.test = None])))
  ELSE None

TransferStoreLocal(f, pc, s, i) ==
  IF i \in 1 .. f.locals /\ CanPop(s, 1)
  THEN push_fallthrough(f, pc,
         [Popped(s, 1) EXCEPT
            !.locals[i] = without_provenance(Operand(s, 0)),
            !.kinds[i]  = IF is_reference_kind(Operand(s, 0).kind) THEN "ref" ELSE "scalar"])
  ELSE None

TransferJump(f, pc, s, target) ==
  Provided(target \in DOMAIN f.code, Successor(target, s))

\* The two edges of a nil test refine the local that was tested.
IfNil(v) == IF v.kind = "MaybeReference" THEN v ELSE nil_object_value
IfNotNil(v) ==
  IF v.kind = "MaybeReference" THEN without_provenance(v.target) ELSE [v EXCEPT !.nil = FALSE]

\* Mutant: the refinements of the two edges are swapped.
SwappedRefinement(s, test, isNil) ==
  IF test = None THEN s
  ELSE IF s.locals[test] = None THEN s
  ELSE [s EXCEPT !.locals[test] = IF isNil THEN IfNotNil(@) ELSE IfNil(@)]

Refined(s, test, isNil) ==
  IF test = None THEN s
  ELSE IF s.locals[test] = None THEN s
  ELSE [s EXCEPT !.locals[test] = IF isNil THEN IfNil(@) ELSE IfNotNil(@)]

TransferJumpIfFalse(f, pc, s, target) ==
  IF target \in DOMAIN f.code /\ CanPop(s, 1) /\ pc < Len(f.code)
  THEN LET test == Operand(s, 0).test
           after == Popped(s, 1)
       IN  Provided(Operand(s, 0).kind = "Bool",
             Successor(target, Refined(after, test, FALSE)) \o
             Successor(pc + 1, Refined(after, test, TRUE)))
  ELSE None

(***************************************************************************)
(* Records, variants, weak references and closures.                        *)
(***************************************************************************)
TransferAlloc(f, pc, s, types, made) ==
  IF OperandsConform(s, types)
  THEN push_fallthrough(f, pc, Pushed(Popped(s, Len(types)), made))
  ELSE None

HasLayout(v, kind, layout) == v.kind = kind /\ ~v.nil /\ v.of = layout

TransferGet(f, pc, s, kind, layout, type) ==
  IF CanPop(s, 1) /\ HasLayout(Operand(s, 0), kind, layout)
  THEN push_fallthrough(f, pc, Pushed(Popped(s, 1), DeclaredValue(type)))
  ELSE None

TransferRecordSet(f, pc, s, layout, type) ==
  IF CanPop(s, 2) /\ HasLayout(Operand(s, 1), "Record", layout)
  THEN Provided(value_conforms_to_signature(s, Operand(s, 0), type),
                push_fallthrough(f, pc, Popped(s, 2)))
  ELSE None

TransferVariantTag(f, pc, s) ==
  IF CanPop(s, 1) /\ Operand(s, 0).kind = "Variant" /\ ~Operand(s, 0).nil
  THEN push_fallthrough(f, pc, Pushed(Popped(s, 1), value_with_kind("Int64")))
  ELSE None

NonNilReference(v) == is_reference_kind(v.kind) /\ v.kind # "MaybeReference" /\ ~v.nil

TransferAllocWeak(f, pc, s) ==
  IF CanPop(s, 1) /\ NonNilReference(Operand(s, 0))
  THEN push_fallthrough(f, pc, Pushed(Popped(s, 1), weak_value(Operand(s, 0))))
  ELSE None

TransferWeakGet(f, pc, s) ==
  IF CanPop(s, 1) /\ Operand(s, 0).kind = "Weak"
  THEN push_fallthrough(f, pc, Pushed(Popped(s, 1), maybe_reference_value(Operand(s, 0).target)))
  ELSE None

ClosureType(layout) ==
  LET body == FunctionAt(ClosureLayouts[layout].function)
  IN  FunctionOf(body.params, body.result)

TransferCallClosure(f, pc, s) ==
  IF CanPop(s, 1) /\ Operand(s, 0).kind = "Function"
  THEN LET sig == Operand(s, 0).of
           arguments == Popped(s, 1)
       IN  IF OperandsConform(arguments, Front(sig))
           THEN push_fallthrough(f, pc,
                  Pushed(Popped(arguments, Len(sig) - 1), DeclaredValue(Last(sig))))
           ELSE None
  ELSE None

TransferLoadCapture(f, pc, s, i) ==
  IF f.closure # None /\ i \in DOMAIN ClosureLayouts[f.closure].captures
  THEN push_fallthrough(f, pc, Pushed(s, DeclaredValue(ClosureLayouts[f.closure].captures[i])))
  ELSE None

(***************************************************************************)
(* Arrays of references.  An allocation replaces the fact of its site.     *)
(***************************************************************************)
TransferArrayLen(f, pc, s) ==
  IF CanPop(s, 1) /\ Operand(s, 0).kind \in {"Array", "RefArray"}
  THEN push_fallthrough(f, pc, Pushed(Popped(s, 1), value_with_kind("Int64")))
  ELSE None

TransferAllocRefArray(f, pc, s) ==
  IF CanPop(s, 2) /\ NonNilReference(Operand(s, 0)) /\ Operand(s, 1).kind = "Int64"
  THEN LET init == without_provenance(Operand(s, 0))
           elements == [site \in DOMAIN s.elements \cup {pc} |->
                          IF site = pc THEN init ELSE s.elements[site]]
       IN  push_fallthrough(f, pc,
             [Pushed(Popped(s, 2), ref_array_value(pc)) EXCEPT !.elements = elements])
  ELSE None

TransferRefArrayGet(f, pc, s) ==
  IF CanPop(s, 2) /\ Operand(s, 0).kind = "Int64" /\ Operand(s, 1).kind = "RefArray"
  THEN LET loaded == load_ref_array_element(s, Operand(s, 1))
       IN  Provided(~is_poison(loaded), push_fallthrough(f, pc, Pushed(Popped(s, 2), loaded)))
  ELSE None

store_ref_array_element(s, receiver, v) ==
  LET joined(site) == join_ref_array_element_values(s.elements[site], v)
      fits == /\ receiver.target # None => ValueFits(s, v, receiver.target, {})
              /\ receiver.sites \subseteq DOMAIN s.elements
              /\ \A site \in receiver.sites : ~is_poison(joined(site))
              /\ receiver.target # None \/ receiver.sites # {}
  IN  Provided(fits, [s EXCEPT !.elements = [site \in DOMAIN @ |->
                                 IF site \in receiver.sites THEN joined(site) ELSE @[site]]])

TransferRefArraySet(f, pc, s) ==
  IF /\ CanPop(s, 3) /\ NonNilReference(Operand(s, 0))
     /\ Operand(s, 1).kind = "Int64" /\ Operand(s, 2).kind = "RefArray"
  THEN LET stored == store_ref_array_element(s, Operand(s, 2), without_provenance(Operand(s, 0)))
       IN  IF stored = None THEN None ELSE push_fallthrough(f, pc, Popped(stored, 3))
  ELSE None

(***************************************************************************)
(* Maps and ephemerons.  The receiver is below the other operands, whose   *)
(* types are parts of the receiver's: 1 the key, 2 the value.              *)
(***************************************************************************)
TransferEntry(f, pc, s, kind, parts, pushed) ==
  LET n == Len(parts)
  IN  IF CanPop(s, n + 1) /\ Operand(s, n).kind = kind
      THEN LET types == [i \in 1 .. n |-> IF parts[i] = 0 THEN Int64 ELSE Operand(s, n).of[parts[i]]]
           IN  Provided(OperandsConform(s, types),
                        push_fallthrough(f, pc, [Popped(s, n + 1) EXCEPT !.stack = @ \o pushed]))
      ELSE None

\* The declared type of the key or the value of the receiver n operands down.
DeclaredPart(s, n, part) == Operand(s, n).of[part]

TransferMapRead(f, pc, s, operand, part) ==
  IF CanPop(s, 2) /\ Operand(s, 1).kind = "Map"
  THEN TransferEntry(f, pc, s, "Map", <<operand>>, <<DeclaredValue(DeclaredPart(s, 1, part))>>)
  ELSE None

\* An entry may have been cleared; a scalar is what it was or traps.
EntryValue(type) ==
  LET v == DeclaredValue(type)
  IN  IF signature_value_is_reference(type) THEN maybe_reference_value(v) ELSE v

TransferEphemeronRead(f, pc, s, part) ==
  IF CanPop(s, 1) /\ Operand(s, 0).kind = "Ephemeron"
  THEN push_fallthrough(f, pc, Pushed(Popped(s, 1), EntryValue(DeclaredPart(s, 0, part))))
  ELSE None

TransferAllocEphemeron(f, pc, s, layout) ==
  IF CanPop(s, 2) /\ NonNilReference(Operand(s, 1)) /\ OperandsConform(s, EphemeronLayouts[layout])
  THEN push_fallthrough(f, pc,
         Pushed(Popped(s, 2), value_of("Ephemeron", EphemeronLayouts[layout], FALSE)))
  ELSE None

(***************************************************************************)
(* Calls.                                                                  *)
(***************************************************************************)
\* A function that needs captures is only called through its closure.
DirectlyCallable(callee) ==
  /\ callee \in DOMAIN program.functions
  /\ FunctionAt(callee).closure # None => ClosureLayouts[FunctionAt(callee).closure].captures = <<>>

TransferCall(f, pc, s, callee) ==
  IF DirectlyCallable(callee) /\ OperandsConform(s, FunctionAt(callee).params)
  THEN push_fallthrough(f, pc, Pushed(Popped(s, Len(FunctionAt(callee).params)),
                                      DeclaredValue(FunctionAt(callee).result)))
  ELSE None

TransferTailCall(f, pc, s, callee) ==
  Provided(/\ enclosing_handler(f, pc) = None
           /\ DirectlyCallable(callee)
           /\ FunctionAt(callee).result = f.result
           /\ Len(s.stack) = Len(FunctionAt(callee).params)
           /\ OperandsConform(s, FunctionAt(callee).params), <<>>)

TransferReturn(f, s) == Provided(OperandsConform(s, <<f.result>>), <<>>)

(***************************************************************************)
(* Exceptions.                                                             *)
(***************************************************************************)

add_exception_successor(handler, s) ==
  Successor(handler.target, [s EXCEPT !.stack = <<variant_value(handler.layout, FALSE)>>])

TransferThrow(f, pc, s) ==
  IF CanPop(s, 1) /\ Operand(s, 0).kind = "Variant" /\ ~Operand(s, 0).nil
  THEN LET handler == handler_for(f, pc, Operand(s, 0).of)
       IN  IF handler = None THEN <<>> ELSE add_exception_successor(handler, Popped(s, 1))
  ELSE None

\* The delimiter must be the one its handler names.
TransferTry(f, pc, s, i, delimiter) ==
  IF i \in DOMAIN f.handlers
  THEN Provided(f.handlers[i][delimiter] = pc, push_fallthrough(f, pc, s))
  ELSE None

\* Mutant: a call has no exceptional edge.
NoCallEdges(f, pc, s) ==
  IF f.code[pc].op = "TryBegin" THEN add_exception_successor(f.handlers[f.code[pc].a], s) ELSE <<>>

\* Besides Throw, TryBegin and the calls have an exceptional edge; a call's
\* goes to the innermost region around it.
ExceptionalSuccessors(f, pc, s) ==
  LET ins == f.code[pc]
      handler == enclosing_handler(f, pc)
  IN  CASE ins.op = "TryBegin" -> add_exception_successor(f.handlers[ins.a], s)
        [] ins.op \in {"Call", "CallClosure"} /\ handler # None -> add_exception_successor(handler, s)
        [] OTHER -> <<>>

transfer_instruction(f, pc, s) ==
  LET ins == f.code[pc]
  IN  Provided(OperandsInRange(ins),
        CASE ins.op \in KindOps      -> TransferKinds(f, pc, s)
        [] ins.op = "Nil"          -> push_fallthrough(f, pc, Pushed(s, nil_object_value))
        [] ins.op = "IsNil"        -> TransferIsNil(f, pc, s)
        [] ins.op = "AllocPair"    -> TransferAllocPair(f, pc, s)
        [] ins.op = "GetField"     -> TransferGetField(f, pc, s, ins.a)
        [] ins.op = "SetField"     -> TransferSetField(f, pc, s, ins.a)
        [] ins.op = "LoadLocal"    -> TransferLoadLocal(f, pc, s, ins.a)
        [] ins.op = "StoreLocal"   -> TransferStoreLocal(f, pc, s, ins.a)
        [] ins.op = "Jump"         -> TransferJump(f, pc, s, ins.a)
        [] ins.op = "JumpIfFalse"  -> TransferJumpIfFalse(f, pc, s, ins.a)
        [] ins.op = "Collect"      -> push_fallthrough(f, pc, s)
        [] ins.op = "AllocRecord"  -> TransferAlloc(f, pc, s, RecordLayouts[ins.a],
                                                    record_value(ins.a, FALSE))
        [] ins.op = "RecordGet"    -> TransferGet(f, pc, s, "Record", ins.a, RecordLayouts[ins.a][ins.b])
        [] ins.op = "RecordSet"    -> TransferRecordSet(f, pc, s, ins.a, RecordLayouts[ins.a][ins.b])
        [] ins.op = "AllocVariant" -> TransferAlloc(f, pc, s, VariantLayouts[ins.a][ins.b],
                                                    variant_value(ins.a, FALSE))
        [] ins.op = "VariantTag"   -> TransferVariantTag(f, pc, s)
        [] ins.op = "VariantGet"   -> TransferGet(f, pc, s, "Variant", ins.a,
                                                  VariantLayouts[ins.a][ins.b][ins.c])
        [] ins.op = "ArrayLen"     -> TransferArrayLen(f, pc, s)
        [] ins.op = "AllocRefArray" -> TransferAllocRefArray(f, pc, s)
        [] ins.op = "RefArrayGet"  -> TransferRefArrayGet(f, pc, s)
        [] ins.op = "RefArraySet"  -> TransferRefArraySet(f, pc, s)
        [] ins.op = "AllocMap"     -> push_fallthrough(f, pc, Pushed(s, value_of("Map", MapLayouts[ins.a], FALSE)))
        [] ins.op = "MapGet"       -> TransferMapRead(f, pc, s, 1, 2)
        [] ins.op = "MapKeyAt"     -> TransferMapRead(f, pc, s, 0, 1)
        [] ins.op = "MapValueAt"   -> TransferMapRead(f, pc, s, 0, 2)
        [] ins.op = "MapHas"       -> TransferEntry(f, pc, s, "Map", <<1>>, <<value_with_kind("Bool")>>)
        [] ins.op = "MapSet"       -> TransferEntry(f, pc, s, "Map", <<1, 2>>, <<>>)
        [] ins.op = "MapLen"       -> TransferEntry(f, pc, s, "Map", <<>>, <<value_with_kind("Int64")>>)
        [] ins.op = "AllocEphemeron" -> TransferAllocEphemeron(f, pc, s, ins.a)
        [] ins.op = "EphemeronKey" -> TransferEphemeronRead(f, pc, s, 1)
        [] ins.op = "EphemeronValue" -> TransferEphemeronRead(f, pc, s, 2)
        [] ins.op = "EphemeronSetValue" -> TransferEntry(f, pc, s, "Ephemeron", <<2>>, <<>>)
        [] ins.op = "TryBegin"     -> TransferTry(f, pc, s, ins.a, "try_begin")
        [] ins.op = "TryEnd"       -> TransferTry(f, pc, s, ins.a, "try_end")
        [] ins.op = "Throw"        -> TransferThrow(f, pc, s)
        [] ins.op = "AllocWeak"    -> TransferAllocWeak(f, pc, s)
        [] ins.op = "WeakGet"      -> TransferWeakGet(f, pc, s)
        [] ins.op = "AllocClosure" -> TransferAlloc(f, pc, s, ClosureLayouts[ins.a].captures,
                                                    DeclaredValue(ClosureType(ins.a)))
        [] ins.op = "CallClosure"  -> TransferCallClosure(f, pc, s)
        [] ins.op = "LoadCapture"  -> TransferLoadCapture(f, pc, s, ins.a)
        [] ins.op = "Call"         -> TransferCall(f, pc, s, ins.a)
        [] ins.op = "TailCall"     -> TransferTailCall(f, pc, s, ins.a)
        [] ins.op = "Return"       -> TransferReturn(f, s)
        [] OTHER                   -> None)

(***************************************************************************)
(* The worklist.                                                           *)
(***************************************************************************)
EntryState(f) ==
  LET known(i) == i <= Len(f.params)
      value(i) == DeclaredValue(f.params[i])
  IN  [stack  |-> <<>>,
       locals |-> [i \in 1 .. f.locals |-> IF known(i) THEN value(i) ELSE None],
       kinds  |-> [i \in 1 .. f.locals |->
                     IF ~known(i) THEN None
                     ELSE IF is_reference_kind(value(i).kind) THEN "ref" ELSE "scalar"],
       fields |-> NoFacts,
       elements |-> NoFacts]

Unreached(f) == [pc \in DOMAIN f.code |-> IF pc = 1 THEN EntryState(f) ELSE None]

\* Mutant: the last successor to arrive replaces what was known.
Replaced(analysis, successor) ==
  IF analysis = None \/ analysis.states[successor.pc] = successor.state THEN analysis
  ELSE [states   |-> [analysis.states EXCEPT ![successor.pc] = successor.state],
        worklist |-> Append(analysis.worklist, successor.pc)]

\* One successor is merged into the state at its target.
Merged(analysis, successor) ==
  LET old == IF analysis = None THEN None ELSE analysis.states[successor.pc]
      new == IF old = None THEN successor.state ELSE join_state(old, successor.state)
  IN  IF analysis = None \/ new = None THEN None
      ELSE IF new = old THEN analysis
      ELSE [states   |-> [analysis.states EXCEPT ![successor.pc] = new],
            worklist |-> Append(analysis.worklist, successor.pc)]

MergedAll(analysis, arrivals) ==
  LET merge[i \in 0 .. Len(arrivals)] ==
        IF i = 0 THEN analysis ELSE Merged(merge[i - 1], arrivals[i])
  IN  merge[Len(arrivals)]

\* None when the instruction is rejected or a merge fails.
Analysed(successors, exceptional) ==
  IF successors = None THEN None
  ELSE MergedAll([states |-> states, worklist |-> Tail(worklist)], successors \o exceptional)

\* Mutant: code that is never reached is accepted.
AcceptsUnreached ==
  \A pc \in DOMAIN states :
    states[pc] # None => \A i \in DOMAIN states[pc].stack : ~is_poison(states[pc].stack[i])

\* Every program counter is reached and its stack holds no poison.
HasStackMaps == \A pc \in DOMAIN states :
                  states[pc] # None /\ \A i \in DOMAIN states[pc].stack : ~is_poison(states[pc].stack[i])

VerifierInit ==
  /\ program \in Programs
  /\ facts = <<>>
  /\ states = None /\ worklist = <<>>
  /\ verdict = "loaded"

Reject ==
  /\ verdict' = "rejected"
  /\ states' = None /\ worklist' = <<>> /\ facts' = <<>>
  /\ UNCHANGED program

Continue(analysis) ==
  IF analysis = None THEN Reject
  ELSE /\ states' = analysis.states /\ worklist' = analysis.worklist
       /\ UNCHANGED <<program, facts, verdict>>

CheckModule ==
  /\ verdict = "loaded"
  /\ IF ModuleIsWellFormed
     THEN /\ verdict' = "verifying" /\ states' = Unreached(FunctionAt(1)) /\ worklist' = <<1>>
          /\ UNCHANGED <<program, facts>>
     ELSE Reject

VerifyInstruction ==
  /\ verdict = "verifying" /\ worklist # <<>>
  /\ FunctionIsWellFormed(Function)
  /\ LET pc == Head(worklist)
     IN  Continue(Analysed(transfer_instruction(Function, pc, states[pc]),
                           ExceptionalSuccessors(Function, pc, states[pc])))

RejectMalformed ==
  /\ verdict = "verifying" /\ ~FunctionIsWellFormed(Function)
  /\ Reject

\* The fixed point is reached: the next function, or the verdict.
FinishFunction ==
  /\ verdict = "verifying" /\ worklist = <<>>
  /\ IF HasStackMaps
     THEN /\ facts' = Append(facts, states)
          /\ IF Len(facts') < Len(program.functions)
             THEN /\ states' = Unreached(FunctionAt(Len(facts) + 2))
                  /\ worklist' = <<1>>
                  /\ UNCHANGED verdict
             ELSE verdict' = "verified" /\ states' = None /\ UNCHANGED worklist
          /\ UNCHANGED program
     ELSE Reject

VerifierNext == CheckModule \/ VerifyInstruction \/ RejectMalformed \/ FinishFunction
=============================================================================
