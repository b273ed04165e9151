--------------------------------- MODULE Vm ---------------------------------
(***************************************************************************)
(* The virtual machine (src/vm.cpp): explicit frames, calls, tail calls,   *)
(* closures, exceptions, and the collections at instruction boundaries,    *)
(* on a program the verifier has accepted.                                 *)
(*                                                                         *)
(* The heap is seen through what the VM asks of it: an object is alive or  *)
(* reclaimed, a collection reclaims what the roots do not reach and clears *)
(* weak references to it.  Movement and the collector itself are the       *)
(* subject of GcHeap.                                                      *)
(***************************************************************************)
EXTENDS VerifiedModule

CONSTANTS
  MaxCallDepth,    \* max_call_depth_
  MaxLength,       \* bound of the model on the length of an array
  MaxInstructions, \* bound of the model on the length of an execution
  Schedules        \* GC stress configurations, [every, minor, mark, compact]

ASSUME VmBounds == MaxCallDepth \in Nat /\ MaxLength \in Nat /\ MaxInstructions \in Nat

VARIABLES
  frames,      \* frames_, the running one last
  heap,        \* objects in order of allocation; Reclaimed once they are
  pending,     \* pending_exception_
  cycle,       \* the heap's incremental cycle: "idle", "marking" or "compacting"
  status,      \* where execute_verified is: "idle", "boundary", "dispatch",
               \* "throwing", "unwinding", "returned" or "trapped"
  executed,    \* instructions_executed_
  schedule     \* gc_stress_

vmVars == <<frames, heap, pending, cycle, status, executed, schedule>>

Value(tag, v) == [tag |-> tag, v |-> v]
AnInteger == Value("Int64", None)
Nil       == Value("Nil", None)
Object(i) == Value("Object", i)
Boolean(b) == Value("Bool", IF b THEN 1 ELSE 0)
is_object(v) == v.tag = "Object"

NewObject(kind, of, tag, fields, target) ==
  [kind |-> kind, of |-> of, tag |-> tag, fields |-> fields, target |-> target]
Reclaimed == NewObject("Reclaimed", None, 0, <<>>, Nil)

Top == frames[Len(frames)]
Ins == FunctionAt(Top.function).code[Top.pc]

(***************************************************************************)
(* Roots and collections.                                                  *)
(***************************************************************************)
ValuesOf(frame) == ToSet(frame.stack) \cup ToSet(frame.locals) \cup {frame.closure}

\* Mutant: the exception in flight is not a root.
RootsWithoutPending(fs, exception) == UNION {ValuesOf(fs[i]) : i \in DOMAIN fs}

trace_roots(fs, exception) == {exception} \cup UNION {ValuesOf(fs[i]) : i \in DOMAIN fs}

ObjectsIn(values) == {v.v : v \in {w \in values : is_object(w)}}

\* An ephemeron's value is reached only once its key, the target, is.
Strong(object, live) ==
  IF object.kind # "Ephemeron" \/ ObjectsIn({object.target}) \subseteq live
  THEN ObjectsIn(ToSet(object.fields)) ELSE {}

Reached(h, live) == live \cup UNION {Strong(h[o], live) : o \in live}

\* Everything the given objects reach through strong fields.
Closed(h, objects) ==
  LET grow[live \in SUBSET DOMAIN h] ==
        IF Reached(h, live) = live THEN live ELSE grow[Reached(h, live)]
  IN  grow[objects]

\* A weak reference or an ephemeron whose target dies is cleared.
Cleared(object, live) ==
  IF ObjectsIn({object.target}) \subseteq live THEN object
  ELSE [object EXCEPT !.target = Nil,
                      !.fields = IF object.kind = "Ephemeron" THEN <<Nil>> ELSE @]

Swept(h, live) ==
  [i \in DOMAIN h |-> IF i \in live THEN Cleared(h[i], live) ELSE Reclaimed]

Live(fs, exception, h) == Closed(h, ObjectsIn(trace_roots(fs, exception)))

\* A major collection keeps exactly what is reachable.
Collected(fs, exception, h) == Swept(h, Live(fs, exception, h))

\* A minor collection and the end of an incremental marking may also keep
\* some garbage: what is old, or was reachable when the marking started.
PartlyCollected(fs, exception, h) ==
  LET live == Live(fs, exception, h)
  IN  {Swept(h, Closed(h, live \cup kept)) : kept \in SUBSET (DOMAIN h \ live)}

(***************************************************************************)
(* Stack maps, and what an instruction asserts about its operands.         *)
(***************************************************************************)
\* TailCall clears the dying frame before anything can observe it.
Canonical(frame) ==
  IF FunctionAt(frame.function).code[frame.pc].op = "TailCall"
  THEN [frame EXCEPT !.locals = [i \in DOMAIN @ |-> Nil], !.closure = Nil]
  ELSE frame

assert_stack_matches_map(frame) ==
  LET map == stack_map(frame.function, frame.pc)
      matches(bits, values) ==
        /\ Len(bits) = Len(values)
        /\ \A i \in DOMAIN values : IF bits[i] THEN values[i].tag \in {"Object", "Nil"}
                                    ELSE ~is_object(values[i])
  IN  /\ frame.function \in DOMAIN facts /\ frame.pc \in DOMAIN facts[frame.function]
      /\ matches(map.stack, frame.stack) /\ matches(map.locals, frame.locals)

Arg(i) == Top.stack[Len(Top.stack) - i]
At(v) == heap[v.v]
IsA(v, kind) == is_object(v) /\ At(v).kind = kind
HasKind(v, kind) == IF kind \in {"Int64", "Bool"} THEN v.tag = kind ELSE IsA(v, kind)

Arity ==
  CASE Ins.op \in KindOps -> Len(KindSignature(Ins.op).pops)
    [] Ins.op \in {"Nil", "LoadLocal", "Jump", "Collect", "TryBegin", "TryEnd", "LoadCapture",
                    "AllocMap"} -> 0
    [] Ins.op \in {"AllocPair", "SetField", "RecordSet", "AllocRefArray", "RefArrayGet", "MapGet",
                    "MapHas", "MapKeyAt", "MapValueAt", "AllocEphemeron", "EphemeronSetValue"} -> 2
    [] Ins.op \in {"RefArraySet", "MapSet"} -> 3
    [] Ins.op = "AllocRecord"  -> Len(RecordLayouts[Ins.a])
    [] Ins.op = "AllocVariant" -> Len(VariantLayouts[Ins.a][Ins.b])
    [] Ins.op = "AllocClosure" -> Len(ClosureLayouts[Ins.a].captures)
    [] Ins.op \in {"Call", "TailCall"} -> Len(FunctionAt(Ins.a).params)
    [] OTHER -> 1

\* A map and an ephemeron hold references or scalars, by their layout.
FitsPart(v, type) ==
  IF signature_value_is_reference(type) THEN v.tag \in {"Object", "Nil"}
  ELSE v.tag \in {"Int64", "Bool"}

OperandsAreRight ==
  CASE Ins.op \in KindOps ->
         LET pops == KindSignature(Ins.op).pops
         IN  \A i \in DOMAIN pops : HasKind(Arg(Len(pops) - i), pops[i])
    [] Ins.op = "IsNil"       -> Arg(0).tag \in {"Object", "Nil"}
    [] Ins.op = "GetField"    -> IsA(Arg(0), "Pair") /\ Ins.a \in {1, 2}
    [] Ins.op = "SetField"    -> IsA(Arg(1), "Pair") /\ Ins.a \in {1, 2}
    [] Ins.op = "Jump"        -> Ins.a \in DOMAIN FunctionAt(Top.function).code
    [] Ins.op = "JumpIfFalse" -> Arg(0).tag = "Bool" /\ Ins.a \in DOMAIN FunctionAt(Top.function).code
    [] Ins.op \in {"LoadLocal", "StoreLocal"} -> Ins.a \in DOMAIN Top.locals
    [] Ins.op = "RecordGet"   -> IsA(Arg(0), "Record") /\ At(Arg(0)).of = Ins.a
    [] Ins.op = "RecordSet"   -> IsA(Arg(1), "Record") /\ At(Arg(1)).of = Ins.a
    [] Ins.op \in {"VariantTag", "Throw"} -> IsA(Arg(0), "Variant")
    [] Ins.op = "VariantGet"  -> IsA(Arg(0), "Variant") /\ At(Arg(0)).of = Ins.a
    [] Ins.op = "AllocWeak"   -> is_object(Arg(0))
    [] Ins.op = "ArrayLen"    -> IsA(Arg(0), "Array") \/ IsA(Arg(0), "RefArray")
    [] Ins.op = "AllocRefArray" -> is_object(Arg(0)) /\ Arg(1).tag = "Int64"
    [] Ins.op = "RefArrayGet" -> IsA(Arg(1), "RefArray") /\ Arg(0).tag = "Int64"
    [] Ins.op = "RefArraySet" ->
         IsA(Arg(2), "RefArray") /\ Arg(1).tag = "Int64" /\ is_object(Arg(0))
    [] Ins.op \in {"MapGet", "MapHas", "MapLen", "MapKeyAt", "MapValueAt", "MapSet"} ->
         /\ IsA(Arg(Arity - 1), "Map")
         /\ Ins.op \in {"MapKeyAt", "MapValueAt"} => Arg(0).tag = "Int64"
         /\ Ins.op = "MapSet" => /\ FitsPart(Arg(1), MapLayouts[At(Arg(2)).of][1])
                                /\ FitsPart(Arg(0), MapLayouts[At(Arg(2)).of][2])
    [] Ins.op = "AllocEphemeron" -> is_object(Arg(1))
    [] Ins.op \in {"EphemeronKey", "EphemeronValue"} -> IsA(Arg(0), "Ephemeron")
    [] Ins.op = "EphemeronSetValue" ->
         IsA(Arg(1), "Ephemeron") /\ FitsPart(Arg(0), EphemeronLayouts[At(Arg(1)).of][2])
    [] Ins.op = "WeakGet"     -> IsA(Arg(0), "Weak")
    [] Ins.op = "CallClosure" ->
         /\ IsA(Arg(0), "Function")
         /\ LET callee == FunctionAt(ClosureLayouts[At(Arg(0)).of].function)
            IN  Len(Top.stack) > Len(callee.params) /\ callee.closure = At(Arg(0)).of
    [] Ins.op = "LoadCapture" -> IsA(Top.closure, "Function") /\ Ins.a \in DOMAIN At(Top.closure).fields
    [] Ins.op = "TailCall"    -> Len(Top.stack) = Arity /\ Arity <= FunctionAt(Ins.a).locals
    [] OTHER -> TRUE

InstructionIsSafe == OperandsInRange(Ins) /\ Len(Top.stack) >= Arity /\ OperandsAreRight

(***************************************************************************)
(* Execution.                                                              *)
(***************************************************************************)
NewFrame(function, arguments, closure) ==
  [function |-> function, pc |-> 1, stack |-> <<>>, closure |-> closure,
   locals |-> [i \in 1 .. FunctionAt(function).locals |->
                 IF i <= Len(arguments) THEN arguments[i] ELSE Nil]]

VmInit ==
  /\ frames = <<>> /\ heap = <<>> /\ pending = Nil
  /\ cycle = "idle" /\ status = "idle" /\ executed = 0
  /\ schedule = None

execute_verified ==
  /\ verdict = "verified" /\ status = "idle"
  /\ frames' = IF MaxCallDepth > 0 THEN <<NewFrame(1, <<>>, Nil)>> ELSE <<>>
  /\ status' = IF MaxCallDepth > 0 THEN "boundary" ELSE "trapped"
  /\ schedule' \in Schedules
  /\ UNCHANGED <<moduleVars, heap, pending, cycle, executed>>

(***************************************************************************)
(* collect_at_instruction_boundary_if_needed.                              *)
(***************************************************************************)
Outcome(h, c) == [heap |-> h, cycle |-> c]
Due(interval) == interval # 0 /\ executed # 0 /\ executed % interval = 0

MajorOutcomes(fs, o) ==
  IF Due(schedule.every) THEN {Outcome(Collected(fs, pending, o.heap), "idle")} ELSE {o}

MinorOutcomes(fs, o) ==
  IF Due(schedule.minor) THEN {Outcome(h, "idle") : h \in PartlyCollected(fs, pending, o.heap)}
  ELSE {o}

\* A step either leaves the cycle unfinished or, when the heap reports
\* quiescence, ends the marking or hands it over to a compaction.
MarkingOutcomes(fs, o) ==
  {Outcome(o.heap, "marking")} \cup
  {Outcome(h, IF schedule.compact THEN "compacting" ELSE "idle") :
     h \in PartlyCollected(fs, pending, o.heap)}

CompactionOutcomes(fs, o) ==
  LET h == IF o.cycle = "compacting" THEN o.heap ELSE Collected(fs, pending, o.heap)
  IN  {Outcome(h, "compacting"), Outcome(h, "idle")}

IncrementalOutcomes(fs, o) ==
  IF schedule.mark /\ (~schedule.compact \/ o.cycle # "compacting") THEN MarkingOutcomes(fs, o)
  ELSE IF schedule.compact THEN CompactionOutcomes(fs, o)
  ELSE {o}

collect_at_instruction_boundary ==
  /\ status = "boundary" /\ executed < MaxInstructions
  /\ LET fs == [frames EXCEPT ![Len(frames)] = Canonical(@)]
     IN  /\ assert_stack_matches_map(fs[Len(fs)])
         /\ \E major \in MajorOutcomes(fs, Outcome(heap, cycle)) :
            \E minor \in MinorOutcomes(fs, major) :
            \E end \in IncrementalOutcomes(fs, minor) :
              heap' = end.heap /\ cycle' = end.cycle
         /\ frames' = fs
  /\ status' = "dispatch"
  /\ UNCHANGED <<moduleVars, pending, executed, schedule>>

(***************************************************************************)
(* Instructions.                                                           *)
(***************************************************************************)
Dispatch(ops) == status = "dispatch" /\ Ins.op \in ops /\ InstructionIsSafe

With(frame) == [frames EXCEPT ![Len(frames)] = frame]
Rest(n) == SubSeq(Top.stack, 1, Len(Top.stack) - n)
Args(n) == SubSeq(Top.stack, Len(Top.stack) - n + 1, Len(Top.stack))
Next1(stack) == [Top EXCEPT !.stack = stack, !.pc = @ + 1]

Retired(fs) ==
  /\ frames' = fs
  /\ status' = "boundary" /\ executed' = executed + 1
  /\ UNCHANGED <<moduleVars, pending, schedule>>

\* An allocation finishes an active compaction first.
CompactionFinished == cycle' = IF cycle = "compacting" THEN "idle" ELSE cycle
Allocated(object) == heap' = Append(heap, object) /\ CompactionFinished
HeapUntouched == UNCHANGED <<heap, cycle>>

PushNew(n, object) == Allocated(object) /\ Retired(With(Next1(Append(Rest(n), Object(Len(heap) + 1)))))
Push(n, v) == HeapUntouched /\ Retired(With(Next1(Append(Rest(n), v))))

ExecuteKinds ==
  /\ Dispatch(KindOps \ {"StrIntern", "BuilderAppend"})
  /\ LET sig == KindSignature(Ins.op)
     IN  CASE sig.push = <<>> -> HeapUntouched /\ Retired(With(Next1(Rest(Arity))))
           [] sig.push = <<"Int64">> -> Push(Arity, AnInteger)
           [] sig.push = <<"Bool">> -> \E b \in BOOLEAN : Push(Arity, Boolean(b))
           [] OTHER -> PushNew(Arity, NewObject(sig.push[1], None, 0, <<>>, Nil))

\* The canonical string of this content, found in the intern table or new.
Interned == {i \in DOMAIN heap : heap[i].kind = "Str" /\ heap[i].tag = 1}
StrIntern ==
  /\ Dispatch({"StrIntern"})
  /\ \/ PushNew(1, NewObject("Str", None, 1, <<>>, Nil))
     \/ \E i \in Interned : /\ Retired(With(Next1(Append(Rest(1), Object(i)))))
                            /\ CompactionFinished /\ UNCHANGED heap

\* A builder that outgrows its capacity finishes an active compaction.
BuilderAppend ==
  /\ Dispatch({"BuilderAppend"})
  /\ UNCHANGED heap /\ (UNCHANGED cycle \/ CompactionFinished)
  /\ Retired(With(Next1(Rest(2))))

PushNil == Dispatch({"Nil"}) /\ Push(0, Nil)
IsNil == Dispatch({"IsNil"}) /\ Push(1, Boolean(~is_object(Arg(0))))

AllocPair == Dispatch({"AllocPair"}) /\ PushNew(2, NewObject("Pair", None, 0, Args(2), Nil))
GetField == Dispatch({"GetField"}) /\ Push(1, At(Arg(0)).fields[Ins.a])

SetObjectField(i) ==
  /\ heap' = [heap EXCEPT ![Arg(1).v].fields[i] = Arg(0)]
  /\ UNCHANGED cycle
  /\ Retired(With(Next1(Rest(2))))
SetField == Dispatch({"SetField"}) /\ SetObjectField(Ins.a)

AllocRecord == Dispatch({"AllocRecord"}) /\ PushNew(Arity, NewObject("Record", Ins.a, 0, Args(Arity), Nil))
RecordGet == Dispatch({"RecordGet"}) /\ Push(1, At(Arg(0)).fields[Ins.b])
RecordSet == Dispatch({"RecordSet"}) /\ SetObjectField(Ins.b)

AllocVariant ==
  Dispatch({"AllocVariant"}) /\ PushNew(Arity, NewObject("Variant", Ins.a, Ins.b, Args(Arity), Nil))
VariantTag == Dispatch({"VariantTag"}) /\ Push(1, AnInteger)
VariantGet ==
  Dispatch({"VariantGet"}) /\ At(Arg(0)).tag = Ins.b /\ Push(1, At(Arg(0)).fields[Ins.c])

AllocWeak == Dispatch({"AllocWeak"}) /\ PushNew(1, NewObject("Weak", None, 0, <<>>, Arg(0)))
WeakGet == Dispatch({"WeakGet"}) /\ Push(1, At(Arg(0)).target)

ArrayLen == Dispatch({"ArrayLen"}) /\ Push(1, AnInteger)
AllocRefArray ==
  /\ Dispatch({"AllocRefArray"})
  /\ \E n \in 0 .. MaxLength :
       PushNew(2, NewObject("RefArray", None, 0, [i \in 1 .. n |-> Arg(0)], Nil))
RefArrayGet ==
  /\ Dispatch({"RefArrayGet"})
  /\ \E v \in ToSet(At(Arg(1)).fields) : Push(2, v)
RefArraySet ==
  /\ Dispatch({"RefArraySet"}) /\ UNCHANGED cycle
  /\ \E i \in DOMAIN At(Arg(2)).fields : heap' = [heap EXCEPT ![Arg(2).v].fields[i] = Arg(0)]
  /\ Retired(With(Next1(Rest(3))))

\* The entries of a map, keys at odd positions and values after them.
KeysAt(object)   == {i \in DOMAIN object.fields : i % 2 = 1}
ValuesAt(object) == {i \in DOMAIN object.fields : i % 2 = 0}

AllocMap == Dispatch({"AllocMap"}) /\ PushNew(0, NewObject("Map", Ins.a, 0, <<>>, Nil))
MapHas == Dispatch({"MapHas"}) /\ \E b \in BOOLEAN : Push(2, Boolean(b))
MapLen == Dispatch({"MapLen"}) /\ Push(1, AnInteger)
MapRead ==
  /\ Dispatch({"MapGet", "MapKeyAt", "MapValueAt"})
  /\ \E i \in IF Ins.op = "MapKeyAt" THEN KeysAt(At(Arg(1))) ELSE ValuesAt(At(Arg(1))) :
       Push(2, At(Arg(1)).fields[i])

\* A key the map holds keeps its place; a new one may grow the map, which
\* finishes an active compaction.
MapSet ==
  /\ Dispatch({"MapSet"})
  /\ \/ /\ \E i \in ValuesAt(At(Arg(2))) : heap' = [heap EXCEPT ![Arg(2).v].fields[i] = Arg(0)]
        /\ UNCHANGED cycle
     \/ /\ heap' = [heap EXCEPT ![Arg(2).v].fields = @ \o <<Arg(1), Arg(0)>>]
        /\ UNCHANGED cycle \/ CompactionFinished
  /\ Retired(With(Next1(Rest(3))))

AllocEphemeron ==
  Dispatch({"AllocEphemeron"}) /\ PushNew(2, NewObject("Ephemeron", Ins.a, 0, <<Arg(0)>>, Arg(1)))
EphemeronKey == Dispatch({"EphemeronKey"}) /\ Push(1, At(Arg(0)).target)
EphemeronValue ==
  Dispatch({"EphemeronValue"}) /\ At(Arg(0)).fields[1] # Nil /\ Push(1, At(Arg(0)).fields[1])
EphemeronSetValue ==
  Dispatch({"EphemeronSetValue"}) /\ At(Arg(1)).target # Nil /\ SetObjectField(1)

AllocClosure ==
  Dispatch({"AllocClosure"}) /\ PushNew(Arity, NewObject("Function", Ins.a, 0, Args(Arity), Nil))
LoadCapture == Dispatch({"LoadCapture"}) /\ Push(0, At(Top.closure).fields[Ins.a])

LoadLocal == Dispatch({"LoadLocal"}) /\ Push(0, Top.locals[Ins.a])
StoreLocal ==
  /\ Dispatch({"StoreLocal"}) /\ HeapUntouched
  /\ Retired(With([Next1(Rest(1)) EXCEPT !.locals[Ins.a] = Arg(0)]))

Jump ==
  /\ Dispatch({"Jump"}) /\ HeapUntouched
  /\ Retired(With([Top EXCEPT !.pc = Ins.a]))
JumpIfFalse ==
  /\ Dispatch({"JumpIfFalse"}) /\ HeapUntouched
  /\ Retired(With([Top EXCEPT !.stack = Rest(1), !.pc = IF Arg(0).v = 1 THEN @ + 1 ELSE Ins.a]))

TryDelimiter == Dispatch({"TryBegin", "TryEnd"}) /\ HeapUntouched /\ Retired(With(Next1(Top.stack)))

Collect ==
  /\ Dispatch({"Collect"}) /\ assert_stack_matches_map(Top)
  /\ heap' = Collected(frames, pending, heap) /\ cycle' = "idle"
  /\ Retired(With(Next1(Top.stack)))

(***************************************************************************)
(* Calls.  The caller is advanced to its return point before it suspends.  *)
(***************************************************************************)
\* Mutant: the depth of the call stack is not checked.
push_frame_unchecked(n, function, arguments, closure) ==
  /\ HeapUntouched
  /\ Retired(Append(With(Next1(Rest(n))), NewFrame(function, arguments, closure)))

push_frame(n, function, arguments, closure) ==
  /\ Len(frames) < MaxCallDepth
  /\ HeapUntouched
  /\ Retired(Append(With(Next1(Rest(n))), NewFrame(function, arguments, closure)))

Call == Dispatch({"Call"}) /\ push_frame(Arity, Ins.a, Args(Arity), Nil)

Callee == IF Ins.op = "CallClosure" THEN ClosureLayouts[At(Arg(0)).of].function ELSE Ins.a

\* The arguments and, of a closure call, the closure above them.
CallArity == Len(FunctionAt(Callee).params) + IF Ins.op = "CallClosure" THEN 1 ELSE 0

CallClosure ==
  /\ Dispatch({"CallClosure"})
  /\ push_frame(CallArity, Callee, SubSeq(Args(CallArity), 1, CallArity - 1), Arg(0))

TailCall ==
  /\ Dispatch({"TailCall"}) /\ HeapUntouched
  /\ Retired(With(NewFrame(Ins.a, Top.stack, Nil)))

\* What is left of an incremental cycle is finished on every return: a
\* marking first, then the compaction it may have been handed over to.
FinishedHeaps == IF cycle = "marking" THEN PartlyCollected(frames, pending, heap) ELSE {heap}

Return ==
  LET callers == SubSeq(frames, 1, Len(frames) - 1)
      resumed == Len(callers)
  IN  /\ Dispatch({"Return"})
      /\ heap' \in FinishedHeaps /\ cycle' = "idle"
      /\ executed' = executed + 1
      /\ frames' = IF callers = <<>> THEN <<>> ELSE [callers EXCEPT ![resumed].stack = Append(@, Arg(0))]
      /\ status' = IF callers = <<>> THEN "returned" ELSE "boundary"
      /\ UNCHANGED <<moduleVars, pending, schedule>>

(***************************************************************************)
(* Exceptions: the unwinding loop of Throw, one frame per step.            *)
(***************************************************************************)
Throw ==
  /\ Dispatch({"Throw"}) /\ HeapUntouched
  /\ frames' = With([Top EXCEPT !.stack = Rest(1)])
  /\ pending' = Arg(0)
  /\ status' = "throwing"
  /\ UNCHANGED <<moduleVars, executed, schedule>>

\* The throwing frame is searched at its own program counter, a suspended
\* caller at its call.
ThrowSite == IF status = "throwing" THEN Top.pc ELSE Top.pc - 1
Handler == handler_for(FunctionAt(Top.function), ThrowSite, At(pending).of)
Unwinding == status \in {"throwing", "unwinding"} /\ frames # <<>>

Catch ==
  /\ Unwinding /\ Handler # None
  /\ HeapUntouched
  /\ frames' = With([Top EXCEPT !.stack = <<pending>>, !.pc = Handler.target])
  /\ pending' = Nil
  /\ status' = "boundary" /\ executed' = executed + 1
  /\ UNCHANGED <<moduleVars, schedule>>

\* When a collection is due at every boundary, one runs before the frame
\* is popped.
UnwindFrame ==
  /\ Unwinding /\ Handler = None
  /\ IF schedule.every = 1
     THEN heap' = Collected(frames, pending, heap) /\ cycle' = "idle"
     ELSE HeapUntouched
  /\ frames' = SubSeq(frames, 1, Len(frames) - 1)
  /\ status' = "unwinding"
  /\ UNCHANGED <<moduleVars, pending, executed, schedule>>

(***************************************************************************)
(* Traps: the active cycle is finished before execute_verified is left.    *)
(***************************************************************************)
\* Mutant: the cycle is left as it is.
TrappedMidCycle(fs) ==
  /\ status' = "trapped" /\ frames' = fs /\ pending' = Nil
  /\ HeapUntouched
  /\ UNCHANGED <<moduleVars, executed, schedule>>

Trapped(fs) ==
  /\ status' = "trapped" /\ frames' = fs /\ pending' = Nil
  /\ heap' \in (IF cycle = "marking" THEN PartlyCollected(fs, Nil, heap) ELSE {heap})
  /\ cycle' = "idle"
  /\ UNCHANGED <<moduleVars, executed, schedule>>

Uncaught == status = "unwinding" /\ frames = <<>> /\ Trapped(<<>>)

MayTrap == {"I64Abs", "StrSub", "StrIndex", "StrToI64", "PrintStr", "AllocArray", "ArrayGet", "ArraySet",
            "AllocRefArray", "RefArrayGet", "RefArraySet", "MapGet", "MapKeyAt", "MapValueAt"}

RuntimeTrap ==
  \/ /\ \/ Dispatch(MayTrap)
        \/ Dispatch({"VariantGet"}) /\ At(Arg(0)).tag # Ins.b
        \/ Dispatch({"EphemeronValue"}) /\ At(Arg(0)).fields[1] = Nil
        \/ Dispatch({"EphemeronSetValue"}) /\ At(Arg(1)).target = Nil
     /\ Trapped(With([Top EXCEPT !.stack = Rest(Arity)]))
  \/ /\ Dispatch({"Call", "CallClosure"}) /\ Len(frames) = MaxCallDepth
     /\ Trapped(With(Next1(Rest(CallArity))))

ExecuteNext ==
  \/ ExecuteKinds \/ PushNil \/ IsNil \/ AllocPair \/ GetField \/ SetField
  \/ AllocRecord \/ RecordGet \/ RecordSet \/ AllocVariant \/ VariantTag \/ VariantGet
  \/ AllocWeak \/ WeakGet \/ AllocClosure \/ LoadCapture \/ LoadLocal \/ StoreLocal
  \/ Jump \/ JumpIfFalse \/ TryDelimiter \/ Collect \/ Call \/ CallClosure \/ TailCall
  \/ StrIntern \/ BuilderAppend \/ ArrayLen \/ AllocRefArray \/ RefArrayGet \/ RefArraySet
  \/ AllocMap \/ MapHas \/ MapLen \/ MapRead \/ MapSet
  \/ AllocEphemeron \/ EphemeronKey \/ EphemeronValue \/ EphemeronSetValue
  \/ Return \/ Throw \/ Catch \/ UnwindFrame \/ Uncaught \/ RuntimeTrap

VmNext == execute_verified \/ collect_at_instruction_boundary \/ ExecuteNext

\* A module is made and verified before it is executed, whatever makes it.
Prepare == status = "idle" /\ UNCHANGED vmVars

VmSpec == VmInit /\ [][VmNext \/ Prepare]_<<moduleVars, vmVars>>
=============================================================================
