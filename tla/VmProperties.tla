---------------------------- MODULE VmProperties ----------------------------
(***************************************************************************)
(* What the verifier's facts and stack maps promise the virtual machine,   *)
(* and what the machine promises the heap.                                 *)
(***************************************************************************)
EXTENDS Verifier, VmSafety

vars == <<verifierVars, vmVars>>

Init == VerifierInit /\ VmInit
Next == \/ status = "idle" /\ VerifierNext /\ UNCHANGED vmVars
        \/ VmNext /\ UNCHANGED <<states, worklist>>
Spec == Init /\ [][Next]_vars

\* Whenever an instruction is about to run, the reference bits of its stack
\* map agree with the tags of the operand stack and of every local, however
\* the program counter was reached: fallthrough, branch, loop, return from a
\* call or an exception caught in this frame (VM::assert_stack_matches_map).
StackMapsAreExact ==
  status = "boundary" => assert_stack_matches_map(Canonical(Top))

\* A dispatched instruction finds the operands its assertions demand: no
\* verified program underflows a stack, reads a field of nil or of another
\* kind of object, branches on a non-boolean or calls a non-closure.
NeverStuck == status = "dispatch" => InstructionIsSafe

(***************************************************************************)
(* An abstract value describes a runtime value.                            *)
(***************************************************************************)
RuntimeKind(kind) == IF kind = "Object" THEN "Pair" ELSE kind

\* The type a heap object was allocated with, as far as it keeps one.
LayoutOf(object) ==
  CASE object.kind \in {"Record", "Variant"} -> object.of
    [] object.kind = "Function"  -> ClosureType(object.of).of
    [] object.kind = "Map"       -> MapLayouts[object.of]
    [] object.kind = "Ephemeron" -> EphemeronLayouts[object.of]

DescribesReference(v, w) ==
  CASE w.tag = "Nil" -> v.nil
    [] w.tag # "Nil" /\ v.opaque -> is_object(w) /\ At(w) # Reclaimed
    [] OTHER -> /\ IsA(w, RuntimeKind(v.kind))
                /\ v.kind \in {"Record", "Variant", "Function", "Map", "Ephemeron"} =>
                     v.of = LayoutOf(At(w))

DescribesKind(v, w) ==
  CASE v.kind \in {"Int64", "Bool"} -> w.tag = v.kind
    [] v.kind = "MaybeReference"    -> w.tag = "Nil" \/ DescribesReference(v.target, w)
    [] OTHER                        -> DescribesReference(v, w)

\* What is known of what a pair, a weak reference, an array, a map or an
\* ephemeron holds.
DescribesContents(s, v, w) ==
  /\ v.kind = "Weak" => LET target == At(w).target
                        IN  target.tag = "Nil" \/ DescribesReference(v.target, target)
  /\ v.kind = "RefArray" =>
       LET element == load_ref_array_element(s, v)
       IN  is_poison(element) \/ \A x \in ToSet(At(w).fields) : DescribesKind(element, x)
  /\ v.kind = "Map" =>
       \A i \in DOMAIN At(w).fields :
         DescribesKind(DeclaredValue(v.of[2 - (i % 2)]), At(w).fields[i])
  /\ v.kind = "Ephemeron" =>
       /\ DescribesKind(EntryValue(v.of[1]), At(w).target)
       /\ At(w).target # Nil => DescribesKind(DeclaredValue(v.of[2]), At(w).fields[1])
  /\ v.kind = "Object" /\ is_object(w) =>
       \A side \in {1, 2} :
         LET field == load_pair_field(s, [v EXCEPT !.nil = FALSE], side)
         IN  is_poison(field) \/ DescribesKind(field, At(w).fields[side])

Describes(s, v, w) == is_poison(v) \/ (DescribesKind(v, w) /\ DescribesContents(s, v, w))

\* The facts the verifier settled on for a program counter hold whenever the
\* running frame is there: the kind, layout, closure type and nil-ness of
\* every operand and of every definitely initialised local, and one level
\* below them the contents of pairs, arrays, maps, ephemerons and weak references. A
\* collection may only have cleared weak targets in between.
FactsDescribeFrame ==
  status = "boundary" =>
    LET s == facts[Top.function][Top.pc]
    IN  /\ \A i \in DOMAIN s.stack : Describes(s, s.stack[i], Top.stack[i])
        /\ \A i \in DOMAIN s.locals :
             s.locals[i] = None \/ Describes(s, s.locals[i], Top.locals[i])

\* While a function is verified, what is known at a program counter only
\* widens: the new state absorbs the old one, and a step that changes no
\* state takes its program counter off the worklist for good.  So the loop
\* of verify ends, and it ends at a state that covers every path.
AnalysisOnlyWidens ==
  [][verdict' = "verifying" /\ verdict = "verifying" /\ facts' = facts =>
       /\ states' = states => Len(worklist') < Len(worklist)
       /\ \A pc \in DOMAIN states :
            states[pc] # None => join_state(states'[pc], states[pc]) = states'[pc]]_vars
=============================================================================
