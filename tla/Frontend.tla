------------------------------ MODULE Frontend ------------------------------
(***************************************************************************)
(* compile_program (src/frontend/type_checker.cpp) and what follows it: a  *)
(* parsed program is checked, declarations first, then one function after  *)
(* the other and the entry; if nothing was diagnosed it is compiled, and   *)
(* the module goes to the verifier and to the virtual machine like one     *)
(* built by hand.                                                          *)
(*                                                                         *)
(* verdict has further values: "source" and "checking", then "refused"     *)
(* with diagnostics, "crashed" when the checker used a local that its      *)
(* context does not have or let an exception escape, or "aborted" at an    *)
(* assertion of the compiler.                                              *)
(***************************************************************************)
EXTENDS VmProperties, Compiler

CONSTANT Sources   \* parsed programs

VARIABLES
  source,      \* the program with what the checker found; None for a module
  checked      \* the functions checked so far

frontendVars == <<source, checked>>
allVars == <<frontendVars, vars>>

EmptyModule ==
  [functions |-> <<>>, named_types |-> <<>>, record_layouts |-> <<>>, variant_layouts |-> <<>>,
   map_layouts |-> <<>>, ephemeron_layouts |-> <<>>, closure_layouts |-> <<>>]

FrontendInit ==
  /\ VmInit /\ checked = 0
  /\ \/ VerifierInit /\ source = None
     \/ /\ \E p \in Sources : source = Unchecked(p)
        /\ program = EmptyModule /\ facts = <<>> /\ states = None /\ worklist = <<>>
        /\ verdict = "source"

\* The verdict once a part of the program is checked.
Judged(env, next) ==
  CASE env.wild -> "crashed" [] ~env.wild /\ ~env.ok -> "refused" [] OTHER -> next

CollectSymbols ==
  /\ verdict = "source"
  /\ source' = collect_function_symbols(collect_type_symbols(source))
  /\ verdict' = Judged(source', "checking")
  /\ UNCHANGED <<checked, program, facts, states, worklist, vmVars>>

\* The functions of the program, then its statements; instances of generic
\* functions are checked where they are first called.
Callables(env) == Append(env.functions, env.entry)
CheckedCallable(i, f) ==
  IF i <= Len(f.st.env.functions) THEN [f.st.env EXCEPT !.functions[i] = f.out]
  ELSE [f.st.env EXCEPT !.entry = f.out]
CheckCallable ==
  /\ verdict = "checking"
  /\ source' = CheckedCallable(checked + 1, check_function(source, Callables(source)[checked + 1], 0))
  /\ checked' = checked + 1
  /\ verdict' = Judged(source', IF checked' > Len(source'.functions) THEN "checked" ELSE "checking")
  /\ UNCHANGED <<program, facts, states, worklist, vmVars>>

\* None stands for a failed assertion.
Emitted(module) ==
  IF module = None THEN verdict' = "aborted" /\ UNCHANGED program
  ELSE verdict' = "loaded" /\ program' = module
Compile ==
  /\ verdict = "checked"
  /\ Emitted(compile_checked_program(source))
  /\ UNCHANGED <<frontendVars, facts, states, worklist, vmVars>>

\* An instance of a generic function keeps the loop labels of the function
\* as it is written, so that break and continue leave the loops they name.
RECURSIVE LabelsOf(_)
LabelsOf(block) ==
  FlattenSeq([i \in DOMAIN block |->
                <<block[i].label>> \o FlattenSeq([j \in DOMAIN block[i].blocks |->
                                                   LabelsOf(block[i].blocks[j])])])
InstancesKeepLabels ==
  source # None =>
    \A i \in DOMAIN source.instances, g \in ToSet(source.generics) :
      source.instances[i].generic = g.name =>
        LabelsOf(source.instances[i].f.body) = LabelsOf(g.body)

\* Source that the checker accepts is compiled, without undefined behaviour,
\* an escaping exception or a failed assertion, to a module that the
\* verifier accepts, as compile_checked_program asserts.
AcceptedIsVerified ==
  source # None => verdict \notin {"crashed", "aborted", "rejected"}

FrontendNext ==
  \/ CollectSymbols \/ CheckCallable \/ Compile
  \/ Next /\ UNCHANGED frontendVars
FrontendSpec == FrontendInit /\ [][FrontendNext]_allVars
=============================================================================
