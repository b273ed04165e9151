--------------------------- MODULE VerifiedModule ---------------------------
(***************************************************************************)
(* What the verifier hands to the virtual machine: the verdict on the      *)
(* module and, of a verified one, the frame state at every program         *)
(* counter, from which the stack maps are derived (VerifiedModule,         *)
(* include/lang/bytecode.hpp).                                             *)
(***************************************************************************)
EXTENDS Bytecode

VARIABLES
  facts,       \* the frame states of the functions already verified
  verdict      \* "loaded", "verifying", "verified" or "rejected"

moduleVars == <<program, facts, verdict>>

\* The reference bits of a verified program counter; a TailCall describes
\* the dying frame, whose locals are gone.
stack_map(f, pc) ==
  LET s == facts[f][pc]
  IN  [stack  |-> [i \in DOMAIN s.stack |-> is_reference_kind(s.stack[i].kind)],
       locals |-> [i \in DOMAIN s.kinds |-> s.kinds[i] = "ref" /\ FunctionAt(f).code[pc].op # "TailCall"]]

\* Layout, case and field operands name an entry of the module's tables.
OperandsInRange(ins) ==
  CASE ins.op = "AllocRecord" -> ins.a \in DOMAIN RecordLayouts
    [] ins.op \in {"RecordGet", "RecordSet"} ->
         ins.a \in DOMAIN RecordLayouts /\ ins.b \in DOMAIN RecordLayouts[ins.a]
    [] ins.op = "AllocVariant" ->
         ins.a \in DOMAIN VariantLayouts /\ ins.b \in DOMAIN VariantLayouts[ins.a]
    [] ins.op = "VariantGet" ->
         /\ ins.a \in DOMAIN VariantLayouts /\ ins.b \in DOMAIN VariantLayouts[ins.a]
         /\ ins.c \in DOMAIN VariantLayouts[ins.a][ins.b]
    [] ins.op = "AllocClosure" -> ins.a \in DOMAIN ClosureLayouts
    [] ins.op = "AllocMap" -> ins.a \in DOMAIN MapLayouts
    [] ins.op = "AllocEphemeron" -> ins.a \in DOMAIN EphemeronLayouts
    [] OTHER -> TRUE

\* Every instruction but these continues at the next one.
Diverts == {"Jump", "TailCall", "Return", "Throw"}

\* What a vector holds.
IsSequence(s) == s \in Seq(ToSet(s))

\* Control stays inside the function: it never runs off the end of the code,
\* and jumps, calls and handlers name what is there.
FunctionIsClosed(f) ==
  /\ IsSequence(f.code) /\ f.code # <<>>
  /\ IsSequence(f.params) /\ f.locals \in Nat
  /\ \A i \in DOMAIN f.handlers : {f.handlers[i].try_begin, f.handlers[i].target} \subseteq DOMAIN f.code
  /\ \A pc \in DOMAIN f.code :
       LET ins == f.code[pc]
       IN  /\ OperandsInRange(ins)
           /\ ins.op \notin Diverts => pc + 1 \in DOMAIN f.code
           /\ ins.op \in {"Jump", "JumpIfFalse"} => ins.a \in DOMAIN f.code
           /\ ins.op \in {"Call", "TailCall"} => ins.a \in DOMAIN program.functions

ModuleIsClosed ==
  /\ IsSequence(program.functions) /\ program.functions # <<>>
  /\ \A i \in DOMAIN program.functions : FunctionIsClosed(FunctionAt(i))
  /\ \A i \in DOMAIN RecordLayouts : IsSequence(RecordLayouts[i])
  /\ \A i \in DOMAIN VariantLayouts :
       \A j \in DOMAIN VariantLayouts[i] : IsSequence(VariantLayouts[i][j])
  /\ \A i \in DOMAIN ClosureLayouts :
       /\ ClosureLayouts[i].function \in DOMAIN program.functions
       /\ IsSequence(ClosureLayouts[i].captures)

\* In a module the verifier accepts, whatever its code computes, control
\* never leaves the code and no operand leaves the module's tables: there is
\* no code the analysis did not reach, and every edge it followed was
\* checked (VerificationResult, bytecode.cpp).
VerifiedIsClosed == verdict = "verified" => ModuleIsClosed
=============================================================================
