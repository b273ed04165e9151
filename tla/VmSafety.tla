------------------------------ MODULE VmSafety ------------------------------
(***************************************************************************)
(* What the virtual machine promises of its frames and to the heap,        *)
(* whatever verified program it runs and whenever collections happen.      *)
(***************************************************************************)
EXTENDS Vm

Statuses == {"idle", "boundary", "dispatch", "throwing", "unwinding", "returned", "trapped"}

\* Frames name functions and program counters of the program, their locals
\* match the function's count, and the instruction count stays in its bound.
VmTypeOK ==
  /\ status \in Statuses
  /\ cycle \in {"idle", "marking", "compacting"}
  /\ Len(frames) <= MaxCallDepth
  /\ executed \in 0 .. MaxInstructions
  /\ \A i \in DOMAIN frames :
       /\ frames[i].function \in DOMAIN program.functions
       /\ frames[i].pc \in DOMAIN FunctionAt(frames[i].function).code
       /\ Len(frames[i].locals) = FunctionAt(frames[i].function).locals

\* Nothing a frame, running or suspended, a closure or the exception in
\* flight names has been reclaimed, and neither has anything they reach:
\* the collections between two instructions, between two unwound frames and
\* at the end of a cycle see every root (VM::trace_roots).
RootsAreComplete ==
  LET held == ObjectsIn({pending} \cup UNION {ValuesOf(frames[i]) : i \in DOMAIN frames})
  IN  /\ held \subseteq DOMAIN heap
      /\ \A o \in Closed(heap, held) : heap[o].kind # "Reclaimed"

\* Whichever way execute_verified is left, by the outermost return, by a
\* trap at any depth or by an uncaught exception, no incremental cycle is
\* left active on the heap and no exception is left pending.
NoCycleOutlivesExecution ==
  status \in {"returned", "trapped"} => cycle = "idle" /\ pending = Nil
=============================================================================
