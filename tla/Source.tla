------------------------------- MODULE Source -------------------------------
(***************************************************************************)
(* Source programs as the parser hands them to the type checker            *)
(* (src/frontend/parser.hpp), and what src/frontend/generics.cpp does with *)
(* them: substitution, cloning and the collection of lambdas.              *)
(*                                                                         *)
(* An expression has a kind k, a name n, a written type as and operands    *)
(* xs; the checker fills in its type and, in at, what its name means.  A   *)
(* call's last operand is its callee.  A statement also has blocks and a   *)
(* loop label; at holds the locals it introduces.  Functions, lambdas and  *)
(* the program's entry are callables.  Positions, literal values and       *)
(* message texts are left out, except a boolean literal's value.           *)
(***************************************************************************)
EXTENDS TypeParts

Expr(k, n, as, xs) ==
  [k |-> k, n |-> n, as |-> as, xs |-> xs, type |-> Invalid, at |-> None]
Statement(k, n, as, xs, blocks, label) ==
  [k |-> k, n |-> n, as |-> as, xs |-> xs, blocks |-> blocks, label |-> label, at |-> None]
Callable(name, arity, params, result, body, value) ==
  [name |-> name, arity |-> arity, params |-> params, result |-> result,
   body |-> body, value |-> value, locals |-> 0, captures |-> <<>>]

\* A declared nominal type: the types of its one body or of its cases, and
\* the names of its fields or cases.
Declaration(name, kind, arity, names, cases) ==
  [name |-> name, kind |-> kind, arity |-> arity, names |-> names, cases |-> cases]

\* A program: its nominal types, functions, generic functions, statements
\* with a final expression, and the number of its pair literals.
Program(nominals, functions, generics, entry, pair_sites) ==
  [nominals |-> nominals, functions |-> functions, generics |-> generics,
   entry |-> entry, pair_sites |-> pair_sites]

(***************************************************************************)
(* Instances of generic declarations.                                      *)
(***************************************************************************)
contains_type_parameter(type) == \E t \in Within(type) : t.kind = "Parameter"

\* canonical_type_argument_tuple_key throws for other types.
HasKey(type) == \A t \in Within(type) : t.kind \notin {"Nil", "Invalid", "Parameter"}

RECURSIVE substitute_type(_, _)
substitute_type(type, arguments) ==
  IF type.kind = "Parameter" THEN arguments[type.of]
  ELSE WithParts(type, [i \in DOMAIN Parts(type) |-> substitute_type(Parts(type)[i], arguments)])

SubstituteWritten(as, arguments) == IF as = None THEN None ELSE substitute_type(as, arguments)

\* A clone is written anew from the fields it copies.  The labels of loops
\* and of loop control are not among them.
RECURSIVE clone_expr(_, _), clone_statement(_, _)
CloneBlock(block, arguments) == [i \in DOMAIN block |-> clone_statement(block[i], arguments)]
CloneCallable(f, arguments) ==
  Callable(f.name, 0,
           [i \in DOMAIN f.params |->
              [f.params[i] EXCEPT !.type = substitute_type(@, arguments)]],
           substitute_type(f.result, arguments),
           CloneBlock(f.body, arguments), clone_expr(f.value, arguments))
clone_expr(x, arguments) ==
  Expr(x.k, IF x.k = "Lambda" THEN CloneCallable(x.n, arguments) ELSE x.n,
       SubstituteWritten(x.as, arguments),
       [i \in DOMAIN x.xs |-> clone_expr(x.xs[i], arguments)])
clone_statement(s, arguments) ==
  Statement(s.k, s.n, SubstituteWritten(s.as, arguments),
            [i \in DOMAIN s.xs |-> clone_expr(s.xs[i], arguments)],
            [i \in DOMAIN s.blocks |-> CloneBlock(s.blocks[i], arguments)], None)

instantiate_generic_nominal(declaration, arguments) ==
  [declaration EXCEPT
     !.cases = [i \in DOMAIN @ |-> [j \in DOMAIN @[i] |-> substitute_type(@[i][j], arguments)]]]

(***************************************************************************)
(* The lambdas of a callable, inner ones first.                            *)
(***************************************************************************)
RECURSIVE ExprLambdas(_), StatementLambdas(_)
BlockLambdas(block) == FlattenSeq([i \in DOMAIN block |-> StatementLambdas(block[i])])
CallableLambdas(f) == BlockLambdas(f.body) \o ExprLambdas(f.value)
ExprLambdas(x) ==
  LET inside == [i \in DOMAIN x.xs |-> ExprLambdas(x.xs[i])]
  IN  (IF x.k = "Call" THEN Last(inside) \o FlattenSeq(Front(inside)) ELSE FlattenSeq(inside)) \o
      (IF x.k = "Lambda" THEN Append(CallableLambdas(x.n), x.n) ELSE <<>>)
StatementLambdas(s) ==
  FlattenSeq([i \in DOMAIN s.xs |-> ExprLambdas(s.xs[i])]) \o
  FlattenSeq([i \in DOMAIN s.blocks |-> BlockLambdas(s.blocks[i])])
=============================================================================
