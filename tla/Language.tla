------------------------------ MODULE Language ------------------------------
(***************************************************************************)
(* What the parser hands to the compiler, and the values a program         *)
(* computes with: the nodes of iacommon/pkg/ialang/ast, the environments   *)
(* of runtime/env.go, and the operators of the machine on single values.   *)
(*                                                                         *)
(* A program is a sequence of functions, the first of which is its top     *)
(* level; where the AST nests a function, a node here holds its number.    *)
(* Numbers are integers.  All strings are one value, Text: nothing looks   *)
(* inside them.  An optional part of a node is a sequence of none or one.  *)
(***************************************************************************)
EXTENDS Integers, Sequences, SequencesExt, TLC

None == <<>>

-----------------------------------------------------------------------------
(* Values. *)

Number(n) == <<"number", n>>
Bool(b) == <<"bool", b>>
Null == <<"null">>
Text == <<"string">>
Array(s) == <<"array", s>>
Closure(f, k) == <<"function", f, k>>
Native(name) == <<"native", name>>

IsNumber(v) == v[1] = "number"
Truthy(v) ==
  CASE v[1] = "bool" -> v[2]
    [] v[1] = "number" -> v[2] # 0
    [] OTHER -> v # Null

(* The comparison has no case for arrays and natives: an array is not      *)
(* equal to itself.  (Functions are compared by address, which is not      *)
(* modelled; no program here compares two.)                                *)
Equal(v, w) == v = w /\ v[1] \notin {"array", "native"}

(* The outcome of an operator is one value, or None when it is an error. *)
Ordered(op, m, n) ==
  CASE op = "LT" -> m < n
    [] op = "GT" -> m > n
    [] op = "LTE" -> m <= n
    [] op = "GTE" -> m >= n

Binary(op, v, w) ==
  CASE op = "EQ" -> <<Bool(Equal(v, w))>>
    [] op = "NEQ" -> <<Bool(~Equal(v, w))>>
    [] op = "PLUS" -> IF IsNumber(v) /\ IsNumber(w) THEN <<Number(v[2] + w[2])>> ELSE <<Text>>
    [] ~(IsNumber(v) /\ IsNumber(w)) -> None
    [] op = "MINUS" -> <<Number(v[2] - w[2])>>
    [] op = "ASTERISK" -> <<Number(v[2] * w[2])>>
    [] op \in {"LT", "GT", "LTE", "GTE"} -> <<Bool(Ordered(op, v[2], w[2]))>>

Unary(op, v) ==
  CASE op = "BANG" -> <<Bool(~Truthy(v))>>
    [] op = "MINUS" -> IF IsNumber(v) THEN <<Number(-v[2])>> ELSE None

(* All strings are one value here, which has no elements and no length: a  *)
(* program that asks one for its characters or its length is not modelled. *)
Index(v, i) ==
  IF v[1] = "array" /\ IsNumber(i)
  THEN <<IF i[2] \in 0..(Len(v[2]) - 1) THEN v[2][i[2] + 1] ELSE Null>>
  ELSE None

(* The one property of arrays the compiler itself asks for. *)
Length(v) == IF v[1] = "array" THEN <<Number(Len(v[2]))>> ELSE None

(* What for-in goes through: an array as it is, nothing of anything else. *)
ObjectKeys(v) == <<IF v[1] = "array" THEN v ELSE Array(<<>>)>>

-----------------------------------------------------------------------------
(* Environments: envs is the sequence of all that were made, and each has  *)
(* the number of its parent, or 0.                                         *)

NoNames == [x \in {} |-> Null]
Environment(parent) == [values |-> NoNames, parent |-> parent]

RECURSIVE Scope(_, _, _)
Scope(envs, k, x) ==
  IF k = 0 \/ x \in DOMAIN envs[k].values THEN k ELSE Scope(envs, envs[k].parent, x)

Define(envs, k, x, v) == [envs EXCEPT ![k].values = (x :> v) @@ @]

(* The natives a program finds in the globals: print, and one that asks    *)
(* the host for a yes or a no.  No program here assigns to them.           *)
Globals == {"print", "ask"}
Known(envs, k, x) == Scope(envs, k, x) # 0 \/ x \in Globals
Get(envs, k, x) ==
  LET j == Scope(envs, k, x) IN IF j = 0 THEN Native(x) ELSE envs[j].values[x]
Settable(envs, k, x) == Scope(envs, k, x) # 0
Set(envs, k, x, v) == Define(envs, Scope(envs, k, x), x, v)

(* The environment of a call, made last: a parameter without an argument   *)
(* is null, and the rest parameter has the arguments left over.            *)
TooMany(f, args) == f.rest = None /\ Len(args) > Len(f.params)
Call(envs, parent, f, args) ==
  LET param == [i \in 1..Len(f.params) |-> IF i <= Len(args) THEN args[i] ELSE Null]
      named(e, i) == Define(e, Len(envs) + 1, f.params[i], param[i])
      bound == FoldLeft(named, Append(envs, Environment(parent)),
                        [i \in 1..Len(f.params) |-> i])
  IN IF f.rest = None THEN bound
     ELSE Define(bound, Len(bound), f.rest[1], Array(SubSeq(args, Len(f.params) + 1, Len(args))))

-----------------------------------------------------------------------------
(* Expressions. *)

Literal(v) == [node |-> "Literal", value |-> v]
Identifier(x) == [node |-> "Identifier", name |-> x]
ArrayLiteral(es) == [node |-> "ArrayLiteral", elements |-> es]
BinaryExpression(l, op, r) == [node |-> "BinaryExpression", left |-> l, op |-> op, right |-> r]
UnaryExpression(op, e) == [node |-> "UnaryExpression", op |-> op, right |-> e]
UpdateExpression(op, x, prefix) ==
  [node |-> "UpdateExpression", op |-> op, name |-> x, prefix |-> prefix]
CallExpression(f, args) == [node |-> "CallExpression", callee |-> f, args |-> args]
FunctionExpression(f) == [node |-> "FunctionExpression", fn |-> f]
IndexExpression(e, i) == [node |-> "IndexExpression", object |-> e, index |-> i]
TernaryExpression(c, t, e) ==
  [node |-> "TernaryExpression", condition |-> c, then |-> t, else |-> e]
OptionalChainExpression(e, i) ==
  [node |-> "OptionalChainExpression", base |-> e, index |-> i]
VoidExpression(e) == [node |-> "VoidExpression", expr |-> e]

(* Statements. *)

LetStatement(x, e) == [node |-> "LetStatement", name |-> x, value |-> e]
AssignStatement(x, e) == [node |-> "AssignStatement", name |-> x, value |-> e]
CompoundAssignStatement(x, op, e) ==
  [node |-> "CompoundAssignStatement", name |-> x, op |-> op, value |-> e]
ArrayDestructuringLetStatement(xs, e) ==
  [node |-> "ArrayDestructuringLetStatement", names |-> xs, value |-> e]
ArrayDestructuringAssignStatement(xs, e) ==
  [node |-> "ArrayDestructuringAssignStatement", names |-> xs, value |-> e]
ExpressionStatement(e) == [node |-> "ExpressionStatement", expr |-> e]
FunctionStatement(x, f) == [node |-> "FunctionStatement", name |-> x, fn |-> f]
ReturnStatement(e) == [node |-> "ReturnStatement", value |-> e]
ThrowStatement(e) == [node |-> "ThrowStatement", value |-> e]
BreakStatement == [node |-> "BreakStatement"]
ContinueStatement == [node |-> "ContinueStatement"]
IfStatement(c, t, e) == [node |-> "IfStatement", condition |-> c, then |-> t, else |-> e]
WhileStatement(c, b) == [node |-> "WhileStatement", condition |-> c, body |-> b]
DoWhileStatement(b, c) == [node |-> "DoWhileStatement", condition |-> c, body |-> b]
ForStatement(i, c, p, b) ==
  [node |-> "ForStatement", init |-> i, condition |-> c, post |-> p, body |-> b]
ForInStatement(x, e, b) == [node |-> "ForInStatement", name |-> x, iterable |-> e, body |-> b]
ForOfStatement(x, e, b) == [node |-> "ForOfStatement", name |-> x, iterable |-> e, body |-> b]
TryCatchStatement(b, x, c, f) ==
  [node |-> "TryCatchStatement", body |-> b, name |-> x, catch |-> c, finally |-> f]
CaseClause(e, b) == [value |-> e, body |-> b]
SwitchStatement(e, cs, d) ==
  [node |-> "SwitchStatement", subject |-> e, cases |-> cs, default |-> d]

(* A function: its parameters, the name of its rest parameter, and the     *)
(* default of each parameter, if it has one.                               *)
Function(params, rest, defaults, body) ==
  [params |-> params, rest |-> rest, defaults |-> defaults, body |-> body]
=============================================================================
