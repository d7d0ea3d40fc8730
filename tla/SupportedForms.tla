--------------------------- MODULE SupportedForms ---------------------------
(***************************************************************************)
(* The forms of the language that the compiler gets right, wherever they   *)
(* are used together.                                                      *)
(***************************************************************************)
EXTENDS Compiler

-----------------------------------------------------------------------------
(* The parts of a node, expressions and statements alike. *)
Parts(n) ==
  CASE n.node = "BinaryExpression" -> <<n.left, n.right>>
    [] n.node = "UnaryExpression" -> <<n.right>>
    [] n.node = "ArrayLiteral" -> n.elements
    [] n.node = "CallExpression" -> <<n.callee>> \o n.args
    [] n.node = "IndexExpression" -> <<n.object, n.index>>
    [] n.node = "TernaryExpression" -> <<n.condition, n.then, n.else>>
    [] n.node = "OptionalChainExpression" -> <<n.base, n.index>>
    [] n.node \in {"VoidExpression", "ExpressionStatement"} -> <<n.expr>>
    [] n.node \in {"LetStatement", "AssignStatement", "CompoundAssignStatement", "ThrowStatement",
                   "ArrayDestructuringLetStatement", "ArrayDestructuringAssignStatement"} -> <<n.value>>
    [] n.node = "ReturnStatement" -> n.value
    [] n.node = "IfStatement" -> <<n.condition>> \o n.then \o n.else
    [] n.node \in {"WhileStatement", "DoWhileStatement"} -> <<n.condition>> \o n.body
    [] n.node = "ForStatement" -> n.init \o <<n.condition>> \o n.post \o n.body
    [] n.node \in {"ForInStatement", "ForOfStatement"} -> <<n.iterable>> \o n.body
    [] n.node = "SwitchStatement" ->
         <<n.subject>> \o n.default \o FlattenSeq([i \in DOMAIN n.cases |-> n.cases[i].body])
    [] n.node = "TryCatchStatement" -> n.body \o FlattenSeq(n.catch) \o FlattenSeq(n.finally)
    [] OTHER -> <<>>

RECURSIVE Escapes(_), SupportedNode(_)
EscapesOf(b) == UNION {Escapes(b[i]) : i \in DOMAIN b}

(* The ways in which control can leave a node other than to what follows:  *)
(* a call of anything but a native on constants may throw, and so may      *)
(* every operator, as far as one can see here.                             *)
Harmless(n) ==
  \/ n.node \in {"Literal", "FunctionExpression", "FunctionStatement"}
  \/ n.node = "CallExpression" /\ n.callee.node = "Identifier" /\ n.callee.name \in Globals
     /\ \A i \in DOMAIN n.args : n.args[i].node = "Literal"
Escapes(n) ==
  CASE n.node = "BreakStatement" -> {"break"}
    [] n.node = "ContinueStatement" -> {"continue"}
    [] n.node = "ReturnStatement" -> {"return"} \cup EscapesOf(n.value)
    [] Harmless(n) -> {}
    [] n.node \in {"WhileStatement", "DoWhileStatement", "ForStatement", "ForInStatement", "ForOfStatement"} ->
         EscapesOf(Parts(n)) \ {"break", "continue"}
    [] n.node = "SwitchStatement" -> EscapesOf(Parts(n)) \ {"break"}
    [] n.node = "TryCatchStatement" /\ n.catch # None ->
         (EscapesOf(n.body) \ {"throw"}) \cup EscapesOf(FlattenSeq(n.catch \o n.finally))
    [] n.node \in {"ThrowStatement", "Identifier", "BinaryExpression", "UnaryExpression", "UpdateExpression",
                   "CallExpression", "IndexExpression", "CompoundAssignStatement", "AssignStatement"} ->
         {"throw"} \cup EscapesOf(Parts(n))
    [] OTHER -> EscapesOf(Parts(n))

(* What the compiler gets right.  A continue in a do-while skips the       *)
(* condition, one in a switch is never patched, the default of a switch    *)
(* runs after every case, and a break in it goes back to its start; a jump *)
(* out of a try block leaves its handler behind; a finally is skipped by a *)
(* return out of the block, and by everything that leaves the catch block; *)
(* and the right operand of && and || is evaluated in any case.            *)
SupportedNode(n) ==
  /\ n.node = "DoWhileStatement" => "continue" \notin EscapesOf(n.body)
  /\ n.node = "SwitchStatement" => /\ "continue" \notin EscapesOf(Parts(n))
                                   /\ n.cases = <<>> \/ n.default = <<>>
                                   /\ "break" \notin EscapesOf(n.default)
  /\ n.node = "TryCatchStatement" =>
       /\ EscapesOf(n.body) \cap {"break", "continue"} = {}
       /\ n.finally # None => /\ "return" \notin EscapesOf(n.body)
                              /\ EscapesOf(FlattenSeq(n.catch)) = {}
  /\ n.node = "BinaryExpression" /\ n.op \in {"AND", "OR"} => n.right.node = "Literal"
  /\ \A i \in DOMAIN Parts(n) : SupportedNode(Parts(n)[i])

SupportedBlock(b) == \A i \in DOMAIN b : SupportedNode(b[i])
SupportedProgram(fns) ==
  \A i \in DOMAIN fns : SupportedBlock(fns[i].body \o FlattenSeq(fns[i].defaults))
=============================================================================
