--------------------------- MODULE PortableForms ---------------------------
(***************************************************************************)
(* The programs that run on iavm as they do on the machine of ialang.      *)
(***************************************************************************)
EXTENDS Lowering, SupportedForms

-----------------------------------------------------------------------------
(* The stack is one for all calls and nothing cuts it off: when a call is  *)
(* left, by a return or by an exception, nothing may lie on it.            *)

RECURSIVE Leaves(_), KeepsStack(_, _)
LeavesOf(b) == UNION {Leaves(b[i]) : i \in DOMAIN b}
Leaves(n) ==
  CASE n.node = "ReturnStatement" -> {"return"} \cup LeavesOf(n.value)
    [] n.node = "ThrowStatement" \/ (n.node = "CallExpression" /\ n.callee # Identifier("print")) ->
         {"throw"} \cup LeavesOf(Parts(n))
    [] n.node = "TryCatchStatement" /\ n.catch # None ->
         (LeavesOf(n.body) \ {"throw"}) \cup LeavesOf(FlattenSeq(n.catch \o n.finally))
    [] OTHER -> LeavesOf(Parts(n))

(* What of the node is computed while something lies on the stack for it.  *)
UnderOperands(n) ==
  CASE n.node \in {"BinaryExpression", "CallExpression", "IndexExpression", "ArrayLiteral"}
         /\ Parts(n) # <<>> -> Tail(Parts(n))
    [] n.node = "CompoundAssignStatement" -> <<n.value>>
    [] n.node = "SwitchStatement" -> FlattenSeq([i \in DOMAIN n.cases |-> n.cases[i].body])
    [] OTHER -> <<>>

(* Whether two arrays are equal is a panic here. *)
NeverArray(e) == e.node \in {"Literal", "UnaryExpression", "BinaryExpression"}
NoArraysCompared(n) ==
  /\ n.node = "BinaryExpression" /\ n.op \in {"EQ", "NEQ", "LTE", "GTE"} =>
       NeverArray(n.left) \/ NeverArray(n.right)
  /\ n.node = "SwitchStatement" =>
       NeverArray(n.subject) \/ \A i \in DOMAIN n.cases : NeverArray(n.cases[i].value)

(* Also, the verifier does not know what do-while, the for loops over      *)
(* arrays, ?? and ?. are lowered to; && and || give booleans; and a call   *)
(* takes what lies on top of the stack for the value that is returned.     *)
KeepsStack(n, harmless) ==
  /\ n.node \notin {"DoWhileStatement", "ForInStatement", "ForOfStatement", "OptionalChainExpression"}
  /\ n.node = "BinaryExpression" => n.op \notin {"AND", "OR", "NULLISH"}
  /\ n.node = "ReturnStatement" => n.value # None
  /\ NoArraysCompared(n)
  /\ LeavesOf(UnderOperands(n)) \subseteq harmless
  /\ \A i \in DOMAIN Parts(n) : KeepsStack(Parts(n)[i], harmless)

(* Where nothing is thrown, a call is not left by an exception. *)
Throwing(ts) == \E f \in DOMAIN ts : \E n \in DOMAIN ts[f].code : ts[f].code[n].op = "OpThrow"
FormsSupported(fns, ts) ==
  \A f \in DOMAIN fns :
    /\ fns[f].rest = None /\ \A i \in DOMAIN fns[f].defaults : fns[f].defaults[i] = None
    /\ f # 1 => fns[f].body # <<>> /\ Last(fns[f].body).node = "ReturnStatement"
    /\ \A i \in DOMAIN fns[f].body :
         KeepsStack(fns[f].body[i], IF Throwing(ts) THEN {} ELSE {"throw"})

-----------------------------------------------------------------------------
(* A name means one variable, for lowering as for the program: no local    *)
(* hides another variable, the name of a handler is not the first constant *)
(* of its chunk, and the names of functions are not assigned to, nor those *)
(* by which the entry of a module is looked for.                           *)
NamesSupported(ts) ==
  LET shared == ToSet(Operands(ts[1].code, {"OpSetName", "OpDefineName"}))
      functions == FunctionNames(ts)
      named == ToSet(functions) \ {""}
      uses(f) == ToSet(Operands(ts[f].code, {"OpGetName", "OpSetName", "OpDefineName"}))
  IN /\ \A f \in DOMAIN ts :
          /\ \A n \in DOMAIN ts[f].code : ts[f].code[n].op = "OpPushTry" => HasCatchName(ts[f].code, n)
          /\ ToSet(Slots(ts, f)) \cap shared = {}
          /\ uses(f) \subseteq ToSet(Slots(ts, f) \o GlobalNames(ts)) \cup named \cup {"print"}
          /\ ToSet(Operands(ts[f].code, {"OpSetName"})) \cap (named \cup {"print"}) = {}
          /\ f # 1 /\ MakerOf(ts, f) # 1 => ToSet(Locals(ts[f])) \cap ToSet(Slots(ts, MakerOf(ts, f))) = {}
     /\ Cardinality(named) = Len(SelectSeq(functions, LAMBDA x : x # ""))
     /\ named \cap {"main", "entry", "print"} = {}

(* The cells of a closure become its first locals, and every closure that  *)
(* is made moves the variables it takes to cells of their own: one closure *)
(* works that has no locals, made once in a call, of variables that are    *)
(* not themselves taken from elsewhere, nor set by a handler.              *)
ClosuresSupported(ts) ==
  \A f \in DOMAIN ts :
    LET taken == ToSet(CapturedNames(ts, f))
        maker == ts[MakerOf(ts, f)].code
    IN taken # {} =>
         /\ Locals(ts[f]) = <<>>
         /\ CapturedNames(ts, MakerOf(ts, f)) = <<>>
         /\ Len(Inner(ts, MakerOf(ts, f))) = 1
         /\ \A n \in DOMAIN maker :
              /\ maker[n].op = "OpPushTry" => maker[n].b \notin taken
              /\ maker[n].op \in Jumping => maker[n].a > n

(* Errors of operators and of names are exceptions in the language, while  *)
(* here they are values or the end of the run.  They are the only texts    *)
(* the programs in question have, and nobody fails with one or prints one. *)
Reference == INSTANCE Semantics
NoErrors(fns) ==
  LET meaning == Reference!Meaning(fns, <<>>)
  IN /\ meaning.ending # <<"failed", Text>>
     /\ \A k \in DOMAIN meaning.out : ~Contains(meaning.out[k], Text)

IavmSupported(fns) ==
  LET ts == Compiled(fns)
  IN /\ SupportedProgram(fns) /\ ~HasErrors(ts) /\ NoErrors(fns)
     /\ FormsSupported(fns, ts) /\ NamesSupported(ts) /\ ClosuresSupported(ts)
=============================================================================
