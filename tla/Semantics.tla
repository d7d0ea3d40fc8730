----------------------------- MODULE Semantics -----------------------------
(***************************************************************************)
(* What a program means: a reference definition by recursion over the      *)
(* syntax, independent of the compiler and of the machine, to hold them    *)
(* against.  Scopes are those of the language: a function has one scope,   *)
(* whatever blocks it has, and a block that runs twice binds twice.        *)
(*                                                                         *)
(* A run has a state s = [fns, envs, answers, out]: the functions of the   *)
(* program, the environments made so far, the answers the host has yet to  *)
(* give (when there are none left it says no), and what the program has    *)
(* done that can be seen.  Everything evaluates to [s, how, v], where how  *)
(* tells how it ended: "next" normally, with the value v, or one of        *)
(* "break", "continue", "return" and "throw".                              *)
(***************************************************************************)
EXTENDS Language

Ends(s, how, v) == [s |-> s, how |-> how, v |-> v]
Gives(s, v) == Ends(s, "next", v)
Throws(s, v) == Ends(s, "throw", v)
Outcome(s, result) == IF result = None THEN Throws(s, Text) ELSE Gives(s, result[1])

(* r, then what F makes of it, unless r ended otherwise. *)
Then(r, F(_)) == IF r.how = "next" THEN F(r) ELSE r

Bind(s, k, x, v) == [s EXCEPT !.envs = Define(@, k, x, v)]
Assign(s, k, x, v) ==
  IF Settable(s.envs, k, x) THEN Gives([s EXCEPT !.envs = Set(@, k, x, v)], v)
  ELSE Throws(s, Text)

(* The natives.  Their arguments are evaluated, and one suffices. *)
CallNative(s, name, args) ==
  IF name = "print"
  THEN Gives([s EXCEPT !.out = Append(@, <<Native("print")>> \o args)], Null)
  ELSE LET yes == s.answers # <<>> /\ s.answers[1]
       IN Gives([s EXCEPT !.answers = IF @ = <<>> THEN @ ELSE Tail(@),
                          !.out = Append(@, <<Native("ask"), Bool(yes)>>)], Bool(yes))

RECURSIVE Eval(_, _, _), EvalAll(_, _, _), Apply(_, _, _), Defaults(_, _, _, _)
RECURSIVE Exec(_, _, _), ExecAll(_, _, _), Loop(_, _, _, _, _), Each(_, _, _, _, _)
RECURSIVE Select(_, _, _, _, _)

Eval(e, k, s) ==
  CASE e.node = "Literal" -> Gives(s, e.value)
    [] e.node = "Identifier" ->
         IF Known(s.envs, k, e.name) THEN Gives(s, Get(s.envs, k, e.name)) ELSE Throws(s, Text)
    [] e.node = "FunctionExpression" -> Gives(s, Closure(e.fn, k))
    [] e.node = "ArrayLiteral" ->
         Then(EvalAll(e.elements, k, s), LAMBDA r : Gives(r.s, Array(r.v)))
    [] e.node = "BinaryExpression" ->
         Then(Eval(e.left, k, s), LAMBDA l :
           CASE e.op = "AND" /\ ~Truthy(l.v) -> l
             [] e.op = "OR" /\ Truthy(l.v) -> l
             [] e.op = "NULLISH" /\ l.v # Null -> l
             [] OTHER -> Then(Eval(e.right, k, l.s), LAMBDA r :
                           IF e.op \in {"AND", "OR", "NULLISH"} THEN r
                           ELSE Outcome(r.s, Binary(e.op, l.v, r.v))))
    [] e.node = "UnaryExpression" ->
         Then(Eval(e.right, k, s), LAMBDA r : Outcome(r.s, Unary(e.op, r.v)))
    [] e.node = "UpdateExpression" ->
         Then(Eval(Identifier(e.name), k, s), LAMBDA old :
           Then(Outcome(old.s, Binary(e.op, old.v, Number(1))), LAMBDA new :
             Then(Assign(new.s, k, e.name, new.v), LAMBDA r :
               IF e.prefix THEN r ELSE Gives(r.s, old.v))))
    [] e.node = "TernaryExpression" ->
         Then(Eval(e.condition, k, s), LAMBDA c :
           Eval(IF Truthy(c.v) THEN e.then ELSE e.else, k, c.s))
    [] e.node = "IndexExpression" ->
         Then(EvalAll(<<e.object, e.index>>, k, s), LAMBDA r :
           Outcome(r.s, Index(r.v[1], r.v[2])))
    [] e.node = "OptionalChainExpression" ->
         Then(Eval(e.base, k, s), LAMBDA b :
           IF b.v = Null THEN b
           ELSE Then(Eval(e.index, k, b.s), LAMBDA i : Outcome(i.s, Index(b.v, i.v))))
    [] e.node = "VoidExpression" ->
         Then(Eval(e.expr, k, s), LAMBDA r : Gives(r.s, Null))
    [] e.node = "CallExpression" ->
         Then(Eval(e.callee, k, s), LAMBDA f :
           Then(EvalAll(e.args, k, f.s), LAMBDA a : Apply(f.v, a.v, a.s)))

(* From left to right, until one throws: the sequence of the values. *)
EvalAll(es, k, s) ==
  IF es = <<>> THEN Gives(s, <<>>)
  ELSE Then(Eval(es[1], k, s), LAMBDA x :
         Then(EvalAll(Tail(es), k, x.s), LAMBDA r : Gives(r.s, <<x.v>> \o r.v)))

(* A parameter that has a default and no value gets it, the first one first. *)
Defaults(f, i, k, s) ==
  IF i > Len(f.params) THEN Gives(s, Null)
  ELSE IF f.defaults[i] = None \/ s.envs[k].values[f.params[i]] # Null
  THEN Defaults(f, i + 1, k, s)
  ELSE Then(Eval(f.defaults[i][1], k, s), LAMBDA r :
         Defaults(f, i + 1, k, Bind(r.s, k, f.params[i], r.v)))

Apply(callee, args, s) ==
  CASE callee[1] = "native" -> CallNative(s, callee[2], args)
    [] callee[1] # "function" -> Throws(s, Text)
    [] TooMany(s.fns[callee[2]], args) -> Throws(s, Text)
    [] OTHER ->
         LET f == s.fns[callee[2]]
             entered == [s EXCEPT !.envs = Call(@, callee[3], f, args)]
             k == Len(entered.envs)
             r == Then(Defaults(f, 1, k, entered), LAMBDA d : ExecAll(f.body, k, d.s))
         IN CASE r.how = "return" -> Gives(r.s, r.v)
              [] r.how = "next" -> Gives(r.s, Null)
              [] OTHER -> r

(* Binds names to the elements of an array, in this order. *)
Destructure(names, v, s, Put(_, _, _)) ==
  FoldLeft(LAMBDA r, i : Then(r, LAMBDA q :
             Then(Outcome(q.s, Index(v, Number(i - 1))), LAMBDA x : Put(names[i], x.v, x.s))),
           Gives(s, Null), [i \in 1..Len(names) |-> i])

(* What follows the body b of a loop: Next, unless b left the loop. *)
Turn(b, Next(_)) ==
  CASE b.how = "break" -> Gives(b.s, Null)
    [] b.how \in {"return", "throw"} -> b
    [] OTHER -> Next(b.s)

Loop(condition, body, post, k, s) ==
  Then(Eval(condition, k, s), LAMBDA c :
    IF ~Truthy(c.v) THEN Gives(c.s, Null)
    ELSE Turn(ExecAll(body, k, c.s), LAMBDA q :
           Then(ExecAll(post, k, q), LAMBDA p : Loop(condition, body, post, k, p.s))))

(* The body once for each of the elements. *)
Each(elements, x, body, k, s) ==
  IF elements = <<>> THEN Gives(s, Null)
  ELSE Turn(ExecAll(body, k, Bind(s, k, x, elements[1])), LAMBDA q :
         Each(Tail(elements), x, body, k, q))

(* The statements of the first case with the value of the subject, else of *)
(* the default; a break ends the switch.                                   *)
Select(v, cases, default, k, s) ==
  IF cases = <<>> THEN ExecAll(default, k, s)
  ELSE Then(Eval(cases[1].value, k, s), LAMBDA c :
         IF Equal(v, c.v) THEN ExecAll(cases[1].body, k, c.s)
         ELSE Select(v, Tail(cases), default, k, c.s))

Exec(st, k, s) ==
  CASE st.node = "LetStatement" ->
         Then(Eval(st.value, k, s), LAMBDA r : Gives(Bind(r.s, k, st.name, r.v), Null))
    [] st.node = "AssignStatement" ->
         Then(Eval(st.value, k, s), LAMBDA r : Assign(r.s, k, st.name, r.v))
    [] st.node = "CompoundAssignStatement" ->
         Then(Eval(BinaryExpression(Identifier(st.name), st.op, st.value), k, s), LAMBDA r :
           Assign(r.s, k, st.name, r.v))
    [] st.node = "ArrayDestructuringLetStatement" ->
         Then(Eval(st.value, k, s), LAMBDA r :
           Destructure(st.names, r.v, r.s, LAMBDA x, v, q : Gives(Bind(q, k, x, v), Null)))
    [] st.node = "ArrayDestructuringAssignStatement" ->
         Then(Eval(st.value, k, s), LAMBDA r :
           Destructure(st.names, r.v, r.s, LAMBDA x, v, q : Assign(q, k, x, v)))
    [] st.node = "ExpressionStatement" -> Eval(st.expr, k, s)
    [] st.node = "FunctionStatement" -> Gives(Bind(s, k, st.name, Closure(st.fn, k)), Null)
    [] st.node = "ReturnStatement" ->
         IF st.value = None THEN Ends(s, "return", Null)
         ELSE Then(Eval(st.value[1], k, s), LAMBDA r : Ends(r.s, "return", r.v))
    [] st.node = "ThrowStatement" ->
         Then(Eval(st.value, k, s), LAMBDA r : Throws(r.s, r.v))
    [] st.node = "BreakStatement" -> Ends(s, "break", Null)
    [] st.node = "ContinueStatement" -> Ends(s, "continue", Null)
    [] st.node = "IfStatement" ->
         Then(Eval(st.condition, k, s), LAMBDA c :
           ExecAll(IF Truthy(c.v) THEN st.then ELSE st.else, k, c.s))
    [] st.node = "WhileStatement" -> Loop(st.condition, st.body, <<>>, k, s)
    [] st.node = "DoWhileStatement" ->
         Turn(ExecAll(st.body, k, s), LAMBDA q : Loop(st.condition, st.body, <<>>, k, q))
    [] st.node = "ForStatement" ->
         Then(ExecAll(st.init, k, s), LAMBDA r : Loop(st.condition, st.body, st.post, k, r.s))
    [] st.node = "ForOfStatement" ->
         Then(Eval(st.iterable, k, s), LAMBDA r :
           IF r.v[1] = "array" THEN Each(r.v[2], st.name, st.body, k, r.s) ELSE Throws(r.s, Text))
    [] st.node = "ForInStatement" ->
         Then(Eval(st.iterable, k, s), LAMBDA r :
           Each(ObjectKeys(r.v)[1][2], st.name, st.body, k, r.s))
    [] st.node = "SwitchStatement" ->
         Then(Eval(st.subject, k, s), LAMBDA v :
           LET r == Select(v.v, st.cases, st.default, k, v.s)
           IN IF r.how = "break" THEN Gives(r.s, Null) ELSE r)
    [] st.node = "TryCatchStatement" ->
         LET b == ExecAll(st.body, k, s)
             c == IF b.how = "throw" /\ st.catch # None
                  THEN ExecAll(st.catch[1], k, Bind(b.s, k, st.name, b.v)) ELSE b
             f == IF st.finally = None THEN Gives(c.s, Null) ELSE ExecAll(st.finally[1], k, c.s)
         IN IF f.how = "next" THEN [c EXCEPT !.s = f.s] ELSE f

ExecAll(b, k, s) ==
  IF b = <<>> THEN Gives(s, Null)
  ELSE Then(Exec(b[1], k, s), LAMBDA r : ExecAll(Tail(b), k, r.s))

(* A whole program: what it did, and how it ended. *)
Meaning(fns, answers) ==
  LET s == [fns |-> fns, envs |-> <<>>, answers |-> answers, out |-> <<>>]
      r == Apply(Closure(1, 0), <<>>, s)
  IN [out |-> r.s.out,
      ending |-> IF r.how = "throw" THEN <<"failed", r.v>> ELSE <<"returned", r.v>>]
=============================================================================
