------------------------------ MODULE Compiler ------------------------------
(***************************************************************************)
(* The compiler of ialang/pkg/lang/compiler, from the syntax tree to the   *)
(* instructions of a chunk.  A compiler c has the code so far, the loops   *)
(* it is in with the jumps of their breaks and continues, which are        *)
(* patched when the loop is left, the number of temporary names made, and  *)
(* whether it has found an error; every operator here takes one and        *)
(* returns the next.  After an error nothing more is compiled: the code    *)
(* goes on to find more of them, but makes no chunk either.                *)
(*                                                                         *)
(* Addresses count from 1, and an operand that is still to be patched is   *)
(* 0.  An instruction holds its constants itself, and a function is the    *)
(* number it has in the program: there is no constant pool.                *)
(***************************************************************************)
EXTENDS Language, FiniteSetsExt

Unpatched == 0

NewCompiler == [code |-> <<>>, loops |-> <<>>, temps |-> 0, failed |-> FALSE]
Here(c) == Len(c.code) + 1

Emit(c, op, a) == [c EXCEPT !.code = Append(@, [op |-> op, a |-> a, b |-> ""])]
EmitPushTry(c, x) ==
  [c EXCEPT !.code = Append(@, [op |-> "OpPushTry", a |-> Unpatched, b |-> x])]
EmitConstant(c, v) == Emit(c, "OpConstant", v)
EmitClosure(c, f, name) ==
  [c EXCEPT !.code = Append(@, [op |-> "OpClosure", a |-> f, b |-> name])]

(* The jump that was emitted last, to be patched later. *)
Jump(c) == {Len(c.code)}
Patch(c, jumps, target) ==
  FoldSet(LAMBDA j, d : [d EXCEPT !.code[j].a = target], c, jumps)

PushLoop(c) == [c EXCEPT !.loops = Append(@, [breaks |-> {}, continues |-> {}])]
PopLoop(c) == [c EXCEPT !.loops = Front(@)]

TempName(c) == "__tmp_" \o ToString(c.temps)
NewTemp(c) == [c EXCEPT !.temps = @ + 1]

-----------------------------------------------------------------------------
(* Expressions. *)

RECURSIVE CompileExpression(_, _)
RECURSIVE CompileExpressions(_, _)
CompileExpressions(es, c) ==
  IF es = <<>> \/ c.failed THEN c ELSE CompileExpressions(Tail(es), CompileExpression(es[1], c))

(* Both operands first, also of the logical operators. *)
OpCode(op) ==
  CASE op = "AND" -> "OpAnd" [] op = "OR" -> "OpOr" [] OTHER -> op

CompileNullishCoalescing(e, c) ==
  LET left == Emit(CompileExpression(e.left, c), "OpJumpIfNotNullish", Unpatched)
      right == CompileExpression(e.right, Emit(left, "OpPop", 0))
  IN Patch(right, Jump(left), Here(right))

CompileBinary(e, c) ==
  IF e.op = "NULLISH" THEN CompileNullishCoalescing(e, c)
  ELSE Emit(CompileExpressions(<<e.left, e.right>>, c), OpCode(e.op), 0)

CompileTernary(e, c) ==
  LET test == Emit(CompileExpression(e.condition, c), "OpJumpIfFalse", Unpatched)
      then == Emit(CompileExpression(e.then, test), "OpJump", Unpatched)
      else == CompileExpression(e.else, Patch(then, Jump(test), Here(then)))
  IN Patch(else, Jump(then), Here(else))

CompileOptionalChain(e, c) ==
  LET base == Emit(CompileExpression(e.base, c), "OpJumpIfNotNullish", Unpatched)
      null == Emit(EmitConstant(Emit(base, "OpPop", 0), Null), "OpJump", Unpatched)
      access == Emit(CompileExpression(e.index, Patch(null, Jump(base), Here(null))), "OpIndex", 0)
  IN Patch(access, Jump(null), Here(access))

(* The other way round. *)
CompileUpdateSwapped(e, c) ==
  LET old == Emit(c, "OpGetName", e.name)
      first == IF e.prefix THEN Emit(old, "OpDup", 0) ELSE old
      new == Emit(EmitConstant(first, Number(1)), e.op, 0)
  IN Emit(IF e.prefix THEN new ELSE Emit(new, "OpDup", 0), "OpSetName", e.name)

(* The prefix form duplicates the new value, the postfix form the old one. *)
CompileUpdate(e, c) ==
  LET old == Emit(c, "OpGetName", e.name)
      first == IF e.prefix THEN old ELSE Emit(old, "OpDup", 0)
      new == Emit(EmitConstant(first, Number(1)), e.op, 0)
  IN Emit(IF e.prefix THEN Emit(new, "OpDup", 0) ELSE new, "OpSetName", e.name)

CompileCall(e, c) ==
  Emit(CompileExpressions(e.args, CompileExpression(e.callee, c)), "OpCall", Len(e.args))

CompileExpression(e, c) ==
  CASE e.node = "Literal" -> EmitConstant(c, e.value)
    [] e.node = "Identifier" -> Emit(c, "OpGetName", e.name)
    [] e.node = "FunctionExpression" -> EmitClosure(c, e.fn, "")
    [] e.node = "ArrayLiteral" ->
         Emit(CompileExpressions(e.elements, c), "OpArray", Len(e.elements))
    [] e.node = "BinaryExpression" -> CompileBinary(e, c)
    [] e.node = "UnaryExpression" ->
         Emit(CompileExpression(e.right, c), IF e.op = "BANG" THEN "OpNot" ELSE "OpNeg", 0)
    [] e.node = "UpdateExpression" -> CompileUpdate(e, c)
    [] e.node = "CallExpression" -> CompileCall(e, c)
    [] e.node = "IndexExpression" -> Emit(CompileExpressions(<<e.object, e.index>>, c), "OpIndex", 0)
    [] e.node = "TernaryExpression" -> CompileTernary(e, c)
    [] e.node = "OptionalChainExpression" -> CompileOptionalChain(e, c)
    [] e.node = "VoidExpression" ->
         EmitConstant(Emit(CompileExpression(e.expr, c), "OpPop", 0), Null)

-----------------------------------------------------------------------------
(* Statements. *)

RECURSIVE CompileStatement(_, _)
RECURSIVE CompileBlock(_, _)
CompileBlock(b, c) ==
  IF b = <<>> \/ c.failed THEN c ELSE CompileBlock(Tail(b), CompileStatement(b[1], c))

CompileIf(st, c) ==
  LET test == Emit(CompileExpression(st.condition, c), "OpJumpIfFalse", Unpatched)
      then == CompileBlock(st.then, test)
      skip == Emit(then, "OpJump", Unpatched)
      else == CompileBlock(st.else, Patch(skip, Jump(test), Here(skip)))
  IN IF st.else = <<>> THEN Patch(then, Jump(test), Here(then))
     ELSE Patch(else, Jump(skip), Here(else))

(* The jump back to start, and the exits of the loop behind it. *)
CloseLoop(c, start, exits) ==
  LET back == Emit(c, "OpJump", start) IN Patch(back, exits, Here(back))

CompileWhile(st, c) ==
  LET test == Emit(CompileExpression(st.condition, c), "OpJumpIfFalse", Unpatched)
      body == CompileBlock(st.body, PushLoop(test))
      loop == Last(body.loops)
  IN CloseLoop(PopLoop(Patch(body, loop.continues, Here(c))), Here(c), Jump(test) \cup loop.breaks)

(* A continue goes to the body again, and the condition is not asked. *)
CompileDoWhile(st, c) ==
  LET body == CompileBlock(st.body, PushLoop(c))
      loop == Last(body.loops)
      test == CompileExpression(st.condition, PopLoop(Patch(body, loop.continues, Here(c))))
      again == Emit(test, "OpJumpIfTrue", Here(c))
  IN Patch(again, loop.breaks, Here(again))

(* A continue goes to the condition, past the post statement. *)
CompileForPastPost(st, c) ==
  LET init == CompileBlock(st.init, c)
      test == Emit(CompileExpression(st.condition, init), "OpJumpIfFalse", Unpatched)
      body == CompileBlock(st.body, PushLoop(test))
      loop == Last(body.loops)
      post == CompileBlock(st.post, PopLoop(Patch(body, loop.continues, Here(init))))
  IN CloseLoop(post, Here(init), Jump(test) \cup loop.breaks)

CompileFor(st, c) ==
  LET init == CompileBlock(st.init, c)
      test == Emit(CompileExpression(st.condition, init), "OpJumpIfFalse", Unpatched)
      body == CompileBlock(st.body, PushLoop(test))
      loop == Last(body.loops)
      post == CompileBlock(st.post, PopLoop(Patch(body, loop.continues, Here(body))))
  IN CloseLoop(post, Here(init), Jump(test) \cup loop.breaks)

(* for-of and, over the keys, for-in: the array and an index, in names of  *)
(* their own, and a loop that compares the index with the length.          *)
CompileEach(st, c) ==
  LET array == TempName(c)
      index == TempName(NewTemp(c))
      value == CompileExpression(st.iterable, NewTemp(NewTemp(c)))
      items == IF st.node = "ForInStatement" THEN Emit(value, "OpObjectKeys", 0) ELSE value
      start == Emit(EmitConstant(Emit(items, "OpDefineName", array), Number(0)),
                    "OpDefineName", index)
      less == Emit(Emit(Emit(Emit(start, "OpGetName", index), "OpGetName", array),
                        "OpGetProperty", "length"), "LT", 0)
      test == Emit(less, "OpJumpIfFalse", Unpatched)
      item == Emit(Emit(Emit(Emit(PushLoop(test), "OpGetName", array), "OpGetName", index),
                        "OpIndex", 0), "OpDefineName", st.name)
      body == CompileBlock(st.body, item)
      loop == Last(body.loops)
      post == PopLoop(Patch(body, loop.continues, Here(body)))
      next == Emit(Emit(EmitConstant(Emit(post, "OpGetName", index), Number(1)), "PLUS", 0),
                   "OpSetName", index)
  IN CloseLoop(next, Here(start), Jump(test) \cup loop.breaks)

(* The normal end of the block forgets its handler. *)
CompileTryBlockUnpopped(b, x, c) ==
  LET try == EmitPushTry(c, x)
      left == Emit(CompileBlock(b, try), "OpJump", Unpatched)
  IN Patch(left, Jump(try), Here(left))

(* A block under a handler: OpPushTry is patched with what comes behind    *)
(* the jump that leads the block's normal end past the handler.            *)
CompileTryBlock(b, x, c) ==
  LET try == EmitPushTry(c, x)
      left == Emit(Emit(CompileBlock(b, try), "OpPopTry", 0), "OpJump", Unpatched)
  IN Patch(left, Jump(try), Here(left))

CompileTryCatch(st, c) ==
  LET try == CompileTryBlock(st.body, st.name, c)
      catch == CompileBlock(st.catch[1], try)
      done == Patch(catch, Jump(try), Here(catch))
  IN IF st.finally = None THEN done ELSE CompileBlock(st.finally[1], done)

(* The failure is not noted. *)
CompileTryFinallySilent(st, c) ==
  LET error == TempName(c)
      init == Emit(EmitConstant(NewTemp(c), Null), "OpDefineName", error)
      try == CompileTryBlock(st.body, error, init)
  IN CompileBlock(st.finally[1], Patch(try, Jump(try), Here(try)))

CompileTryFinally(st, c) ==
  LET error == TempName(c)
      failed == TempName(NewTemp(c))
      init == Emit(EmitConstant(Emit(EmitConstant(NewTemp(NewTemp(c)), Bool(FALSE)),
                                     "OpDefineName", failed), Null), "OpDefineName", error)
      try == CompileTryBlock(st.body, error, init)
      catch == Emit(EmitConstant(try, Bool(TRUE)), "OpSetName", failed)
      finally == CompileBlock(st.finally[1], Patch(catch, Jump(try), Here(catch)))
      test == Emit(Emit(finally, "OpGetName", failed), "OpJumpIfFalse", Unpatched)
      rethrow == Emit(Emit(test, "OpGetName", error), "OpThrow", 0)
  IN Patch(rethrow, Jump(test), Here(rethrow))

(* The subject stays on the stack while the cases are compared with it.    *)
(* ends has the jumps of the cases that have run; they, like the breaks,   *)
(* go to the address in front of the default.                              *)
CompileCase(cs, ends, c) ==
  LET test == Emit(Emit(CompileExpression(cs.value, Emit(c, "OpDup", 0)), "EQ", 0),
                   "OpJumpIfFalse", Unpatched)
      body == Emit(CompileBlock(cs.body, Emit(test, "OpPop", 0)), "OpJump", Unpatched)
  IN [ends |-> ends \cup Jump(body), c |-> Patch(body, Jump(test), Here(body))]

(* The cases that have run go to the pop of the subject, which is gone. *)
CompileSwitchPoppingTwice(st, c) ==
  LET cases == FoldLeft(LAMBDA r, cs : CompileCase(cs, r.ends, r.c),
                        [ends |-> {}, c |-> PushLoop(CompileExpression(st.subject, c))], st.cases)
      default == CompileBlock(st.default, Emit(cases.c, "OpPop", 0))
  IN PopLoop(Patch(default, Last(default.loops).breaks \cup cases.ends, Here(cases.c)))

CompileSwitch(st, c) ==
  LET cases == FoldLeft(LAMBDA r, cs : CompileCase(cs, r.ends, r.c),
                        [ends |-> {}, c |-> PushLoop(CompileExpression(st.subject, c))], st.cases)
      end == Emit(cases.c, "OpPop", 0)
      default == CompileBlock(st.default, end)
  IN PopLoop(Patch(default, Last(default.loops).breaks \cup cases.ends, Here(end)))

(* A jump out of the innermost loop, or an error where there is none. *)
CompileBreak(c) ==
  LET j == Emit(c, "OpJump", Unpatched)
  IN IF c.loops = <<>> THEN [j EXCEPT !.failed = TRUE]
     ELSE [j EXCEPT !.loops[Len(c.loops)].breaks = @ \cup Jump(j)]
CompileContinue(c) ==
  LET j == Emit(c, "OpJump", Unpatched)
  IN IF c.loops = <<>> THEN [j EXCEPT !.failed = TRUE]
     ELSE [j EXCEPT !.loops[Len(c.loops)].continues = @ \cup Jump(j)]

CompileDestructuring(st, op, c) ==
  LET array == TempName(c)
      value == Emit(CompileExpression(st.value, NewTemp(c)), "OpDefineName", array)
      element(d, i) ==
        Emit(Emit(EmitConstant(Emit(d, "OpGetName", array), Number(i - 1)), "OpIndex", 0),
             op, st.names[i])
  IN FoldLeft(element, value, [i \in 1..Len(st.names) |-> i])

CompileReturn(st, c) ==
  IF st.value = None THEN Emit(c, "OpReturn", 0)
  ELSE Emit(CompileExpression(st.value[1], c), "OpReturn", 1)

CompileStatement(st, c) ==
  CASE st.node = "LetStatement" -> Emit(CompileExpression(st.value, c), "OpDefineName", st.name)
    [] st.node = "AssignStatement" -> Emit(CompileExpression(st.value, c), "OpSetName", st.name)
    [] st.node = "CompoundAssignStatement" ->
         Emit(Emit(CompileExpression(st.value, Emit(c, "OpGetName", st.name)), st.op, 0),
              "OpSetName", st.name)
    [] st.node = "ArrayDestructuringLetStatement" -> CompileDestructuring(st, "OpDefineName", c)
    [] st.node = "ArrayDestructuringAssignStatement" -> CompileDestructuring(st, "OpSetName", c)
    [] st.node = "FunctionStatement" ->
         Emit(EmitClosure(c, st.fn, st.name), "OpDefineName", st.name)
    [] st.node = "ReturnStatement" -> CompileReturn(st, c)
    [] st.node = "ThrowStatement" -> Emit(CompileExpression(st.value, c), "OpThrow", 0)
    [] st.node = "ExpressionStatement" -> Emit(CompileExpression(st.expr, c), "OpPop", 0)
    [] st.node = "BreakStatement" -> CompileBreak(c)
    [] st.node = "ContinueStatement" -> CompileContinue(c)
    [] st.node = "IfStatement" -> CompileIf(st, c)
    [] st.node = "WhileStatement" -> CompileWhile(st, c)
    [] st.node = "DoWhileStatement" -> CompileDoWhile(st, c)
    [] st.node = "ForStatement" -> CompileFor(st, c)
    [] st.node \in {"ForInStatement", "ForOfStatement"} -> CompileEach(st, c)
    [] st.node = "SwitchStatement" -> CompileSwitch(st, c)
    [] st.node = "TryCatchStatement" ->
         IF st.catch = None THEN CompileTryFinally(st, c) ELSE CompileTryCatch(st, c)

-----------------------------------------------------------------------------
(* Functions: first the defaults of the parameters that have no value, and *)
(* behind the body the return of those that do not return.                 *)

CompileDefault(f, i, c) ==
  LET test == Emit(Emit(c, "OpGetName", f.params[i]), "OpJumpIfNotNullish", Unpatched)
      value == CompileExpression(f.defaults[i][1], Emit(test, "OpPop", 0))
      set == Emit(value, "OpSetName", f.params[i])
  IN IF f.defaults[i] = None THEN c ELSE Patch(set, Jump(test), Here(set))

CompileFunction(f) ==
  LET defaults == FoldLeft(LAMBDA c, i : CompileDefault(f, i, c), NewCompiler,
                           [i \in 1..Len(f.params) |-> i])
      done == Emit(CompileBlock(f.body, defaults), "OpReturn", 0)
  IN [params |-> f.params, rest |-> f.rest, code |-> done.code, failed |-> done.failed]

(* The templates of a program, unless one of them has an error. *)
Compiled(fns) == <<>> \o [i \in DOMAIN fns |-> CompileFunction(fns[i])]
HasErrors(templates) == \E i \in DOMAIN templates : templates[i].failed
=============================================================================
