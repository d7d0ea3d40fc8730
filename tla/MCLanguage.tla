----------------------------- MODULE MCLanguage -----------------------------
(***************************************************************************)
(* The machines of ialang and of iavm and the command ialang fmt, one of   *)
(* which runs in a behaviour.                                              *)
(*                                                                         *)
(* Programs to run.  The first family puts every way to leave a block into *)
(* every statement that has blocks, and that into every such statement     *)
(* again; the second has the rest of the language.                         *)
(***************************************************************************)
EXTENDS IalangVM, SupportedForms

(* What the compiler and the machine promise together, and for which       *)
(* programs: those that use only forms the compiler gets right.            *)
Reference == INSTANCE Semantics

-----------------------------------------------------------------------------
SupportedPrograms == {i \in DOMAIN Sources : SupportedProgram(Sources[i])}
Supported == prog \in SupportedPrograms

-----------------------------------------------------------------------------
(* The types: a call runs instructions of its function, in an environment that *)
(* exists, over values that have one of the shapes of Language.            *)
ValueOK(v) ==
  v[1] \in {"number", "bool", "null", "string", "array", "function", "native"}
TypeOK ==
  /\ prog \in DOMAIN Chunks
  /\ \A i \in DOMAIN frames :
       LET f == frames[i]
       IN /\ f.ip \in 0..Len(Code(f.fn))
          /\ f.env \in DOMAIN envs
          /\ \A j \in DOMAIN f.stack : ValueOK(f.stack[j])
          /\ \A j \in DOMAIN f.try : f.try[j].catch \in 1..Len(Code(f.fn)) /\ f.try[j].base \in 0..Len(f.stack)
  /\ \A k \in DOMAIN envs : envs[k].parent < k
  /\ ending = None \/ ending[1] \in {"returned", "failed", "panic"}

(* The answers the host has given, and what the program means with them. *)
Answers ==
  LET asks == SelectSeq(out, LAMBDA o : o[1] = Native("ask"))
  IN [i \in DOMAIN asks |-> asks[i][2][2]]
Agrees == [out |-> out, ending |-> ending] = Reference!Meaning(Sources[prog], Answers)

(* A supported program comes to an end, whatever the host answers, and has *)
(* then done what it means: compileStatement, compileExpression and the    *)
(* machine together leave out, repeat and reorder nothing.                 *)
HasItsMeaning == Supported => ending # None /\ Agrees
Faithful == <>HasItsMeaning

(* The types, and: the handlers of a running call are those of the try blocks its next     *)
(* instruction is in, the innermost last: none is left behind by a block   *)
(* that has ended, or by an exception that went through.  And a loop finds *)
(* at its jump back nothing on the stack but what the defaults of the      *)
(* parameters leave there: no turn adds to the stack.                      *)
Enclosing(code, ip) == {i \in DOMAIN code : code[i].op = "OpPushTry" /\ i < ip /\ ip <= code[i].a - 2}
Handlers(code, ip) ==
  LET regions == SetToSortSeq(Enclosing(code, ip), LAMBDA i, j : i < j)
  IN [n \in DOMAIN regions |-> code[regions[n]].a]
Balanced ==
  /\ TypeOK
  /\ Supported => \A i \in DOMAIN frames :
       LET f == frames[i]
           code == Code(f.fn)
       IN /\ [n \in DOMAIN f.try |-> f.try[n].catch] = Handlers(code, f.ip)
          /\ code[f.ip].op = "OpJump" /\ code[f.ip].a < f.ip
               => Len(f.stack) <= Len(Chunks[prog][f.fn].params)

(* "&&, || (short-circuit)": what the program does, and in which order, is *)
(* what the operators mean.                                                *)
ShortCircuits == <>(ending # None /\ Agrees)

-----------------------------------------------------------------------------

N(n) == Literal(Number(n))
V(x) == Identifier(x)
CallOf(x, args) == CallExpression(V(x), args)
Ask == CallOf("ask", <<>>)
Say(e) == ExpressionStatement(CallOf("print", <<e>>))
Show(n) == Say(N(n))
Plain(params, body) == Function(params, None, [i \in DOMAIN params |-> None], body)

(* Perhaps leave the block in between. *)
Exits == <<Show(1), BreakStatement, ContinueStatement, ReturnStatement(<<N(7)>>), ThrowStatement(N(8))>>
Interrupted(ask, exit) == <<Show(1), IfStatement(ask, <<exit>>, <<>>), Show(2)>>

Shells(ask, b, x) == <<
  IfStatement(ask, b, <<Show(3)>>),
  WhileStatement(ask, b),
  DoWhileStatement(b, ask),
  ForStatement(<<LetStatement(x, N(0))>>, BinaryExpression(V(x), "LT", N(2)),
               <<AssignStatement(x, BinaryExpression(V(x), "PLUS", N(1)))>>, b),
  ForOfStatement(x, ArrayLiteral(<<N(3), N(4)>>), b),
  SwitchStatement(N(1), <<CaseClause(N(0), <<Show(3)>>), CaseClause(N(1), b), CaseClause(N(1), <<Show(4)>>)>>, <<>>),
  SwitchStatement(N(1), <<>>, b),
  TryCatchStatement(b, x, <<<<Say(V(x))>>>>, None),
  TryCatchStatement(<<ThrowStatement(N(3))>>, x, <<b>>, None),
  TryCatchStatement(b, "", None, <<<<Show(3)>>>>),
  TryCatchStatement(b, x, <<<<Show(3)>>>>, <<<<Show(4)>>>>),
  TryCatchStatement(<<Show(3)>>, x, <<<<Show(4)>>>>, <<b>>)>>

(* The function f, and a program that calls it and says how it ended. *)
WithBody(body) == <<
  Plain(<<>>, <<FunctionStatement("f", 2),
                TryCatchStatement(<<LetStatement("r", CallOf("f", <<>>)), Say(V("r"))>>,
                                  "e", <<<<Say(V("e"))>>>>, None)>>),
  Plain(<<>>, body \o <<Show(9)>>)>>

NestedBody(ask, exit, inner, outer) ==
  <<Shells(ask, <<Shells(ask, Interrupted(ask, Exits[exit]), "i")[inner], Show(5)>>, "j")[outer]>>
Nested ==
  [n \in 1..(5 * 12 * 12) |->
     WithBody(NestedBody(Ask, (n - 1) \div 144 + 1, (((n - 1) \div 12) % 12) + 1, ((n - 1) % 12) + 1))]

Increment == AssignStatement("n", BinaryExpression(V("n"), "PLUS", N(1)))
Rest == <<
  \* two counters made by one function
  << Plain(<<>>, <<FunctionStatement("make", 2),
                   LetStatement("a", CallOf("make", <<>>)), LetStatement("b", CallOf("make", <<>>)),
                   ExpressionStatement(CallOf("a", <<>>)), Say(CallOf("a", <<>>)), Say(CallOf("b", <<>>))>>),
     Plain(<<>>, <<LetStatement("n", N(0)), ReturnStatement(<<FunctionExpression(3)>>)>>),
     Plain(<<>>, <<Increment, ReturnStatement(<<V("n")>>)>>) >>,
  \* recursion, with an operand waiting for every call
  << Plain(<<>>, <<FunctionStatement("fact", 2), Say(CallOf("fact", <<N(3)>>))>>),
     Plain(<<"n">>, <<ReturnStatement(<<TernaryExpression(BinaryExpression(V("n"), "LT", N(2)), N(1),
                       BinaryExpression(V("n"), "ASTERISK",
                         CallOf("fact", <<BinaryExpression(V("n"), "MINUS", N(1))>>)))>>)>>) >>,
  \* defaults in order, the second uses the first; a loop behind them; a rest parameter
  << Plain(<<>>, <<FunctionStatement("f", 2), FunctionStatement("g", 3),
                   Say(CallOf("f", <<>>)), Say(CallOf("f", <<N(5)>>)), Say(CallOf("f", <<Literal(Null), N(6)>>)),
                   Say(CallOf("g", <<N(1), N(2), N(3)>>)), Say(CallOf("g", <<N(1)>>))>>),
     Function(<<"a", "b">>, None, <<<<Ask>>, <<V("a")>>>>,
              <<ForOfStatement("x", ArrayLiteral(<<N(1), N(2)>>), <<Say(V("x"))>>),
                ReturnStatement(<<ArrayLiteral(<<V("a"), V("b")>>)>>)>>),
     Function(<<"a">>, <<"more">>, <<None>>, <<ReturnStatement(<<V("more")>>)>>) >>,
  \* operators
  << Plain(<<>>, <<LetStatement("n", N(1)), LetStatement("a", ArrayLiteral(<<N(4), Literal(Null)>>)),
                   Say(UpdateExpression("PLUS", "n", FALSE)), Say(UpdateExpression("MINUS", "n", TRUE)), Say(V("n")),
                   Say(BinaryExpression(IndexExpression(V("a"), N(1)), "NULLISH", Ask)),
                   Say(BinaryExpression(IndexExpression(V("a"), N(0)), "NULLISH", Ask)),
                   Say(OptionalChainExpression(IndexExpression(V("a"), N(1)), Ask)),
                   Say(OptionalChainExpression(V("a"), N(0))),
                   Say(BinaryExpression(Ask, "AND", N(2))), Say(BinaryExpression(Ask, "OR", N(3))),
                   Say(TernaryExpression(Ask, UnaryExpression("MINUS", N(1)), VoidExpression(Ask))),
                   ArrayDestructuringLetStatement(<<"p", "q", "r">>, V("a")), Say(V("p")), Say(V("r")),
                   ArrayDestructuringAssignStatement(<<"p", "q">>, ArrayLiteral(<<V("q"), V("p")>>)),
                   Say(V("p")), Say(V("q"))>>) >>,
  \* errors that are caught: unknown names, no function, too many arguments, operands
  << Plain(<<>>, FlattenSeq([i \in 1..7 |-> <<TryCatchStatement(<<
        <<Say(V("x")), AssignStatement("x", N(1)), ExpressionStatement(CallExpression(N(1), <<N(2)>>)),
          ExpressionStatement(CallExpression(FunctionExpression(2), <<N(1), N(2)>>)),
          Say(BinaryExpression(N(1), "MINUS", Literal(Null))), Say(UnaryExpression("MINUS", Literal(Null))),
          ForOfStatement("x", N(1), <<Show(1)>>)>>[i], Show(i)>>,
        "e", <<<<Say(V("e"))>>>>, None)>>])),
     Plain(<<"a">>, <<>>) >>,
  \* an exception through two calls, with operands waiting in both, in a loop of a case
  << Plain(<<>>, <<FunctionStatement("f", 2), FunctionStatement("g", 3),
                   SwitchStatement(Ask, <<CaseClause(Literal(Bool(TRUE)), <<
                     ForOfStatement("i", ArrayLiteral(<<N(1), N(2)>>), <<
                       TryCatchStatement(<<Say(BinaryExpression(V("i"), "PLUS", CallOf("f", <<V("i")>>)))>>,
                                         "e", <<<<Say(V("e"))>>>>, None)>>)>>)>>, <<>>),
                   Say(BinaryExpression(N(1), "EQ", N(1)))>>),
     Plain(<<"x">>, <<ReturnStatement(<<BinaryExpression(V("x"), "PLUS", CallOf("g", <<V("x")>>))>>)>>),
     Plain(<<"y">>, <<IfStatement(Ask, <<ThrowStatement(V("y"))>>, <<>>), ReturnStatement(<<N(1)>>)>>) >>,
  \* an exception nobody catches, after what is caught and thrown again
  << Plain(<<>>, <<TryCatchStatement(<<ThrowStatement(N(1))>>, "e", <<<<ThrowStatement(V("e"))>>>>, None)>>) >>,
  \* for-in, over an array and over nothing
  << Plain(<<>>, <<ForInStatement("k", ArrayLiteral(<<N(1), N(2)>>), <<Say(V("k"))>>),
                   ForInStatement("k", N(0), <<Say(V("k"))>>), Say(V("k"))>>) >>,
  \* closures of a loop share the scope of the function
  << Plain(<<>>, <<ForOfStatement("i", ArrayLiteral(<<N(1), N(2)>>), <<
                     IfStatement(BinaryExpression(V("i"), "EQ", N(1)), <<LetStatement("f", FunctionExpression(2))>>, <<>>)>>),
                   Say(CallOf("f", <<>>))>>),
     Plain(<<>>, <<ReturnStatement(<<V("i")>>)>>) >>,
  \* not supported: a throw out of a catch that has a finally; a continue in a switch;
  \* a default behind the case that matches
  << Plain(<<>>, <<TryCatchStatement(<<ThrowStatement(N(1))>>, "e", <<<<ThrowStatement(N(2))>>>>, <<<<Show(3)>>>>)>>) >>,
  << Plain(<<>>, <<WhileStatement(Ask, <<SwitchStatement(N(1), <<>>, <<ContinueStatement>>)>>)>>) >>,
  << Plain(<<>>, <<SwitchStatement(N(1), <<CaseClause(N(1), <<Show(1)>>)>>, <<Show(2)>>)>>) >> >>

ThePrograms == Nested \o Rest
(* With LET, which keeps TLC's statistics of coverage out of the compiler, *)
(* where they would take forever.                                          *)
TheTemplates ==
  LET templates(i) == Compiled(ThePrograms[i])
  IN <<>> \o [i \in DOMAIN ThePrograms |-> templates(i)]

-----------------------------------------------------------------------------
(* For iavm, which has no native that asks: the answers are in an array.   *)
Answer == IndexExpression(V("as"), UpdateExpression("PLUS", "n", FALSE))
Given(answers) ==
  << LetStatement("as", ArrayLiteral([i \in DOMAIN answers |-> Literal(Bool(answers[i]))])),
     LetStatement("n", N(0)) >>
WithAnswers(answers, body) == <<
  Plain(<<>>, Given(answers) \o WithBody(<<>>)[1].body),
  Plain(<<>>, <<Show(0)>> \o body \o <<Show(9), ReturnStatement(<<N(9)>>)>>)>>

(* All but do-while and for-of, and another three ways in. *)
Lowered == <<1, 2, 4, 6, 7, 8, 9, 10, 11, 12>>
AnswerLists == << <<TRUE>>, <<TRUE, TRUE, TRUE>>, <<TRUE, FALSE, TRUE, TRUE>>, <<FALSE, TRUE>> >>
NestedOnIavm ==
  [n \in 1..(5 * 10 * 10 * 4) |->
     LET k == n - 1
     IN WithAnswers(AnswerLists[(k % 4) + 1],
          NestedBody(Answer, k \div 400 + 1, Lowered[((k \div 40) % 10) + 1], Lowered[((k \div 4) % 10) + 1]))]

Returns(e) == ReturnStatement(<<e>>)
RestOnIavm == <<
  Rest[1], Rest[2],
  \* a counter: one closure, made by every call of its maker
  << Plain(<<>>, <<FunctionStatement("make", 2),
                   LetStatement("a", CallOf("make", <<>>)), LetStatement("b", CallOf("make", <<>>)),
                   Say(CallOf("a", <<>>)), Say(CallOf("a", <<>>)), Say(CallOf("b", <<>>))>>),
     Plain(<<>>, <<LetStatement("n", N(0)), LetStatement("f", FunctionExpression(3)),
                   AssignStatement("n", N(5)), ExpressionStatement(CallOf("f", <<>>)), Say(V("n")), Returns(V("f"))>>),
     Plain(<<>>, <<Increment, Returns(V("n"))>>) >>,
  \* makeAdder: a closure with a parameter
  << Plain(<<>>, <<FunctionStatement("makeAdder", 2),
                   Say(CallExpression(CallOf("makeAdder", <<N(3)>>), <<N(4)>>))>>),
     Plain(<<"x">>, <<Returns(FunctionExpression(3))>>),
     Plain(<<"y">>, <<Returns(BinaryExpression(V("x"), "PLUS", V("y")))>>) >>,
  \* two functions that call each other by their names, and one that is made inside
  << Plain(<<>>, <<FunctionStatement("even", 2), FunctionStatement("odd", 3), Say(CallOf("even", <<N(3)>>)),
                   Say(CallOf("odd", <<N(3)>>))>>),
     Plain(<<"n">>, <<IfStatement(BinaryExpression(V("n"), "EQ", N(0)), <<Returns(Literal(Bool(TRUE)))>>, <<>>),
                      Returns(CallOf("odd", <<BinaryExpression(V("n"), "MINUS", N(1))>>))>>),
     Plain(<<"n">>, <<IfStatement(BinaryExpression(V("n"), "EQ", N(0)), <<Returns(Literal(Bool(FALSE)))>>, <<>>),
                      FunctionStatement("less", 4),
                      Returns(CallOf("even", <<CallOf("less", <<V("n"), N(1)>>)>>))>>),
     Plain(<<"a", "b">>, <<Returns(BinaryExpression(V("a"), "MINUS", V("b")))>>) >>,
  \* an exception through two calls, caught by the first, with a handler and a call between
  << Plain(<<>>, <<FunctionStatement("f", 2), FunctionStatement("g", 3),
                   Show(1), LetStatement("r", CallOf("f", <<N(2)>>)), Say(V("r")), ThrowStatement(V("r"))>>),
     Plain(<<"x">>, <<Show(0), TryCatchStatement(<<TryCatchStatement(<<LetStatement("y", CallOf("g", <<V("x"), N(4)>>)), Say(V("y"))>>,
                        "", None, <<<<Say(V("x"))>>>>)>>, "e", <<<<Say(V("e"))>>>>, None), Returns(V("x"))>>),
     Plain(<<"x", "z">>, <<IfStatement(BinaryExpression(V("x"), "LT", V("z")), <<ThrowStatement(V("z"))>>, <<>>), Returns(N(1))>>) >>,
  \* operators, arrays, destructuring
  << Plain(<<>>, <<LetStatement("n", N(1)), LetStatement("a", ArrayLiteral(<<N(4), Literal(Null), N(6)>>)),
                   Say(UpdateExpression("PLUS", "n", FALSE)), Say(UpdateExpression("MINUS", "n", TRUE)), Say(V("n")),
                   Say(TernaryExpression(BinaryExpression(V("n"), "LTE", N(1)), UnaryExpression("MINUS", N(3)), VoidExpression(V("n")))),
                   Say(BinaryExpression(V("n"), "ASTERISK", N(2))), Say(BinaryExpression(N(2), "GTE", V("n"))),
                   Say(UnaryExpression("BANG", BinaryExpression(V("n"), "NEQ", N(1)))),
                   CompoundAssignStatement("n", "MINUS", IndexExpression(V("a"), N(2))), Say(V("n")),
                   ArrayDestructuringLetStatement(<<"p", "q", "r">>, V("a")), Say(V("p")), Say(V("r")),
                   ArrayDestructuringAssignStatement(<<"p", "q">>, ArrayLiteral(<<V("q"), V("p")>>)),
                   Say(V("p")), Say(V("q"))>>) >>,
  \* not supported: errors, a handler on the first constant, no value returned, a function called main,
  \* what the verifier does not know
  << Plain(<<>>, <<Say(BinaryExpression(N(1), "LTE", Literal(Null))), ExpressionStatement(CallExpression(N(1), <<>>))>>) >>,
  << Plain(<<>>, <<Say(IndexExpression(N(1), N(0)))>>) >>,
  << Plain(<<>>, <<Say(BinaryExpression(ArrayLiteral(<<>>), "EQ", ArrayLiteral(<<>>)))>>) >>,
  << Plain(<<>>, <<TryCatchStatement(<<ThrowStatement(N(1))>>, "e", <<<<Say(V("e"))>>>>, None)>>) >>,
  << Plain(<<>>, <<FunctionStatement("f", 2), Say(CallOf("f", <<>>))>>), Plain(<<>>, <<Show(1)>>) >>,
  << Plain(<<>>, <<FunctionStatement("main", 2), Show(1)>>), Plain(<<>>, <<Returns(N(1))>>) >>,
  << Plain(<<>>, <<DoWhileStatement(<<Show(1)>>, Literal(Bool(FALSE)))>>) >> >>

Forms == INSTANCE PortableForms
Lower == INSTANCE Verifier

(* From the text to what the interpreter runs, by way of the file. *)
TheText(i) == IF i <= Len(RestOnIavm) THEN RestOnIavm[i] ELSE NestedOnIavm[i - Len(RestOnIavm)]
AllTexts == Len(RestOnIavm) + Len(NestedOnIavm)
ThePreparation(i) ==
  LET fns == TheText(i)
      file == Lower!EncodeModule(Lower!LowerToModule(Compiled(fns)))
  IN [loaded |-> Lower!Load(file, "sandbox"),
      expected |-> IF Forms!IavmSupported(fns) THEN <<Forms!Reference!Meaning(fns, <<>>)>> ELSE None]

LogicPrograms ==
  << << Plain(<<>>, <<Say(BinaryExpression(Ask, "AND", Ask)), Say(BinaryExpression(Ask, "OR", Ask))>>) >> >>
LogicTemplates ==
  LET templates(i) == Compiled(LogicPrograms[i])
  IN <<>> \o [i \in DOMAIN LogicPrograms |-> templates(i)]

-----------------------------------------------------------------------------
CONSTANTS
  Texts,          \* how many programs run on iavm
  Preparation(_), \* what becomes of a program before it runs there
  FmtSources, Reading(_), Printing(_), MaxRuns  \* those of Formatter

VARIABLES
  machine, \* what runs: "ialang", "iavm" or "fmt"
  loaded, stack, globals, cells, expected,
  work, file, read, written, runs
programVars == <<prog, frames, envs, out, ending>>
iavmVars == <<loaded, stack, globals, cells, expected>>
fmtVars == <<work, file, read, written, runs>>
suiteVars == <<machine, programVars, iavmVars, fmtVars>>

Iavm == INSTANCE IavmVM
Fmt == INSTANCE FrontendProperties WITH Sources <- FmtSources

(* Files for fmt, from the texts of MCFrontend, and what reads and prints  *)
(* them.                                                                   *)
Nobody(x) == x
Files == INSTANCE MCFrontend WITH Sources <- <<>>, Reading <- Nobody, Printing <- Nobody, MaxRuns <- 0
TheFiles == Files!TheSources
NoFiles == <<>>
TheReading(text) == Files!TheReading(text)
ThePrinting(tree) == Files!ThePrinting(tree)

NoProgram == prog = 0 /\ frames = <<>> /\ envs = <<>> /\ out = <<>> /\ ending = None
NoIavm == loaded = None /\ stack = <<>> /\ globals = <<>> /\ cells = <<>> /\ expected = None
NoFmt == work = 0 /\ file = <<>> /\ read = None /\ written = None /\ runs = MaxRuns

SuiteInit ==
  \/ machine = "ialang" /\ Init /\ NoIavm /\ NoFmt
  \/ /\ machine = "iavm" /\ prog \in 1..Texts
     /\ \E p \in {Preparation(prog)} : loaded = p.loaded /\ expected = p.expected
     /\ Iavm!Init /\ envs = <<>> /\ NoFmt
  \/ machine = "fmt" /\ Fmt!Init /\ NoProgram /\ NoIavm
MachineNext ==
  \/ machine = "ialang" /\ Next /\ UNCHANGED <<machine, iavmVars, fmtVars>>
  \/ machine = "iavm" /\ Iavm!Next /\ UNCHANGED <<machine, prog, envs, expected, fmtVars>>
SuiteNext ==
  \/ MachineNext
  \/ machine = "fmt" /\ Fmt!Next /\ UNCHANGED <<machine, programVars, iavmVars>>
(* A machine that runs goes on; of fmt only the steps it takes are judged. *)
SuiteSpec == SuiteInit /\ [][SuiteNext]_suiteVars /\ WF_suiteVars(MachineNext)

(* Balanced, on the machine of ialang: the handlers                        *)
(* of a call are those of the try blocks it is in, and no turn of a loop   *)
(* adds to its stack.                                                      *)
IalangBalanced == machine = "ialang" => Balanced

(* Faithful, on the machine of ialang: what a supported program does, by   *)
(* way of the compiler, is what it means.                                  *)
IalangFaithful == <>(machine = "ialang" => HasItsMeaning)

(* The same on iavm, by way of the compiler, lowering, the encoder and the *)
(* decoder, the verifier and the interpreter.                              *)
IavmFaithful == <>(machine = "iavm" => Iavm!HasItsMeaning)

(* In every state of a supported program on iavm the stack is as high as   *)
(* verifyStackEffects computed for the address of every call.              *)
HeightsVerified == [][machine = "iavm" => Iavm!HeightsHold']_suiteVars

(* Understood, of the files of fmt: a text is read as the tree it was      *)
(* written for, exactly when that is Readable.                             *)
FilesUnderstood == Fmt!Understood

(* ReadsToEnd, of the files of fmt: whatever is in a file, with whatever   *)
(* errors, its parse ends, unless an import list is broken off in it, and  *)
(* never ends when that is where a statement begins.                       *)
FilesReadToEnd == Fmt!ReadsToEnd

(* KeepsMeaning, of the files of fmt: what it writes for a program that is *)
(* Formattable is read as the same program again.                          *)
FilesKeepMeaning == Fmt!KeepsMeaning
=============================================================================
