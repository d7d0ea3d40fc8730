----------------------------- MODULE MCFrontend -----------------------------
(***************************************************************************)
(* Trees to write, read and format: every form of expression in every      *)
(* place of every other, with a third level for the operators; every form  *)
(* of statement with every form of expression, and in the block of every   *)
(* other.  And texts that are no programs: every short sequence of some    *)
(* tokens, and of others in front of an import list that is broken off.    *)
(***************************************************************************)
EXTENDS FrontendProperties

a == Identifier("a")
b == Identifier("b")
c == Identifier("c")
one == NumberLiteral(<<"1">>)
s == StringLiteral(<<"s">>)
Params(xs, rest, default) ==
  Function(xs, rest, [i \in DOMAIN xs |-> IF i = Len(xs) THEN default ELSE None], <<>>)
Plain(xs, body) == [Params(xs, None, None) EXCEPT !.body = body]
Bin(l, op, r) == BinaryExpression(l, op, r)

(* An expression around e: those of operators, and the others. *)
Operators(e) == <<
  Bin(e, "MINUS", b), Bin(b, "MINUS", e), Bin(e, "ASTERISK", b), Bin(b, "ASTERISK", e),
  Bin(e, "AND", b), Bin(b, "OR", e), Bin(e, "NULLISH", b), Bin(b, "NULLISH", e),
  UnaryExpression("MINUS", e), UnaryExpression("BANG", e), AwaitExpression(e),
  TernaryExpression(e, b, c), TernaryExpression(b, e, c), TernaryExpression(b, c, e),
  TernaryExpression(b, ArrayLiteral(<<c>>), e),
  CallExpression(e, <<b>>), NewExpression(e, <<b>>), IndexExpression(e, b), GetExpression(e, "x")>>
Others(e) == <<
  Bin(e, "OR", b), Bin(b, "EQ", e), Bin(e, "LT", b), Bin(b, "SHL", e), Bin(e, "BITAND", b),
  CallExpression(b, <<e>>), CallExpression(b, <<one, SpreadElement(e)>>), NewExpression(b, <<e>>),
  NewExpression(b, <<SpreadElement(e)>>), IndexExpression(b, e), GetExpression(e, "class"),
  ArrayLiteral(<<e, one>>), ArrayLiteral(<<SpreadElement(e)>>),
  ObjectLiteral(<<ObjectProperty(<<"x">>, e), ObjectProperty(<<"new">>, e)>>), ObjectLiteral(<<SpreadElement(e)>>),
  TypeofExpression(e), VoidExpression(e), DynamicImportExpression(e), SuperCallExpression(<<e>>),
  GetExpression(SuperExpression("x"), "y"), UpdateExpression("PLUSPLUS", "a", TRUE), UpdateExpression("MINUSMINUS", "a", FALSE),
  NamedFunction("", Plain(<<"x">>, <<ReturnStatement(<<e>>)>>), FALSE),
  NamedFunction("f", Params(<<"x", "y">>, <<"z">>, <<e>>), TRUE),
  ArrowFunction(Plain(<<"x">>, <<e>>), TRUE, FALSE),
  ArrowFunction(Plain(<<>>, <<ExpressionStatement(e)>>), FALSE, TRUE),
  ArrowFunction([Params(<<"x">>, None, <<e>>) EXCEPT !.body = <<one>>], TRUE, FALSE),
  ArrowFunction([Params(<<"x", "y">>, <<"z">>, None) EXCEPT !.body = <<e>>], TRUE, FALSE),
  ArrowFunction(Plain(<<"x">>, <<e>>), TRUE, TRUE),
  OptionalAccess(e, GetExpression(TheBase, "x")), OptionalAccess(b, IndexExpression(TheBase, e)),
  OptionalAccess(e, CallExpression(TheBase, <<b>>)), OptionalAccess(b, CallExpression(GetExpression(TheBase, "x"), <<e>>))>>
Forms(e) == Operators(e) \o Others(e)

(* The forms around every one of es. *)
AllOf(Around1(_), es) ==
  LET n == Len(Around1(es[1]))
  IN <<>> \o [i \in 1..(n * Len(es)) |-> Around1(es[1 + (i - 1) \div n])[((i - 1) % n) + 1]]
Literals == <<a, Identifier("this"), one, s, BoolLiteral(TRUE), NullLiteral,
              StringLiteral(<<>>), ArrayLiteral(<<>>), ObjectLiteral(<<>>)>>
Inner == <<Bin(a, "MINUS", b), Bin(a, "ASTERISK", b), Bin(a, "NULLISH", b), UnaryExpression("MINUS", a),
           AwaitExpression(a), TernaryExpression(a, b, c)>>
Expressions ==
  Literals \o AllOf(Forms, Forms(a)) \o AllOf(Operators, AllOf(Operators, Inner))

(* A statement around e, and one around a block. *)
Lines(e) == <<
  LetStatement("x", e), AssignStatement("x", e), CompoundAssignStatement("x", "PLUSEQ", e),
  SetPropertyStatement(e, "x", b), CompoundSetPropertyStatement(b, "x", "MINUSEQ", e), ExpressionStatement(e),
  ReturnStatement(<<e>>), ReturnStatement(None), ThrowStatement(<<e>>), ThrowStatement(None), BreakStatement, ContinueStatement,
  ArrayDestructuringLetStatement(<<"x", "y">>, e), ArrayDestructuringAssignStatement(<<"x", "y">>, e),
  ObjectDestructuringLetStatement(<<Binding(<<"x">>, <<"y">>)>>, e),
  ObjectDestructuringAssignStatement(<<Binding(<<"x">>, <<"y">>), Binding(<<"new">>, <<"z">>)>>, e),
  ExportStatement("declaration", LetStatement("x", e)), ExportStatement("default", e),
  DeclaredFunction("f", Params(<<"x">>, None, <<e>>), FALSE)>>
Declarations == <<
  ImportStatement(<<"x", "y">>, "", <<"m">>), ImportStatement(<<>>, "x", <<"m">>),
  ExportStatement("all", <<"m">>), ExportStatement("names", <<ExportSpecifier("x", "y")>>), ExportStatement("names", <<>>),
  ClassStatement("C", "D", <<ClassMethod("get", "x", Plain(<<>>, <<>>)), ClassMethod("set", "x", Plain(<<"v">>, <<>>))>>, <<>>),
  ClassStatement("C", "", <<ClassMethod("static", "x", Params(<<"v">>, <<"w">>, <<one>>))>>, <<>>),
  ClassStatement("C", "", <<>>, <<MangledName("x")>>), ExportStatement("default", ClassStatement("C", "", <<>>, <<>>))>>
Blocks(body) == <<
  IfStatement(a, body, None), IfStatement(a, <<>>, <<body>>), WhileStatement(a, body), DoWhileStatement(body, a),
  ForStatement(<<LetStatement("i", one)>>, <<Bin(a, "LT", b)>>, <<AssignStatement("i", Bin(a, "PLUS", one))>>, body),
  ForStatement(None, None, <<ExpressionStatement(UpdateExpression("PLUSPLUS", "a", FALSE))>>, body),
  ForStatement(<<ExpressionStatement(a)>>, None, None, body),
  ForInStatement("x", a, body), ForOfStatement("x", a, body),
  SwitchStatement(a, <<CaseClause(one, body), CaseClause(b, <<>>)>>, None), SwitchStatement(a, <<CaseClause(one, <<>>)>>, <<body>>),
  TryCatchStatement(body, "x", <<<<>>>>, None), TryCatchStatement(<<>>, "x", <<body>>, <<<<>>>>),
  TryCatchStatement(body, "", None, <<body>>),
  DeclaredFunction("f", Plain(<<"x">>, body), TRUE), ExportStatement("declaration", DeclaredFunction("f", Plain(<<"x">>, body), FALSE)),
  ClassStatement("C", "D", <<ClassMethod("", "x", Plain(<<"v">>, body)), ClassMethod("async", "y", Plain(<<>>, <<>>))>>, <<>>),
  ExpressionStatement(ArrowFunction(Plain(<<"x">>, body), FALSE, FALSE))>>
BlocksOf(line) == Blocks(<<line>>)
Statements ==
  AllOf(Lines, <<a, one>> \o Forms(a)) \o Declarations
    \o AllOf(BlocksOf, Lines(Bin(a, "MINUS", b))) \o AllOf(BlocksOf, AllOf(BlocksOf, <<ExpressionStatement(a), ReturnStatement(None)>>))
    \o <<ForStatement(None, <<a>>, <<ExpressionStatement(CallExpression(a, <<>>))>>, <<>>)>>

Entry(tree) == [text |-> Written(tree), tree |-> tree]

(* Other ways to write something: templates, the short form of a property, *)
(* comments, statements without semicolons or braces, commas at the end.   *)
Template(e) ==
  <<BackQuote, "s", "$", "{">> \o (IF StartsStatement(W(e)) THEN P(e) ELSE W(e)) \o <<"}", BackQuote>>
TemplateTree(e) == Bin(Bin(StringLiteral(<<"s">>), "PLUS", e), "PLUS", StringLiteral(<<>>))
Comment == <<"/", "/", "a", ";", "\n">>
Variants ==
  LET forms == Forms(a)
  IN <<>> \o [i \in DOMAIN forms |-> [text |-> <<"let", "x", "=">> \o Template(forms[i]),
                                     tree |-> <<LetStatement("x", TemplateTree(forms[i]))>>]]
  \o << [text |-> <<"let", "x", "=", BackQuote, "\\", "$", "{", Quote, BackQuote>>,
         tree |-> <<LetStatement("x", StringLiteral(<<"\\", "$", "{", Quote>>))>>],
        [text |-> <<"let", "x", "=", "{", "a", ",", Quote, "new", Quote, ":", "1", ",", "}">>,
         tree |-> <<LetStatement("x", ObjectLiteral(<<ObjectProperty(<<"a">>, a), ObjectProperty(<<"new">>, one)>>))>>],
        [text |-> Comment \o <<"if", "(", "a", ")", "b", ";", "else", "if", "(", "b", ")", "{">> \o Comment \o <<"}", "return", "a", ".", "b", "\n">> \o Comment,
         tree |-> <<IfStatement(a, <<ExpressionStatement(b)>>, <<<<IfStatement(b, <<>>, None)>>>>), ReturnStatement(<<GetExpression(a, "b")>>)>>],
        [text |-> <<"while", "(", "(", "a", ")", ")", "{", "f", "(", "a", ",", ")">>,
         tree |-> <<WhileStatement(a, <<ExpressionStatement(CallExpression(Identifier("f"), <<a>>))>>)>>],
        [text |-> <<"let", "x", "=", "a", "+", "b", "*", "c", "-", "a", "/", "b", "<", "c", "=", "=", "a", "&", "b">>,
         tree |-> <<LetStatement("x", Bin(Bin(Bin(Bin(a, "PLUS", Bin(b, "ASTERISK", c)), "MINUS", Bin(a, "SLASH", b)), "LT", c),
                                          "EQ", Bin(a, "BITAND", b)))>>] >>

(* Texts of tokens as they come, behind the beginning of a statement. *)
Openings == << <<>>, <<"import", "{">>, <<"let">>, <<"a", "=", "(">>, <<"class", "C", "{">>, <<"switch", "(", "a", ")", "{">> >>
Words == <<" ", "a", "1", "(", ")", "{", "}", ",", "=", "from">>
Scraps ==
  LET word(i) == Words[(i % 10) + 1]
      opening(i) == Openings[(i \div 1000) + 1]
  IN <<>> \o [k \in 1..(1000 * Len(Openings)) |->
       [text |-> opening(k - 1) \o <<word((k - 1) \div 100), word((k - 1) \div 10), word(k - 1)>>, tree |-> None]]

(* Texts in front of an import list that is broken off. *)
Bits == << <<" ">>, <<"a">>, <<"(">>, <<")">>, <<"{">>, <<"}">>, <<";">>, <<"=">>, <<",">>, <<"for", "(">>, <<"class", "a", "{">>,
           <<"#", "x">>, <<"case">>, <<"let">>, <<"export">>, <<"return">>, <<"import">>, <<".", ".", ".">> >>
BrokenOffTexts ==
  LET n == Len(Bits)
      bit(i) == Bits[(i % n) + 1]
  IN <<>> \o [k \in 1..(n * n * n) |->
       [text |-> bit((k - 1) \div (n * n)) \o bit((k - 1) \div n) \o bit(k - 1) \o <<"import", "{", "a">>, tree |-> None]]
     \o [k \in 1..n |-> [text |-> <<"let", "x", "=", BackQuote, "$", "{">> \o bit(k) \o <<"import", "{", "a", " ", "a", "}", "}", BackQuote>>,
                         tree |-> None]]

Trees ==
  LET expressions == Expressions
      statements == Statements
  IN <<>> \o [i \in DOMAIN expressions |-> <<LetStatement("x", expressions[i])>>]
       \o [i \in DOMAIN statements |-> <<statements[i]>>]
TheSources ==
  LET trees == Trees
  IN <<>> \o [i \in DOMAIN trees |-> Entry(trees[i])] \o Variants \o Scraps \o BrokenOffTexts

(* Definitions with LET, which the statistics do not look into. *)
TheReading(text) == LET reading(t) == Parsed(t) IN reading(text)
ThePrinting(tree) == LET printing(t) == FormatProgramSource(t) IN printing(tree)
=============================================================================
