------------------------------- MODULE Parser -------------------------------
(***************************************************************************)
(* The parser of ialang/pkg/lang/frontend: from a sequence T of tokens to  *)
(* the tree of a program.  Every operator takes the index of the current   *)
(* token, and returns the index of the token it stops at with what it has  *)
(* parsed, as the methods of the parser leave them in curToken.            *)
(*                                                                         *)
(* Behind an error the parser goes on, to report more of them: a method    *)
(* that meets one returns nil at the token it has come to, most of its     *)
(* callers do not look at that, and the next statement begins behind the   *)
(* token where the last one stopped.  The tree of a text with errors is    *)
(* thrown away at the end.  Hangs is the outcome of a loop that reads no   *)
(* more tokens and never ends.                                             *)
(***************************************************************************)
EXTENDS Language, Lexer

(* The nodes of iacommon/pkg/ialang/ast that module Language leaves out,   *)
(* because its compiler and its machine do.  Here a function holds its     *)
(* body, an operator is the type of its token, and an argument or element  *)
(* that is spread is a SpreadElement.  Positions and comments are left     *)
(* out.                                                                    *)
NumberLiteral(w) == [node |-> "NumberLiteral", value |-> w]
StringLiteral(s) == [node |-> "StringLiteral", value |-> s]
BoolLiteral(b) == [node |-> "BoolLiteral", value |-> b]
NullLiteral == [node |-> "NullLiteral"]
SpreadElement(e) == [node |-> "SpreadElement", expr |-> e]
(* The key of a property, and the name a binding gives it, are texts. *)
ObjectProperty(k, e) == [node |-> "ObjectProperty", key |-> k, value |-> e]
ObjectLiteral(ps) == [node |-> "ObjectLiteral", properties |-> ps]
GetExpression(e, x) == [node |-> "GetExpression", object |-> e, property |-> x]
NewExpression(e, args) == [node |-> "NewExpression", callee |-> e, args |-> args]
AwaitExpression(e) == [node |-> "AwaitExpression", expr |-> e]
TypeofExpression(e) == [node |-> "TypeofExpression", expr |-> e]
DynamicImportExpression(e) == [node |-> "DynamicImportExpression", module |-> e]
SuperExpression(x) == [node |-> "SuperExpression", property |-> x]
SuperCallExpression(args) == [node |-> "SuperCallExpression", args |-> args]
(* A function expression has a name or "", an arrow function a block or an *)
(* expression for its body.                                                *)
NamedFunction(x, f, async) == [node |-> "FunctionExpression", name |-> x, fn |-> f, async |-> async]
ArrowFunction(f, concise, async) ==
  [node |-> "ArrowFunctionExpression", fn |-> f, concise |-> concise, async |-> async]

(* The access that follows ?. is written with this for its object. *)
TheBase == [node |-> "Nothing"]
OptionalAccess(e, access) == [node |-> "OptionalChainExpression", base |-> e, access |-> access]

SetPropertyStatement(e, x, v) ==
  [node |-> "SetPropertyStatement", object |-> e, property |-> x, value |-> v]
CompoundSetPropertyStatement(e, x, op, v) ==
  [node |-> "CompoundSetPropertyStatement", object |-> e, property |-> x, op |-> op, value |-> v]
Binding(k, x) == [key |-> k, name |-> x]
ObjectDestructuringLetStatement(bs, e) ==
  [node |-> "ObjectDestructuringLetStatement", bindings |-> bs, value |-> e]
ObjectDestructuringAssignStatement(bs, e) ==
  [node |-> "ObjectDestructuringAssignStatement", bindings |-> bs, value |-> e]
DeclaredFunction(x, f, async) ==
  [node |-> "FunctionStatement", name |-> x, fn |-> f, async |-> async]
(* The kind of a method is one of "", "static", "get", "set" and "async". *)
ClassMethod(kind, x, f) == [kind |-> kind, name |-> x, fn |-> f]
ClassStatement(x, parent, ms, fields) ==
  [node |-> "ClassStatement", name |-> x, parent |-> parent, methods |-> ms, fields |-> fields]
(* A namespace import has no names, and namespace, which is "" otherwise. *)
ImportStatement(xs, namespace, module) ==
  [node |-> "ImportStatement", names |-> xs, namespace |-> namespace, module |-> module]
ExportStatement(what, v) == [node |-> "ExportStatement", what |-> what, value |-> v]
ExportSpecifier(local, name) == [local |-> local, name |-> name]

-----------------------------------------------------------------------------

(* What a method returns at token i: a value; nil, with an error reported; *)
(* or never anything.  errs says whether there has been an error on the    *)
(* way, of which nothing else is kept.                                     *)
Nothing == [node |-> "nil"]
Got(i, v) == [at |-> i, v |-> v, nil |-> FALSE, errs |-> FALSE]
Nil(i) == [at |-> i, v |-> Nothing, nil |-> TRUE, errs |-> TRUE]
Hangs == Nil(0)

(* q comes behind r. *)
Behind(r, q) == IF r.errs THEN [q EXCEPT !.errs = TRUE] ELSE q
(* r, then what F makes of it, by a caller that returns nil when r is nil. *)
AndThen(r, F(_)) == IF r.nil THEN r ELSE Behind(r, F(r))
(* For a caller that does not look whether r is nil, which then is v. *)
OrElse(r, v) == IF r.nil /\ r.at # 0 THEN [r EXCEPT !.nil = FALSE, !.v = v] ELSE r

Type(T, i) == IF i \in DOMAIN T THEN T[i][1] ELSE "EOF"
Word(T, i) == T[i][2]

(* The next token is one of the types, and becomes the current one. *)
ExpectPeek(T, i, types, F(_)) == IF Type(T, i + 1) \in types THEN F(i + 1) ELSE Nil(i)
(* A semicolon behind a statement belongs to it. *)
Semicolon(T, i) == IF Type(T, i + 1) = "SEMICOLON" THEN i + 1 ELSE i

LOWEST == 1
PREFIX == 10
Precedences ==
  [QUESTION |-> 2, NULLISH |-> 3, OR |-> 4, AND |-> 5, EQ |-> 6, NEQ |-> 6,
   LT |-> 7, GT |-> 7, LTE |-> 7, GTE |-> 7, PLUS |-> 8, MINUS |-> 8, BITOR |-> 8, BITXOR |-> 8, BITAND |-> 8,
   ASTERISK |-> 9, SLASH |-> 9, MODULO |-> 9, SHL |-> 9, SHR |-> 9,
   LPAREN |-> 11, DOT |-> 12, OPTCHAIN |-> 12, LBRACKET |-> 13]
SUM == 8
(* & binds less than a comparison, as in C. *)
PrecedenceAsInC(type) ==
  IF type = "BITAND" THEN Precedences["AND"] ELSE IF type \in DOMAIN Precedences THEN Precedences[type] ELSE LOWEST
Precedence(type) == IF type \in DOMAIN Precedences THEN Precedences[type] ELSE LOWEST

RECURSIVE ParseExpression(_, _, _), ParseInfix(_, _, _), ParseList(_, _, _, _, _)
RECURSIVE ParseStatement(_, _), ParseBlock(_, _, _), Parsed(_)

NoParams == Function(<<>>, None, <<>>, <<>>)
AddParam(f, x, default) == [f EXCEPT !.params = Append(@, x), !.defaults = Append(@, default)]

(* An expression, for a caller that does not look whether there is one. *)
Expression(T, i, prec) == OrElse(ParseExpression(T, i, prec), Nothing)
(* A statement that was none is not added. *)
Added(b, st) == IF st = Nothing THEN b ELSE Append(b, st)

-----------------------------------------------------------------------------
(* Lists: i is the token in front of the next item. *)

(* A key and a value, or an identifier that is both. *)
Key(T, i) == IF Type(T, i) = "STRING" THEN Word(T, i) ELSE <<Word(T, i)>>
ParseProperty(T, i) ==
  CASE Type(T, i) \notin {"IDENT", "STRING"} -> Nil(i)
    [] Type(T, i + 1) = "COLON" ->
         AndThen(Expression(T, i + 2, LOWEST), LAMBDA r : Got(r.at, ObjectProperty(Key(T, i), r.v)))
    [] Type(T, i) = "IDENT" -> Got(i, ObjectProperty(Key(T, i), Identifier(Word(T, i))))
    [] OTHER -> Nil(i)

ParseBinding(T, i) ==
  CASE Type(T, i) \notin {"IDENT", "STRING"} -> Nil(i)
    [] Type(T, i + 1) = "COLON" ->
         ExpectPeek(T, i + 1, {"IDENT"}, LAMBDA j : Got(j, Binding(Key(T, i), Key(T, j))))
    [] OTHER -> Got(i, Binding(Key(T, i), Key(T, i)))

ParseExportSpecifier(T, i) ==
  CASE Type(T, i) # "IDENT" -> Nil(i)
    [] Type(T, i + 1) = "IDENT" /\ Word(T, i + 1) = "as" ->
         ExpectPeek(T, i + 1, {"IDENT"}, LAMBDA j : Got(j, ExportSpecifier(Word(T, i), Word(T, j))))
    [] OTHER -> Got(i, ExportSpecifier(Word(T, i), Word(T, i)))

ParseItem(T, i, kind) ==
  CASE kind \in {"element", "property"} /\ Type(T, i) = "SPREAD" ->
         AndThen(ParseExpression(T, i + 1, LOWEST), LAMBDA r : Got(r.at, SpreadElement(r.v)))
    [] kind = "element" -> ParseExpression(T, i, LOWEST)
    [] kind = "expression" -> Expression(T, i, LOWEST)
    [] kind = "property" -> ParseProperty(T, i)
    [] kind = "binding" -> ParseBinding(T, i)
    [] kind = "specifier" -> ParseExportSpecifier(T, i)
    [] kind = "name" -> IF Type(T, i) = "IDENT" THEN Got(i, Word(T, i)) ELSE Nil(i)

(* The loop goes on at an item with nothing behind it. *)
ParseListStuck(T, i, end, kind, items) ==
  CASE Type(T, i + 1) = end -> Got(i + 1, items)
    [] OTHER ->
         AndThen(ParseItem(T, i + 1, kind), LAMBDA r :
           CASE Type(T, r.at + 1) = "COMMA" -> ParseList(T, r.at + 1, end, kind, Append(items, r.v))
             [] Type(T, r.at + 1) = end -> Got(r.at + 1, Append(items, r.v))
             [] OTHER -> Hangs)
(* The list may end with a comma. *)
ParseList(T, i, end, kind, items) ==
  CASE Type(T, i + 1) = end -> Got(i + 1, items)
    [] kind = "property" /\ Type(T, i + 1) = "COMMENT" -> ParseList(T, i + 1, end, kind, items)
    [] OTHER ->
         AndThen(ParseItem(T, i + 1, kind), LAMBDA r :
           CASE Type(T, r.at + 1) = "COMMA" -> ParseList(T, r.at + 1, end, kind, Append(items, r.v))
             [] Type(T, r.at + 1) = end -> Got(r.at + 1, Append(items, r.v))
             [] OTHER -> Nil(r.at))

(* Of a list with an error in it nothing is left. *)
ListOrNone(T, i, end, kind) == OrElse(ParseList(T, i, end, kind, <<>>), <<>>)
ParseArguments(T, i) == ListOrNone(T, i, "RPAREN", "element")
ParseExpressionList(T, i) == ListOrNone(T, i, "RPAREN", "expression")

(* The default of parameter i, if it has one. *)
ParseDefault(T, i) == IF Type(T, i + 1) = "ASSIGN" THEN Expression(T, i + 2, LOWEST) ELSE Got(i, None)

(* The parameters of a function, from its left to its right parenthesis. *)
RECURSIVE ParseParams(_, _, _)
ParseParams(T, i, f) ==
  CASE Type(T, i) = "SPREAD" ->
         ExpectPeek(T, i, {"IDENT"}, LAMBDA j :
           ExpectPeek(T, j, {"RPAREN"}, LAMBDA k : Got(k, [f EXCEPT !.rest = <<Word(T, j)>>])))
    [] Type(T, i) # "IDENT" -> Nil(i)
    [] OTHER ->
         AndThen(ParseDefault(T, i), LAMBDA r :
           LET g == AddParam(f, Word(T, i), IF r.v = None THEN None ELSE <<r.v>>)
           IN IF Type(T, r.at + 1) = "COMMA" THEN ParseParams(T, r.at + 2, g)
              ELSE ExpectPeek(T, r.at, {"RPAREN"}, LAMBDA j : Got(j, g)))
ParseFunctionParams(T, i) ==
  IF Type(T, i + 1) = "RPAREN" THEN Got(i + 1, NoParams) ELSE ParseParams(T, i + 1, NoParams)

(* The body of f, behind token i; and the parameters, from the left        *)
(* parenthesis, with the body.  Nobody looks whether there were any.       *)
ParseBody(T, i, f) ==
  ExpectPeek(T, i, {"LBRACE"}, LAMBDA j :
    AndThen(ParseBlock(T, j, <<>>), LAMBDA b : Got(b.at, [f EXCEPT !.body = b.v])))
ParseFunction(T, i) ==
  AndThen(OrElse(ParseFunctionParams(T, i), NoParams), LAMBDA f : ParseBody(T, f.at, f.v))

-----------------------------------------------------------------------------
(* Expressions. *)

(* What is in parentheses, read as the parameters of an arrow function.    *)
(* When it is not that, the value is None, and the current token the one   *)
(* at which that was noticed; that is an error only behind three points.   *)
RECURSIVE TryParseArrowParams(_, _, _)
TryParseArrowParams(T, i, f) ==
  CASE Type(T, i) = "SPREAD" ->
         OrElse(ExpectPeek(T, i, {"IDENT"}, LAMBDA j :
                  IF Type(T, j + 1) = "RPAREN" THEN Got(j + 1, [f EXCEPT !.rest = <<Word(T, j)>>]) ELSE Got(j, None)),
                None)
    [] Type(T, i) # "IDENT" -> Got(i, None)
    [] OTHER ->
         AndThen(ParseDefault(T, i), LAMBDA r :
           LET g == AddParam(f, Word(T, i), IF r.v = None THEN None ELSE <<r.v>>)
           IN CASE r.v # None /\ Type(T, r.at) = "RPAREN" -> Got(r.at, g)
                [] Type(T, r.at + 1) = "COMMA" -> TryParseArrowParams(T, r.at + 2, g)
                [] Type(T, r.at + 1) = "RPAREN" -> Got(r.at + 1, g)
                [] OTHER -> Got(r.at, None))

(* i is the arrow. *)
FinishArrowFunction(T, i, f, async) ==
  IF Type(T, i + 1) = "LBRACE"
  THEN AndThen(ParseBlock(T, i + 1, <<>>), LAMBDA b :
         Got(b.at, ArrowFunction([f EXCEPT !.body = b.v], FALSE, async)))
  ELSE AndThen(Expression(T, i + 1, LOWEST), LAMBDA e :
         Got(e.at, ArrowFunction([f EXCEPT !.body = <<e.v>>], TRUE, async)))

ParseEmptyParens(T, i, async) ==
  IF Type(T, i + 2) = "ARROW" THEN FinishArrowFunction(T, i + 2, NoParams, async) ELSE Nil(i + 2)

(* The target of an assignment is not told apart. *)
ParseGroupedPlain(T, i) ==
  AndThen(ParseExpression(T, i, LOWEST), LAMBDA e :
    ExpectPeek(T, e.at, {"RPAREN"}, LAMBDA j : Got(j, e.v)))
(* The right parenthesis behind the target of ({x} = e) is left for the    *)
(* statement.                                                              *)
ParseGrouped(T, i) ==
  AndThen(ParseExpression(T, i, LOWEST), LAMBDA e :
    IF e.v.node = "ObjectLiteral" /\ Type(T, e.at + 1) = "ASSIGN" THEN e
    ELSE ExpectPeek(T, e.at, {"RPAREN"}, LAMBDA j : Got(j, e.v)))

ParseParenExpression(T, i) ==
  IF Type(T, i + 1) = "RPAREN" THEN ParseEmptyParens(T, i, FALSE)
  ELSE AndThen(TryParseArrowParams(T, i + 1, NoParams), LAMBDA r :
         CASE r.v = None -> ParseGrouped(T, r.at)
           [] Type(T, r.at + 1) = "ARROW" -> FinishArrowFunction(T, r.at + 1, r.v, FALSE)
           [] Len(r.v.params) = 1 -> Got(r.at, Identifier(r.v.params[1]))
           [] OTHER -> Nil(r.at))

(* Behind the parameters the current token is the right parenthesis, not   *)
(* the arrow that is expected there: only () may be the parameters.        *)
ParseFunctionExpression(T, i, async) ==
  IF Type(T, i + 1) = "IDENT"
  THEN ExpectPeek(T, i + 1, {"LPAREN"}, LAMBDA j :
         AndThen(ParseFunction(T, j), LAMBDA f : Got(f.at, NamedFunction(Word(T, i + 1), f.v, async))))
  ELSE ExpectPeek(T, i, {"LPAREN"}, LAMBDA j :
         AndThen(ParseFunction(T, j), LAMBDA f : Got(f.at, NamedFunction("", f.v, async))))
ParseAsyncExpression(T, i) ==
  CASE Type(T, i + 1) = "FUNC" -> ParseFunctionExpression(T, i + 1, TRUE)
    [] Type(T, i + 1) = "LPAREN" /\ Type(T, i + 2) = "RPAREN" -> ParseEmptyParens(T, i + 1, TRUE)
    [] Type(T, i + 1) = "LPAREN" -> AndThen(TryParseArrowParams(T, i + 2, NoParams), LAMBDA r : Nil(r.at))
    [] OTHER -> Nil(i)

IsPropertyName(type) == type = "IDENT" \/ IsKeyword(type)

ParseSuperExpression(T, i) ==
  CASE Type(T, i + 1) = "DOT" ->
         IF IsPropertyName(Type(T, i + 2)) THEN Got(i + 2, SuperExpression(Word(T, i + 2))) ELSE Nil(i + 1)
    [] Type(T, i + 1) = "LPAREN" ->
         AndThen(ParseExpressionList(T, i + 1), LAMBDA r : Got(r.at, SuperCallExpression(r.v)))
    [] OTHER -> Nil(i)

(* The last call in the chain behind new is the construction, whatever is  *)
(* in front of it; what it spreads is not spread.                          *)
Unspread(args) ==
  [i \in DOMAIN args |-> IF args[i].node = "SpreadElement" THEN args[i].expr ELSE args[i]]
ParseNewExpression(T, i) ==
  AndThen(Expression(T, i + 1, PREFIX), LAMBDA r :
    Got(r.at, IF r.v.node = "CallExpression" THEN NewExpression(r.v.callee, Unspread(r.v.args))
              ELSE NewExpression(r.v, <<>>)))

ParseDynamicImport(T, i) ==
  ExpectPeek(T, i, {"LPAREN"}, LAMBDA j :
    AndThen(ParseExpression(T, j + 1, LOWEST), LAMBDA e :
      ExpectPeek(T, e.at, {"RPAREN"}, LAMBDA k : Got(k, DynamicImportExpression(e.v)))))

(* The text of a template, cut up into texts and sources of expressions:   *)
(* the braces of an interpolation are counted, an escaped one is text.     *)
RECURSIVE ClosingBrace(_, _, _)
ClosingBrace(raw, i, depth) ==
  CASE i > Len(raw) -> 0
    [] raw[i] = "}" /\ depth = 1 -> i
    [] OTHER -> ClosingBrace(raw, i + 1, CASE raw[i] = "{" -> depth + 1 [] raw[i] = "}" -> depth - 1
                                           [] OTHER -> depth)
Opens(raw, i) ==
  /\ i < Len(raw) /\ raw[i] = "$" /\ raw[i + 1] = "{"
  /\ i = 1 \/ raw[i - 1] # "\\"

(* start begins the text, i is the next character to look at.  An          *)
(* interpolation that is empty or has no end is an error.                  *)
Piece(text, isExpr) == [text |-> text, isExpr |-> isExpr]
RECURSIVE TemplateParts(_, _, _)
TemplateParts(raw, start, i) ==
  CASE i > Len(raw) -> Got(1, <<Piece(SubSeq(raw, start, Len(raw)), FALSE)>>)
    [] ~Opens(raw, i) -> TemplateParts(raw, start, i + 1)
    [] OTHER ->
         LET close == ClosingBrace(raw, i + 2, 1)
             source == SubSeq(raw, i + 2, close - 1)
         IN IF close = 0 \/ Range(source) \subseteq Blanks THEN Nil(1)
            ELSE AndThen(TemplateParts(raw, close + 1, close + 1), LAMBDA r :
                   Got(1, <<Piece(SubSeq(raw, start, i - 1), FALSE), Piece(source, TRUE)>> \o r.v))

(* An interpolation is a program of one statement, an expression. *)
ParseTemplateInterpolation(source) ==
  AndThen(Parsed(source), LAMBDA p :
    IF Len(p.v) # 1 \/ p.v[1].node # "ExpressionStatement" THEN Nil(1) ELSE Got(1, p.v[1].expr))
ParsePiece(piece) ==
  IF piece.isExpr THEN ParseTemplateInterpolation(piece.text) ELSE Got(1, StringLiteral(piece.text))

(* At the first error of a piece the others are left. *)
BuildTemplateExpression(T, i) ==
  LET template ==
        AndThen(TemplateParts(Word(T, i), 1, 1), LAMBDA r :
          FoldLeft(LAMBDA out, piece :
                     AndThen(out, LAMBDA l :
                       AndThen(ParsePiece(piece), LAMBDA e : Got(1, BinaryExpression(l.v, "PLUS", e.v)))),
                   ParsePiece(r.v[1]), Tail(r.v)))
  IN CASE template.at = 0 -> Hangs [] template.nil -> Nil(i) [] OTHER -> Got(i, template.v)

(* Operators in front of an operand; await takes more than the others. *)
ParsePrefixed(T, i, prec, Made(_)) ==
  AndThen(Expression(T, i + 1, prec), LAMBDA r : Got(r.at, Made(r.v)))

(* What an expression can begin with. *)
PrefixTypes ==
  {"IDENT", "THIS", "NUMBER", "STRING", "TEMPLATE", "TRUE", "FALSE", "NULL", "SUPER", "LPAREN", "NEW", "AWAIT", "TYPEOF", "VOID",
   "BANG", "MINUS", "PLUSPLUS", "MINUSMINUS", "IMPORT", "FUNC", "ASYNC", "LBRACKET", "LBRACE"}
ParsePrefix(T, i) ==
  CASE Type(T, i) = "IDENT" -> Got(i, Identifier(Word(T, i)))
    [] Type(T, i) = "THIS" -> Got(i, Identifier("this"))
    [] Type(T, i) = "NUMBER" -> Got(i, NumberLiteral(Word(T, i)))
    [] Type(T, i) = "STRING" -> Got(i, StringLiteral(Word(T, i)))
    [] Type(T, i) = "TEMPLATE" -> BuildTemplateExpression(T, i)
    [] Type(T, i) \in {"TRUE", "FALSE"} -> Got(i, BoolLiteral(Type(T, i) = "TRUE"))
    [] Type(T, i) = "NULL" -> Got(i, NullLiteral)
    [] Type(T, i) = "SUPER" -> ParseSuperExpression(T, i)
    [] Type(T, i) = "LPAREN" -> ParseParenExpression(T, i)
    [] Type(T, i) = "NEW" -> ParseNewExpression(T, i)
    [] Type(T, i) = "AWAIT" -> ParsePrefixed(T, i, SUM, AwaitExpression)
    [] Type(T, i) = "TYPEOF" -> ParsePrefixed(T, i, PREFIX, TypeofExpression)
    [] Type(T, i) = "VOID" -> ParsePrefixed(T, i, PREFIX, VoidExpression)
    [] Type(T, i) \in {"BANG", "MINUS"} ->
         ParsePrefixed(T, i, PREFIX, LAMBDA e : UnaryExpression(Type(T, i), e))
    [] Type(T, i) \in {"PLUSPLUS", "MINUSMINUS"} ->
         ExpectPeek(T, i, {"IDENT"}, LAMBDA j : Got(j, UpdateExpression(Type(T, i), Word(T, j), TRUE)))
    [] Type(T, i) = "IMPORT" -> ParseDynamicImport(T, i)
    [] Type(T, i) = "FUNC" -> ParseFunctionExpression(T, i, FALSE)
    [] Type(T, i) = "ASYNC" -> ParseAsyncExpression(T, i)
    [] Type(T, i) = "LBRACKET" ->
         AndThen(ListOrNone(T, i, "RBRACKET", "element"), LAMBDA r : Got(r.at, ArrayLiteral(r.v)))
    [] Type(T, i) = "LBRACE" ->
         AndThen(ParseList(T, i, "RBRACE", "property", <<>>), LAMBDA r : Got(r.at, ObjectLiteral(r.v)))

BinaryOperators == {t \in DOMAIN Precedences : Precedences[t] \in 3..9}

(* What follows ?. : an index, arguments, or a name and perhaps arguments. *)
ParseOptionalChain(T, i, left) ==
  CASE Type(T, i + 1) = "LBRACKET" ->
         AndThen(Expression(T, i + 2, LOWEST), LAMBDA e :
           ExpectPeek(T, e.at, {"RBRACKET"}, LAMBDA j :
             Got(j, OptionalAccess(left, IndexExpression(TheBase, e.v)))))
    [] Type(T, i + 1) = "LPAREN" ->
         AndThen(ParseExpressionList(T, i + 1), LAMBDA r :
           Got(r.at, OptionalAccess(left, CallExpression(TheBase, r.v))))
    [] ~IsPropertyName(Type(T, i + 1)) -> Nil(i + 1)
    [] Type(T, i + 2) = "LPAREN" ->
         AndThen(ParseExpressionList(T, i + 2), LAMBDA r :
           Got(r.at, OptionalAccess(left, CallExpression(GetExpression(TheBase, Word(T, i + 1)), r.v))))
    [] OTHER -> Got(i + 1, OptionalAccess(left, GetExpression(TheBase, Word(T, i + 1))))

(* Both branches are parsed with the precedence of the token that the      *)
(* first begins with.                                                      *)
ParseTernary(T, i, left) ==
  LET prec == Precedence(Type(T, i + 1))
  IN AndThen(Expression(T, i + 1, prec), LAMBDA t :
       ExpectPeek(T, t.at, {"COLON"}, LAMBDA j :
         AndThen(Expression(T, j + 1, prec), LAMBDA e :
           Got(e.at, TernaryExpression(left, t.v, e.v)))))

MangledName(w) == "__private_" \o w

(* i is the operator, with left in front of it. *)
ParseInfixOperator(T, i, left) ==
  CASE Type(T, i) \in BinaryOperators ->
         AndThen(Expression(T, i + 1, Precedence(Type(T, i))), LAMBDA r :
           Got(r.at, BinaryExpression(left, Type(T, i), r.v)))
    [] Type(T, i) = "QUESTION" -> ParseTernary(T, i, left)
    [] Type(T, i) = "LPAREN" ->
         AndThen(ParseArguments(T, i), LAMBDA r : Got(r.at, CallExpression(left, r.v)))
    [] Type(T, i) = "DOT" ->
         CASE Type(T, i + 1) = "PRIVATE" -> Got(i + 1, GetExpression(left, MangledName(Word(T, i + 1))))
           [] IsPropertyName(Type(T, i + 1)) -> Got(i + 1, GetExpression(left, Word(T, i + 1)))
           [] OTHER -> Nil(i)
    [] Type(T, i) = "LBRACKET" ->
         AndThen(Expression(T, i + 1, LOWEST), LAMBDA e :
           ExpectPeek(T, e.at, {"RBRACKET"}, LAMBDA j : Got(j, IndexExpression(left, e.v))))
    [] Type(T, i) = "OPTCHAIN" -> ParseOptionalChain(T, i, left)

(* What is in r, nil too, and the operators behind it that bind more than  *)
(* prec.                                                                   *)
ParseInfix(T, r, prec) ==
  IF \/ r.at = 0
     \/ Type(T, r.at + 1) \in {"SEMICOLON", "RBRACE", "RBRACKET"}
     \/ prec >= Precedence(Type(T, r.at + 1))
  THEN r ELSE ParseInfix(T, Behind(r, ParseInfixOperator(T, r.at + 1, r.v)), prec)

ParseExpression(T, i, prec) ==
  IF Type(T, i) \notin PrefixTypes THEN Nil(i)
  ELSE LET r == ParsePrefix(T, i)
           next == Type(T, r.at + 1)
       IN CASE r.at = 0 \/ next \notin {"PLUSPLUS", "MINUSMINUS"} -> ParseInfix(T, r, prec)
            [] r.v.node = "Identifier" ->
                 ParseInfix(T, Behind(r, Got(r.at + 1, UpdateExpression(next, r.v.name, FALSE))), prec)
            [] OTHER -> Nil(r.at)

-----------------------------------------------------------------------------
(* Statements. *)

(* An expression from token i on, and the statement that Made makes of it. *)
Valued(T, i, Made(_)) ==
  AndThen(Expression(T, i, LOWEST), LAMBDA e : Got(Semicolon(T, e.at), Made(e.v)))
ParseExpressionStatement(T, i) == Valued(T, i, ExpressionStatement)

(* The bindings of a let with brackets or braces, of which there is at     *)
(* least one, then its value.                                              *)
ParseDestructuringLet(T, i, end, kind, Made(_, _)) ==
  IF Type(T, i + 1) = end THEN Nil(i)
  ELSE AndThen(ParseList(T, i, end, kind, <<>>), LAMBDA r :
         ExpectPeek(T, r.at, {"ASSIGN"}, LAMBDA j : Valued(T, j + 1, LAMBDA e : Made(r.v, e))))
ParseLetStatement(T, i) ==
  ExpectPeek(T, i, {"IDENT", "LBRACKET", "LBRACE"}, LAMBDA j :
    CASE Type(T, j) = "IDENT" ->
           ExpectPeek(T, j, {"ASSIGN"}, LAMBDA k : Valued(T, k + 1, LAMBDA e : LetStatement(Word(T, j), e)))
      [] Type(T, j) = "LBRACKET" ->
           ParseDestructuringLet(T, j, "RBRACKET", "name", ArrayDestructuringLetStatement)
      [] Type(T, j) = "LBRACE" ->
           ParseDestructuringLet(T, j, "RBRACE", "binding", ObjectDestructuringLetStatement))

ParseAssignStatement(T, i) == Valued(T, i + 2, LAMBDA e : AssignStatement(Word(T, i), e))

CompoundOperators == {"PLUSEQ", "MINUSEQ", "MULTEQ", "DIVEQ", "MODEQ"}

(* The statement for an assignment to what was parsed as an expression. *)
Assigned(target, op, e) ==
  CASE target.node = "Identifier" ->
         <<IF op = "ASSIGN" THEN AssignStatement(target.name, e)
           ELSE CompoundAssignStatement(target.name, op, e)>>
    [] target.node = "GetExpression" ->
         <<IF op = "ASSIGN" THEN SetPropertyStatement(target.object, target.property, e)
           ELSE CompoundSetPropertyStatement(target.object, target.property, op, e)>>
    [] op = "ASSIGN" /\ target.node = "ArrayLiteral" /\ target.elements # <<>>
         /\ (\A i \in DOMAIN target.elements : target.elements[i].node = "Identifier") ->
         <<ArrayDestructuringAssignStatement([i \in DOMAIN target.elements |-> target.elements[i].name], e)>>
    [] op = "ASSIGN" /\ target.node = "ObjectLiteral" /\ target.properties # <<>>
         /\ (\A i \in DOMAIN target.properties :
               /\ target.properties[i].node = "ObjectProperty"
               /\ target.properties[i].value.node = "Identifier") ->
         <<ObjectDestructuringAssignStatement(
             [i \in DOMAIN target.properties |->
                Binding(target.properties[i].key, <<target.properties[i].value.name>>)], e)>>
    [] OTHER -> None

ParseAssignmentOrExpression(T, i) ==
  AndThen(Expression(T, i, LOWEST), LAMBDA l :
    LET op == Type(T, l.at + 1)
        parenthesised == Type(T, i) = "LPAREN" /\ l.v.node = "ObjectLiteral"
        Made(j, e) == LET s == Assigned(l.v, op, e)
                      IN IF s = None THEN Nil(Semicolon(T, j)) ELSE Got(Semicolon(T, j), s[1])
    IN IF op \notin {"ASSIGN"} \cup CompoundOperators THEN Got(Semicolon(T, l.at), ExpressionStatement(l.v))
       ELSE AndThen(Expression(T, l.at + 2, LOWEST), LAMBDA e :
              IF parenthesised THEN ExpectPeek(T, e.at, {"RPAREN"}, LAMBDA j : Made(j, e.v))
              ELSE Made(e.at, e.v)))

(* A value may be missing in front of a semicolon, and of a return also in *)
(* front of the end of its block.                                          *)
ParseLeaving(T, i, ends, Made(_)) ==
  IF Type(T, i + 1) \in ends THEN Got(Semicolon(T, i), Made(None))
  ELSE Valued(T, i + 1, LAMBDA e : Made(<<e>>))
ParseReturnStatement(T, i) == ParseLeaving(T, i, {"SEMICOLON", "RBRACE"}, ReturnStatement)
ParseThrowStatement(T, i) == ParseLeaving(T, i, {"SEMICOLON"}, ThrowStatement)

ParseFunctionStatement(T, i, async) ==
  ExpectPeek(T, i, {"IDENT"}, LAMBDA j :
    ExpectPeek(T, j, {"LPAREN"}, LAMBDA k :
      AndThen(ParseFunction(T, k), LAMBDA f : Got(f.at, DeclaredFunction(Word(T, j), f.v, async)))))
ParseAsyncFunctionStatement(T, i) ==
  ExpectPeek(T, i, {"FUNC"}, LAMBDA j : ParseFunctionStatement(T, j, TRUE))

(* A condition in parentheses, then what F makes of it. *)
ParseCondition(T, i, F(_, _)) ==
  ExpectPeek(T, i, {"LPAREN"}, LAMBDA j :
    AndThen(Expression(T, j + 1, LOWEST), LAMBDA e :
      ExpectPeek(T, e.at, {"RPAREN"}, LAMBDA k : F(k, e.v))))
(* A block in braces that must come next, then what F makes of it. *)
ParseBraces(T, i, F(_, _)) ==
  ExpectPeek(T, i, {"LBRACE"}, LAMBDA j :
    AndThen(ParseBlock(T, j, <<>>), LAMBDA b : F(b.at, b.v)))

ParseBlockOrSingleStatement(T, i) ==
  IF Type(T, i + 1) = "LBRACE" THEN ParseBlock(T, i + 1, <<>>)
  ELSE AndThen(ParseStatement(T, i + 1), LAMBDA s : Got(s.at, <<s.v>>))

ParseIfStatement(T, i) ==
  ParseCondition(T, i, LAMBDA j, c :
    AndThen(ParseBlockOrSingleStatement(T, j), LAMBDA t :
      IF Type(T, t.at + 1) # "ELSE" THEN Got(t.at, IfStatement(c, t.v, None))
      ELSE AndThen(ParseBlockOrSingleStatement(T, t.at + 1), LAMBDA e :
             Got(e.at, IfStatement(c, t.v, <<e.v>>)))))

ParseWhileStatement(T, i) ==
  ParseCondition(T, i, LAMBDA j, c : ParseBraces(T, j, LAMBDA k, b : Got(k, WhileStatement(c, b))))

ParseDoWhileStatement(T, i) ==
  ParseBraces(T, i, LAMBDA j, b :
    ExpectPeek(T, j, {"WHILE"}, LAMBDA k :
      ParseCondition(T, k, LAMBDA l, c : Got(Semicolon(T, l), DoWhileStatement(b, c)))))

(* The end of a part is not looked for when the current token is already   *)
(* one: the semicolon that a statement has taken, but also a parenthesis   *)
(* that the last expression ends with.                                     *)
ParsePartEnd(T, i, end, F(_)) ==
  IF Type(T, i) = end THEN F(i) ELSE ExpectPeek(T, i, {end}, F)

ParseForInit(T, i) ==
  CASE Type(T, i) = "SEMICOLON" -> Got(i, None)
    [] OTHER ->
         AndThen(CASE Type(T, i) = "LET" -> OrElse(ParseLetStatement(T, i), Nothing)
                   [] Type(T, i) = "IDENT" /\ Type(T, i + 1) = "ASSIGN" -> ParseAssignStatement(T, i)
                   [] OTHER -> ParseExpressionStatement(T, i), LAMBDA r : Got(r.at, <<r.v>>))
ParseForCondition(T, i) ==
  IF Type(T, i) = "SEMICOLON" THEN Got(i, None)
  ELSE AndThen(Expression(T, i, LOWEST), LAMBDA e : Got(e.at, <<e.v>>))
ParseForPost(T, i) ==
  CASE Type(T, i) = "RPAREN" -> Got(i, None)
    [] Type(T, i) = "IDENT" /\ Type(T, i + 1) = "ASSIGN" ->
         AndThen(ParseAssignStatement(T, i), LAMBDA r : Got(r.at, <<r.v>>))
    [] OTHER -> AndThen(Expression(T, i, LOWEST), LAMBDA e : Got(e.at, <<ExpressionStatement(e.v)>>))

ParseCStyleFor(T, i) ==
  AndThen(ParseForInit(T, i), LAMBDA init :
    ParsePartEnd(T, init.at, "SEMICOLON", LAMBDA j :
      AndThen(ParseForCondition(T, j + 1), LAMBDA c :
        ParsePartEnd(T, c.at, "SEMICOLON", LAMBDA k :
          AndThen(ParseForPost(T, k + 1), LAMBDA post :
            ParsePartEnd(T, post.at, "RPAREN", LAMBDA l :
              ParseBraces(T, l, LAMBDA m, b : Got(m, ForStatement(init.v, c.v, post.v, b)))))))))

ParseForEach(T, i, Made(_, _, _)) ==
  AndThen(Expression(T, i + 2, LOWEST), LAMBDA e :
    ExpectPeek(T, e.at, {"RPAREN"}, LAMBDA j :
      ParseBraces(T, j, LAMBDA k, b : Got(k, Made(Word(T, i), e.v, b)))))

ParseForStatement(T, i) ==
  ExpectPeek(T, i, {"LPAREN"}, LAMBDA j :
    CASE Type(T, j + 1) = "IDENT" /\ Type(T, j + 2) = "IN" -> ParseForEach(T, j + 1, ForInStatement)
      [] Type(T, j + 1) = "IDENT" /\ Type(T, j + 2) = "OF" -> ParseForEach(T, j + 1, ForOfStatement)
      [] OTHER -> ParseCStyleFor(T, j + 1))

ParseCatch(T, i, F(_, _, _)) ==
  IF Type(T, i + 1) # "CATCH" THEN F(i, "", None)
  ELSE ExpectPeek(T, i + 1, {"LPAREN"}, LAMBDA j :
         ExpectPeek(T, j, {"IDENT"}, LAMBDA k :
           ExpectPeek(T, k, {"RPAREN"}, LAMBDA l :
             ParseBraces(T, l, LAMBDA m, b : F(m, Word(T, k), <<b>>)))))
ParseTryCatchStatement(T, i) ==
  ParseBraces(T, i, LAMBDA j, b :
    ParseCatch(T, j, LAMBDA k, x, c :
      CASE Type(T, k + 1) = "FINALLY" ->
             ParseBraces(T, k + 1, LAMBDA l, f : Got(l, TryCatchStatement(b, x, c, <<f>>)))
        [] c = None -> Nil(k)
        [] OTHER -> Got(k, TryCatchStatement(b, x, c, None))))

(* The statements of a case, from the current token on. *)
RECURSIVE ParseCaseStatements(_, _, _), ParseCases(_, _, _)
ParseCaseStatements(T, i, b) ==
  IF Type(T, i) \in {"CASE", "DEFAULT", "RBRACE", "EOF"} THEN Got(i, b)
  ELSE AndThen(OrElse(ParseStatement(T, i), Nothing), LAMBDA s : ParseCaseStatements(T, s.at + 1, Added(b, s.v)))

(* The block of the default ends with the brace that ends the switch: what *)
(* follows the default belongs to it.                                      *)
ParseCases(T, i, sw) ==
  CASE Type(T, i) \in {"RBRACE", "EOF"} -> Got(i, sw)
    [] Type(T, i) = "CASE" ->
         AndThen(Expression(T, i + 1, LOWEST), LAMBDA e :
           ExpectPeek(T, e.at, {"COLON"}, LAMBDA j :
             AndThen(ParseCaseStatements(T, j + 1, <<>>), LAMBDA b :
               ParseCases(T, b.at, [sw EXCEPT !.cases = Append(@, CaseClause(e.v, b.v))]))))
    [] Type(T, i) = "DEFAULT" ->
         ExpectPeek(T, i, {"COLON"}, LAMBDA j :
           AndThen(ParseBlock(T, j, <<>>), LAMBDA b : ParseCases(T, b.at, [sw EXCEPT !.default = <<b.v>>])))
    [] OTHER -> Nil(i)
ParseSwitchStatement(T, i) ==
  ParseCondition(T, i, LAMBDA j, e :
    ExpectPeek(T, j, {"LBRACE"}, LAMBDA k : ParseCases(T, k + 1, SwitchStatement(e, <<>>, None))))

(* The members of a class, from the current token on. *)
Modifiers == [STATIC |-> "static", GET |-> "get", SET |-> "set", ASYNC |-> "async"]

(* From the left parenthesis: a getter has no parameters, a setter one.  *)
ParseMethod(T, i, kind) ==
  CASE kind = "get" -> ExpectPeek(T, i, {"RPAREN"}, LAMBDA j : ParseBody(T, j, NoParams))
    [] kind = "set" ->
         ExpectPeek(T, i, {"IDENT"}, LAMBDA j :
           ExpectPeek(T, j, {"RPAREN"}, LAMBDA k : ParseBody(T, k, AddParam(NoParams, Word(T, j), None))))
    [] OTHER -> ParseFunction(T, i)

RECURSIVE ParseMembers(_, _, _)
ParseMembers(T, i, class) ==
  LET modified == Type(T, i) \in DOMAIN Modifiers
      kind == IF modified THEN Modifiers[Type(T, i)] ELSE ""
      name == IF modified THEN i + 1 ELSE i
  IN CASE Type(T, i) \in {"RBRACE", "EOF"} -> Got(i, class)
       [] Type(T, i) = "COMMENT" -> ParseMembers(T, i + 1, class)
       [] Type(T, i) = "PRIVATE" ->
            IF Type(T, i + 1) = "ASSIGN" THEN Nil(i)
            ELSE ParseMembers(T, Semicolon(T, i) + 1, [class EXCEPT !.fields = Append(@, MangledName(Word(T, i)))])
       [] Type(T, name) # "IDENT" -> Nil(i)
       [] OTHER ->
            ExpectPeek(T, name, {"LPAREN"}, LAMBDA j :
              AndThen(ParseMethod(T, j, kind), LAMBDA f :
                ParseMembers(T, f.at + 1, [class EXCEPT !.methods = Append(@, ClassMethod(kind, Word(T, name), f.v))])))

ParseClassBody(T, i, x, parent) ==
  ExpectPeek(T, i, {"LBRACE"}, LAMBDA j : ParseMembers(T, j + 1, ClassStatement(x, parent, <<>>, <<>>)))
ParseClassStatement(T, i) ==
  ExpectPeek(T, i, {"IDENT"}, LAMBDA j :
    IF Type(T, j + 1) = "EXTENDS"
    THEN ExpectPeek(T, j + 1, {"IDENT"}, LAMBDA k : ParseClassBody(T, k, Word(T, j), Word(T, k)))
    ELSE ParseClassBody(T, j, Word(T, j), ""))

(* The module, and what Made makes of it. *)
ParseFrom(T, i, Made(_)) ==
  ExpectPeek(T, i, {"FROM"}, LAMBDA j :
    ExpectPeek(T, j, {"STRING"}, LAMBDA k : Got(Semicolon(T, k), Made(Word(T, k)))))

(* From the current token on.  A name that has neither a comma nor the     *)
(* brace behind it is added again and again.                               *)
RECURSIVE ParseImportNames(_, _, _)
ParseImportNames(T, i, xs) ==
  CASE Type(T, i) \in {"RBRACE", "EOF"} -> Got(i, xs)
    [] Type(T, i) # "IDENT" -> Nil(i)
    [] Type(T, i + 1) = "COMMA" -> ParseImportNames(T, i + 2, Append(xs, Word(T, i)))
    [] Type(T, i + 1) = "RBRACE" -> Got(i + 1, Append(xs, Word(T, i)))
    [] OTHER -> Hangs
ParseImportStatement(T, i) ==
  ExpectPeek(T, i, {"LBRACE", "ASTERISK"}, LAMBDA j :
    CASE Type(T, j) = "LBRACE" ->
           AndThen(ParseImportNames(T, j + 1, <<>>), LAMBDA r :
             ParseFrom(T, r.at, LAMBDA m : ImportStatement(r.v, "", m)))
      [] Type(T, j + 1) = "IDENT" /\ Word(T, j + 1) = "as" ->
           ExpectPeek(T, j + 1, {"IDENT"}, LAMBDA k :
             ParseFrom(T, k, LAMBDA m : ImportStatement(<<>>, Word(T, k), m)))
      [] OTHER -> Nil(j))

(* A declaration may be missing, a default may not. *)
Exported(r, what) == AndThen(r, LAMBDA q : Got(q.at, ExportStatement(what, q.v)))
ExportedDeclaration(r) == Exported(OrElse(r, Nothing), "declaration")
ParseExportDefault(T, i) ==
  CASE Type(T, i) = "CLASS" -> Exported(ParseClassStatement(T, i), "default")
    [] Type(T, i) = "FUNC" -> Exported(ParseFunctionStatement(T, i, FALSE), "default")
    [] Type(T, i) = "ASYNC" -> Exported(ParseAsyncFunctionStatement(T, i), "default")
    [] OTHER -> AndThen(ParseExpression(T, i, LOWEST), LAMBDA e : Got(Semicolon(T, e.at), ExportStatement("default", e.v)))
ParseExportStatement(T, i) ==
  CASE Type(T, i + 1) = "LET" -> ExportedDeclaration(ParseLetStatement(T, i + 1))
    [] Type(T, i + 1) = "FUNC" -> ExportedDeclaration(ParseFunctionStatement(T, i + 1, FALSE))
    [] Type(T, i + 1) = "ASYNC" -> ExportedDeclaration(ParseAsyncFunctionStatement(T, i + 1))
    [] Type(T, i + 1) = "CLASS" -> ExportedDeclaration(ParseClassStatement(T, i + 1))
    [] Type(T, i + 1) = "DEFAULT" -> ParseExportDefault(T, i + 2)
    [] Type(T, i + 1) = "ASTERISK" -> ParseFrom(T, i + 1, LAMBDA m : ExportStatement("all", m))
    [] Type(T, i + 1) = "LBRACE" ->
         AndThen(ParseList(T, i + 1, "RBRACE", "specifier", <<>>), LAMBDA r :
           Got(Semicolon(T, r.at), ExportStatement("names", r.v)))
    [] OTHER -> Nil(i + 1)

ParseStatement(T, i) ==
  CASE Type(T, i) = "IMPORT" ->
         IF Type(T, i + 1) = "LPAREN" THEN ParseExpressionStatement(T, i) ELSE ParseImportStatement(T, i)
    [] Type(T, i) = "EXPORT" -> ParseExportStatement(T, i)
    [] Type(T, i) = "CLASS" -> ParseClassStatement(T, i)
    [] Type(T, i) = "LET" -> ParseLetStatement(T, i)
    [] Type(T, i) = "FUNC" -> ParseFunctionStatement(T, i, FALSE)
    [] Type(T, i) = "ASYNC" -> ParseAsyncFunctionStatement(T, i)
    [] Type(T, i) = "RETURN" -> ParseReturnStatement(T, i)
    [] Type(T, i) = "THROW" -> ParseThrowStatement(T, i)
    [] Type(T, i) = "IF" -> ParseIfStatement(T, i)
    [] Type(T, i) = "WHILE" -> ParseWhileStatement(T, i)
    [] Type(T, i) = "DO" -> ParseDoWhileStatement(T, i)
    [] Type(T, i) = "FOR" -> ParseForStatement(T, i)
    [] Type(T, i) = "TRY" -> ParseTryCatchStatement(T, i)
    [] Type(T, i) = "BREAK" -> Got(Semicolon(T, i), BreakStatement)
    [] Type(T, i) = "CONTINUE" -> Got(Semicolon(T, i), ContinueStatement)
    [] Type(T, i) = "SWITCH" -> ParseSwitchStatement(T, i)
    [] Type(T, i) \in {"IDENT", "THIS", "LPAREN", "LBRACKET"} -> ParseAssignmentOrExpression(T, i)
    [] OTHER -> ParseExpressionStatement(T, i)

(* Statements up to the brace that closes the block, or up to the end of   *)
(* the text: a brace that is missing there is not missed.                  *)
ParseBlock(T, i, b) ==
  CASE Type(T, i + 1) \in {"RBRACE", "EOF"} -> Got(i + 1, b)
    [] Type(T, i + 1) = "COMMENT" -> ParseBlock(T, i + 1, b)
    [] OTHER -> AndThen(OrElse(ParseStatement(T, i + 1), Nothing), LAMBDA s : ParseBlock(T, s.at, Added(b, s.v)))

RECURSIVE ParseProgram(_, _, _)
ParseProgram(T, i, b) ==
  CASE Type(T, i) = "EOF" -> Got(i, b)
    [] Type(T, i) = "COMMENT" -> ParseProgram(T, i + 1, b)
    [] OTHER -> AndThen(OrElse(ParseStatement(T, i), Nothing), LAMBDA s : ParseProgram(T, s.at + 1, Added(b, s.v)))

(* The whole way, from the text to the tree, or to errors. *)
Fails == Nil(1)
Parsed(text) ==
  LET r == ParseProgram(Lexed(text), 1, <<>>)
  IN IF r.errs THEN (IF r.at = 0 THEN Hangs ELSE Fails) ELSE r
=============================================================================
