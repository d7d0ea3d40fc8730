------------------------- MODULE FrontendProperties -------------------------
(***************************************************************************)
(* What the parser and the formatter owe a programmer, and for which       *)
(* programs they keep it.                                                  *)
(***************************************************************************)
EXTENDS Formatter, FiniteSetsExt

Last1(text) == text[Len(text)]

-----------------------------------------------------------------------------
(* How a careful programmer writes a tree: with parentheses around every   *)
(* operand that is more than a name, a literal or an array.                *)
RECURSIVE W(_), S(_)
Atomic(e) == e.node \in {"Identifier", "NumberLiteral", "StringLiteral", "BoolLiteral", "NullLiteral",
                         "ArrayLiteral", "SpreadElement"}
P(e) == IF Atomic(e) THEN W(e) ELSE Parenthesised(W(e))
Base(e) == IF e.node = "NumberLiteral" THEN Parenthesised(W(e)) ELSE P(e)    \* a point would join it
WrittenAll(es) == Joined([i \in DOMAIN es |-> W(es[i])])
WrittenBlock(b) == <<"{">> \o FlattenSeq([i \in DOMAIN b |-> S(b[i])]) \o <<"}">>
WrittenParams(f) ==
  Parenthesised(Joined([i \in DOMAIN f.params |->
                          <<f.params[i]>> \o (IF f.defaults[i] = None THEN <<>> ELSE <<"=">> \o W(f.defaults[i][1]))]
                       \o [i \in DOMAIN f.rest |-> Spelling["SPREAD"] \o f.rest]))
WrittenFunction(f) == WrittenParams(f) \o WrittenBlock(f.body)
WrittenAsync(async) == IF async THEN <<"async">> ELSE <<>>
WrittenAccess(a) ==
  CASE a.node = "IndexExpression" -> <<"[">> \o W(a.index) \o <<"]">>
    [] a.node = "GetExpression" -> <<a.property>>
    [] a.callee = TheBase -> Parenthesised(WrittenAll(a.args))
    [] OTHER -> <<a.callee.property>> \o Parenthesised(WrittenAll(a.args))
W(e) ==
  CASE e.node = "SpreadElement" -> Spelling["SPREAD"] \o W(e.expr)
    [] e.node = "ArrayLiteral" -> <<"[">> \o WrittenAll(e.elements) \o <<"]">>
    [] e.node = "ObjectProperty" -> FormatObjectKey(e.key) \o <<":">> \o W(e.value)
    [] e.node = "ObjectLiteral" -> <<"{">> \o WrittenAll(e.properties) \o <<"}">>
    [] e.node = "BinaryExpression" -> P(e.left) \o Around(e.op) \o P(e.right)
    [] e.node = "UnaryExpression" -> Spelling[e.op] \o P(e.right)
    [] e.node = "UpdateExpression" ->
         IF e.prefix THEN Spelling[e.op] \o <<e.name>> ELSE <<e.name>> \o Spelling[e.op]
    [] e.node = "TernaryExpression" ->
         P(e.condition) \o Around("QUESTION") \o P(e.then) \o Around("COLON") \o P(e.else)
    [] e.node = "CallExpression" -> P(e.callee) \o Parenthesised(WrittenAll(e.args))
    [] e.node = "NewExpression" -> <<"new">> \o P(e.callee) \o Parenthesised(WrittenAll(e.args))
    [] e.node = "GetExpression" -> Base(e.object) \o <<".", e.property>>
    [] e.node = "IndexExpression" -> P(e.object) \o <<"[">> \o W(e.index) \o <<"]">>
    [] e.node = "OptionalChainExpression" -> P(e.base) \o Spelling["OPTCHAIN"] \o WrittenAccess(e.access)
    [] e.node = "AwaitExpression" -> <<"await">> \o P(e.expr)
    [] e.node = "TypeofExpression" -> <<"typeof">> \o P(e.expr)
    [] e.node = "VoidExpression" -> <<"void">> \o P(e.expr)
    [] e.node = "DynamicImportExpression" -> <<"import">> \o Parenthesised(W(e.module))
    [] e.node = "SuperCallExpression" -> <<"super">> \o Parenthesised(WrittenAll(e.args))
    [] e.node = "FunctionExpression" ->
         WrittenAsync(e.async) \o <<"function">> \o (IF e.name = "" THEN <<>> ELSE <<e.name>>)
           \o WrittenFunction(e.fn)
    [] e.node = "ArrowFunctionExpression" ->
         WrittenAsync(e.async) \o WrittenParams(e.fn) \o Spelling["ARROW"]
           \o (IF ~e.concise THEN WrittenBlock(e.fn.body)
               ELSE IF e.fn.body[1].node = "ObjectLiteral" THEN P(e.fn.body[1]) ELSE W(e.fn.body[1]))
    [] OTHER -> FormatExpression(e)

(* A statement; parts that FormatSimple writes as well are written by it,  *)
(* with the value as it is written here. *)
WrittenValue(prefix, e) == prefix \o <<"=">> \o W(e) \o <<";">>
WrittenBinding(b) == FormatObjectKey(b.key) \o <<":">> \o b.name
WrittenBindings(bs) == <<"{">> \o Joined([i \in DOMAIN bs |-> WrittenBinding(bs[i])]) \o <<"}">>
WrittenNames(xs) == Joined([i \in DOMAIN xs |-> <<xs[i]>>])
StartsStatement(text) == text[1] \in {"function", "async"}
WrittenMethod(m) ==
  (IF m.kind = "" THEN <<>> ELSE <<m.kind>>) \o <<m.name>> \o WrittenFunction(m.fn)
WrittenPart(part) ==
  IF part = None THEN <<";">>
  ELSE IF part[1].node = "ExpressionStatement" THEN W(part[1].expr) \o <<";">> ELSE S(part[1])
WrittenExport(s) ==
  CASE s.what = "all" -> <<"*", "from">> \o QuoteIAString(s.value) \o <<";">>
    [] s.what = "names" ->
         <<"{">> \o Joined([i \in DOMAIN s.value |-> <<s.value[i].local, "as", s.value[i].name>>]) \o <<"}", ";">>
    [] s.what = "declaration" -> S(s.value)
    [] OTHER -> <<"default">> \o
         (IF s.value.node \in {"FunctionStatement", "ClassStatement"} THEN S(s.value) ELSE P(s.value) \o <<";">>)
S(s) ==
  CASE s.node = "LetStatement" -> WrittenValue(<<"let", s.name>>, s.value)
    [] s.node = "AssignStatement" -> WrittenValue(<<s.name>>, s.value)
    [] s.node = "CompoundAssignStatement" -> <<s.name>> \o Around(s.op) \o W(s.value) \o <<";">>
    [] s.node = "SetPropertyStatement" -> WrittenValue(Base(s.object) \o <<".", s.property>>, s.value)
    [] s.node = "CompoundSetPropertyStatement" ->
         Base(s.object) \o <<".", s.property>> \o Around(s.op) \o W(s.value) \o <<";">>
    [] s.node = "ArrayDestructuringLetStatement" ->
         WrittenValue(<<"let", "[">> \o WrittenNames(s.names) \o <<"]">>, s.value)
    [] s.node = "ArrayDestructuringAssignStatement" ->
         WrittenValue(<<"[">> \o WrittenNames(s.names) \o <<"]">>, s.value)
    [] s.node = "ObjectDestructuringLetStatement" -> WrittenValue(<<"let">> \o WrittenBindings(s.bindings), s.value)
    [] s.node = "ObjectDestructuringAssignStatement" ->
         <<"(">> \o WrittenBindings(s.bindings) \o <<"=">> \o W(s.value) \o <<")", ";">>
    [] s.node = "ExpressionStatement" ->
         (IF StartsStatement(W(s.expr)) THEN P(s.expr) ELSE W(s.expr)) \o <<";">>
    [] s.node = "FunctionStatement" ->
         WrittenAsync(s.async) \o <<"function", s.name>> \o WrittenFunction(s.fn)
    [] s.node = "ClassStatement" ->
         <<"class", s.name>> \o (IF s.parent = "" THEN <<>> ELSE <<"extends", s.parent>>) \o <<"{">>
           \o FlattenSeq([i \in DOMAIN s.fields |-> <<"#", "x", ";">>])
           \o FlattenSeq([i \in DOMAIN s.methods |-> WrittenMethod(s.methods[i])]) \o <<"}">>
    [] s.node = "ReturnStatement" -> <<"return">> \o WrittenAll(s.value) \o <<";">>
    [] s.node = "ThrowStatement" -> <<"throw">> \o WrittenAll(s.value) \o <<";">>
    [] s.node = "IfStatement" ->
         <<"if">> \o Parenthesised(W(s.condition)) \o WrittenBlock(s.then)
           \o (IF s.else = None THEN <<>>
               ELSE <<"else">> \o (IF Len(s.else[1]) = 1 THEN S(s.else[1][1]) ELSE WrittenBlock(s.else[1])))
    [] s.node = "WhileStatement" -> <<"while">> \o Parenthesised(W(s.condition)) \o WrittenBlock(s.body)
    [] s.node = "DoWhileStatement" ->
         <<"do">> \o WrittenBlock(s.body) \o <<"while">> \o Parenthesised(W(s.condition)) \o <<";">>
    [] s.node = "ForStatement" ->
         <<"for", "(">> \o WrittenPart(s.init) \o WrittenAll(s.condition) \o <<";">>
           \o Front(WrittenPart(s.post)) \o <<")">> \o WrittenBlock(s.body)
    [] s.node = "ForInStatement" -> <<"for", "(", s.name, "in">> \o W(s.iterable) \o <<")">> \o WrittenBlock(s.body)
    [] s.node = "ForOfStatement" -> <<"for", "(", s.name, "of">> \o W(s.iterable) \o <<")">> \o WrittenBlock(s.body)
    [] s.node = "SwitchStatement" ->
         <<"switch">> \o Parenthesised(W(s.subject)) \o <<"{">>
           \o FlattenSeq([i \in DOMAIN s.cases |->
                <<"case">> \o W(s.cases[i].value) \o <<":">> \o FlattenSeq([j \in DOMAIN s.cases[i].body |-> S(s.cases[i].body[j])])])
           \o (IF s.default = None THEN <<>>
               ELSE <<"default", ":">> \o FlattenSeq([j \in DOMAIN s.default[1] |-> S(s.default[1][j])])) \o <<"}">>
    [] s.node = "TryCatchStatement" ->
         <<"try">> \o WrittenBlock(s.body)
           \o (IF s.catch = None THEN <<>> ELSE <<"catch", "(", s.name, ")">> \o WrittenBlock(s.catch[1]))
           \o (IF s.finally = None THEN <<>> ELSE <<"finally">> \o WrittenBlock(s.finally[1]))
    [] s.node = "ImportStatement" ->
         <<"import">> \o (IF s.namespace = "" THEN <<"{">> \o WrittenNames(s.names) \o <<"}">> ELSE <<"*", "as", s.namespace>>)
           \o <<"from">> \o QuoteIAString(s.module) \o <<";">>
    [] s.node = "ExportStatement" -> <<"export">> \o WrittenExport(s)
    [] OTHER -> WriteStatement(s)
Written(tree) == FlattenSeq([i \in DOMAIN tree |-> S(tree[i])])

-----------------------------------------------------------------------------
(* The nodes in a node, itself first. *)
RECURSIVE Nodes(_)
NodesOf(ns) == UNION {Nodes(ns[i]) : i \in DOMAIN ns}
FunctionParts(f) == FlattenSeq(f.defaults) \o f.body
Kids(n) ==
  CASE n.node \in {"SpreadElement", "AwaitExpression", "TypeofExpression", "VoidExpression", "ExpressionStatement"} -> <<n.expr>>
    [] n.node = "ArrayLiteral" -> n.elements
    [] n.node = "ObjectLiteral" -> n.properties
    [] n.node \in {"ObjectProperty", "LetStatement", "AssignStatement", "CompoundAssignStatement",
                   "ArrayDestructuringLetStatement", "ArrayDestructuringAssignStatement",
                   "ObjectDestructuringLetStatement", "ObjectDestructuringAssignStatement"} -> <<n.value>>
    [] n.node = "BinaryExpression" -> <<n.left, n.right>>
    [] n.node = "UnaryExpression" -> <<n.right>>
    [] n.node = "TernaryExpression" -> <<n.condition, n.then, n.else>>
    [] n.node \in {"CallExpression", "NewExpression"} -> <<n.callee>> \o n.args
    [] n.node = "GetExpression" -> <<n.object>>
    [] n.node = "IndexExpression" -> <<n.object, n.index>>
    [] n.node = "OptionalChainExpression" -> <<n.base, n.access>>
    [] n.node = "DynamicImportExpression" -> <<n.module>>
    [] n.node = "SuperCallExpression" -> n.args
    [] n.node \in {"FunctionExpression", "FunctionStatement", "ArrowFunctionExpression"} -> FunctionParts(n.fn)
    [] n.node \in {"SetPropertyStatement", "CompoundSetPropertyStatement"} -> <<n.object, n.value>>
    [] n.node = "ClassStatement" -> FlattenSeq([i \in DOMAIN n.methods |-> FunctionParts(n.methods[i].fn)])
    [] n.node \in {"ReturnStatement", "ThrowStatement"} -> n.value
    [] n.node = "IfStatement" -> <<n.condition>> \o n.then \o FlattenSeq(n.else)
    [] n.node \in {"WhileStatement", "DoWhileStatement"} -> <<n.condition>> \o n.body
    [] n.node = "ForStatement" -> n.init \o n.condition \o n.post \o n.body
    [] n.node \in {"ForInStatement", "ForOfStatement"} -> <<n.iterable>> \o n.body
    [] n.node = "SwitchStatement" ->
         <<n.subject>> \o FlattenSeq([i \in DOMAIN n.cases |-> <<n.cases[i].value>> \o n.cases[i].body]) \o FlattenSeq(n.default)
    [] n.node = "TryCatchStatement" -> n.body \o FlattenSeq(n.catch) \o FlattenSeq(n.finally)
    [] n.node = "ExportStatement" -> IF n.what \in {"declaration", "default"} THEN <<n.value>> ELSE <<>>
    [] OTHER -> <<>>
Nodes(n) == {n} \cup NodesOf(Kids(n))

(* What the parser cannot read, although it is written as the language has *)
(* it: an asynchronous arrow function with parameters; a default of an     *)
(* arrow function, or the last part of a for, that ends with a             *)
(* parenthesis; and arguments that are spread behind new.                  *)
UnreadableNode(n) ==
  \/ n.node = "ArrowFunctionExpression" /\ n.async /\ (n.fn.params # <<>> \/ n.fn.rest # None)
  \/ n.node = "ArrowFunctionExpression" /\ \E i \in DOMAIN n.fn.defaults :
       n.fn.defaults[i] # None /\ Last1(W(n.fn.defaults[i][1])) = ")"
  \/ n.node = "ForStatement" /\ n.post # None /\ Last1(Front(WrittenPart(n.post))) = ")"
  \/ n.node = "NewExpression" /\ \E i \in DOMAIN n.args : n.args[i].node = "SpreadElement"
Readable(tree) == \A n \in NodesOf(tree) : ~UnreadableNode(n)

-----------------------------------------------------------------------------
(* What the formatter writes so that it is read as the same again.         *)

FormattedNodes ==
  Simple \cup SimpleCallables \cup
  {"NumberLiteral", "StringLiteral", "BoolLiteral", "NullLiteral", "ArrayLiteral", "ObjectLiteral", "ObjectProperty",
   "BinaryExpression", "UnaryExpression", "TernaryExpression", "FunctionExpression", "NewExpression", "AwaitExpression",
   "ImportStatement", "ExportStatement", "FunctionStatement", "ClassStatement", "ReturnStatement", "ThrowStatement",
   "BreakStatement", "ContinueStatement", "TryCatchStatement", "IfStatement", "WhileStatement", "ForStatement"}

PlainFunction(f) == f.rest = None /\ \A i \in DOMAIN f.defaults : f.defaults[i] = None

(* The weakest operator outside of parentheses in the text of e. *)
RECURSIVE Weakest(_), EndsInAwait(_)
Weakest(e) ==
  CASE e.node = "BinaryExpression" -> Precedences[e.op]
    [] e.node = "TernaryExpression" -> Precedences["QUESTION"]
    [] e.node = "CallExpression" -> Precedences["LPAREN"]
    [] e.node = "GetExpression" -> Min({Precedences["DOT"], Weakest(e.object)})
    [] e.node = "IndexExpression" ->
         Min({Precedences["LBRACKET"], IF e.object.node \in SimpleCallables THEN Weakest(e.object) ELSE 99})
    [] OTHER -> 99
EndsInAwait(e) ==
  \/ e.node = "AwaitExpression"
  \/ e.node \in {"UnaryExpression", "BinaryExpression"} /\ EndsInAwait(e.right)

IsUnaryMinus(e) == e.node = "UnaryExpression" /\ e.op = "MINUS"
FormattedBinary(e) ==
  /\ e.op = "NULLISH" => e.left.node # "TernaryExpression" /\ e.right.node # "TernaryExpression"
  /\ ~(e.right.node = "BinaryExpression" /\ Precedences[e.right.op] = Precedences[e.op])
  /\ Precedences[e.op] > SUM => ~EndsInAwait(e.left)

FormattedTernary(e) ==
  LET first == Lexed(FormatExpression(e.then))[1][1]
  IN /\ e.condition.node # "TernaryExpression"
     /\ Precedence(first) < Weakest(e.then) /\ Precedence(first) < Weakest(e.else)

FormattedNode(n) ==
  /\ n.node \in FormattedNodes
  /\ CASE n.node = "BinaryExpression" -> FormattedBinary(n)
       [] n.node = "TernaryExpression" -> FormattedTernary(n)
       [] n.node = "UnaryExpression" -> ~IsBinaryLike(n.right) /\ ~(IsUnaryMinus(n) /\ IsUnaryMinus(n.right))
       [] n.node = "AwaitExpression" ->
            n.expr.node # "TernaryExpression" /\ (n.expr.node = "BinaryExpression" => Precedences[n.expr.op] > SUM)
       [] n.node = "StringLiteral" -> Quote \notin Range(n.value)
       [] n.node \in {"GetExpression", "IndexExpression"} -> n.object.node # "NewExpression"
       [] n.node = "FunctionExpression" -> PlainFunction(n.fn)
       [] n.node = "FunctionStatement" -> PlainFunction(n.fn)
       [] n.node = "ClassStatement" ->
            n.fields = <<>> /\ \A i \in DOMAIN n.methods : n.methods[i].kind \in {"", "async"} /\ PlainFunction(n.methods[i].fn)
       [] n.node = "ExportStatement" ->
            n.what = "declaration" /\ n.value.node \in {"LetStatement", "FunctionStatement", "ClassStatement"}
       [] n.node = "ImportStatement" -> n.namespace = ""
       [] n.node = "ExpressionStatement" -> ~StartsStatement(FormatExpression(n.expr))
       [] n.node \in {"SetPropertyStatement", "CompoundSetPropertyStatement"} ->
            FormatPropertyTarget(n.object, n.property)[1] \notin {"new", "super"}
       [] OTHER -> TRUE
Formattable(tree) == \A n \in NodesOf(tree) : FormattedNode(n)

-----------------------------------------------------------------------------
(* Properties. *)

(* A step that reads the file; and it has been read as the program tree. *)
Reads == read = None /\ read' # None
ReadAs(tree) == ~read[1].errs /\ read[1].v = tree

(* The parser gives back the tree that the text was written for, exactly   *)
(* when it is Readable: every operator groups as its precedence says, no   *)
(* form takes a token that belongs to its neighbour, whatever form stands  *)
(* in whatever other.                                                      *)
Understood ==
  [][Reads /\ runs = 0 /\ Works[work].tree # None =>
       LET tree == Works[work].tree
       IN ReadAs(tree)' <=> Readable(tree)]_vars

(* An import list that begins at token i is broken off: its names go up to *)
(* token j, where the list neither goes on nor ends.                       *)
BrokenOff(T, i) ==
  /\ Type(T, i) = "IMPORT" /\ Type(T, i + 1) = "LBRACE"
  /\ \E j \in DOMAIN T :
       /\ j > i + 1 /\ (j - i) % 2 = 0
       /\ \A k \in i + 2 .. j : Type(T, k) = IF (k - i) % 2 = 0 THEN "IDENT" ELSE "COMMA"
       /\ Type(T, j + 1) \notin {"COMMA", "RBRACE"}

(* There is one somewhere in the text, or in an expression of a template.  *)
RECURSIVE SomeBrokenOff(_)
SomeBrokenOff(text) ==
  LET T == Lexed(text)
      pieces(i) == TemplateParts(Word(T, i), 1, 1)
  IN \E i \in DOMAIN T :
       \/ BrokenOff(T, i)
       \/ Type(T, i) = "TEMPLATE" /\ ~pieces(i).nil
            /\ \E k \in DOMAIN pieces(i).v : pieces(i).v[k].isExpr /\ SomeBrokenOff(pieces(i).v[k].text)

(* There is one where a statement must begin: at the beginning of the text *)
(* or behind a semicolon, which can stand inside of a statement only in a  *)
(* for and behind a private field of a class.                              *)
StatementBrokenOff(T) ==
  \E i \in DOMAIN T :
    /\ BrokenOff(T, i)
    /\ i = 1 \/ Type(T, i - 1) = "SEMICOLON"
    /\ \A k \in 1 .. i - 1 : Type(T, k) \notin {"FOR", "PRIVATE"}

(* Whatever the file holds, and whatever errors there are in it, the       *)
(* parser comes to an end with a program or with the errors, unless an     *)
(* import list in it is broken off behind a name; and such a list where a  *)
(* statement must begin is never left: its last name is added again and    *)
(* again until the memory is full (parser.go, parseImportStatement).       *)
ReadsToEnd ==
  [][Reads /\ runs = 0 =>
       /\ read'[1].at = 0 => SomeBrokenOff(file)
       /\ StatementBrokenOff(Lexed(file)) => read'[1].at = 0]_vars

(* What fmt writes for a program that is Formattable is read as the same   *)
(* program again.                                                          *)
KeepsMeaning ==
  [][Reads /\ written # None /\ Formattable(written[1]) => ReadAs(written[1])']_vars

RECURSIVE OnlyOperators(_)
OnlyOperators(e) ==
  \/ e.node = "Identifier"
  \/ e.node = "BinaryExpression" /\ OnlyOperators(e.left) /\ OnlyOperators(e.right)

(* "Most operators are left-associative, so right operand needs parens at  *)
(* same level" (fmt.go:76): an operand that is grouped stays grouped.      *)
GroupingKept ==
  [][Reads /\ written # None /\ written[1][1].node = "LetStatement" /\ OnlyOperators(written[1][1].value) =>
       ReadAs(written[1])']_vars
=============================================================================
