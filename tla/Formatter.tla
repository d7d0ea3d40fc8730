----------------------------- MODULE Formatter ------------------------------
(***************************************************************************)
(* The source formatter of ialang/cmd/ialang/fmt.go: from the tree of a    *)
(* program back to a text.  Of the layout only the blanks around operators *)
(* are kept: elsewhere no two symbols that come to stand side by side make *)
(* one token.  Comments are not in the tree.                               *)
(***************************************************************************)
EXTENDS Parser

RECURSIVE FormatExpression(_), WriteStatement(_)

Parenthesised(text) == <<"(">> \o text \o <<")">>
Around(op) == <<" ">> \o Spelling[op] \o <<" ">>
Joined(texts) == FlattenSeq([i \in DOMAIN texts |-> IF i = 1 THEN texts[i] ELSE <<",">> \o texts[i]])
FormatAll(es) == Joined([i \in DOMAIN es |-> FormatExpression(es[i])])

WriteBlock(b) == <<"{">> \o FlattenSeq([i \in DOMAIN b |-> WriteStatement(b[i])]) \o <<"}">>

(* Neither a rest parameter nor a default is written. *)
WriteParams(f) == Parenthesised(Joined([i \in DOMAIN f.params |-> <<f.params[i]>>]))
WriteFunction(f) == WriteParams(f) \o WriteBlock(f.body)

QuoteIAString(s) == <<Quote>> \o s \o <<Quote>>
FormatObjectKey(k) ==
  IF Len(k) = 1 /\ IsWord(k[1]) /\ LookupIdent(k[1]) = "IDENT" THEN k ELSE QuoteIAString(k)
FormatProperties(ps) ==
  LET kept == SelectSeq(ps, LAMBDA p : p.node = "ObjectProperty")
  IN Joined([i \in DOMAIN kept |-> FormatObjectKey(kept[i].key) \o <<":", " ">> \o FormatExpression(kept[i].value)])

(* The precedences of the parser, but for ??, which has none. *)
ExprPrecedence(e) ==
  CASE e.node = "BinaryExpression" -> IF e.op = "NULLISH" THEN LOWEST ELSE Precedences[e.op]
    [] e.node = "UnaryExpression" -> PREFIX
    [] e.node \in {"CallExpression", "NewExpression"} -> Precedences["LPAREN"]
    [] e.node \in {"GetExpression", "IndexExpression"} -> Precedences["DOT"]
    [] e.node = "TernaryExpression" -> Precedences["QUESTION"]
    [] OTHER -> LOWEST
IsBinaryLike(e) == e.node \in {"BinaryExpression", "TernaryExpression"}

(* Every operand is left as it is. *)
FormatOperandBare(e, operand) == FormatExpression(operand)
(* An operand on the right is treated like one on the left. *)
FormatOperand(e, operand) ==
  IF ExprPrecedence(operand) < ExprPrecedence(e) /\ IsBinaryLike(operand)
  THEN Parenthesised(FormatExpression(operand)) ELSE FormatExpression(operand)
FormatBinaryExpression(e) == FormatOperand(e, e.left) \o Around(e.op) \o FormatOperand(e, e.right)

SimpleCallables ==
  {"Identifier", "GetExpression", "IndexExpression", "CallExpression", "SuperExpression", "SuperCallExpression"}
FormatCallable(e) ==
  IF e.node \in SimpleCallables THEN FormatExpression(e) ELSE Parenthesised(FormatExpression(e))
FormatMemberBase(e) ==
  IF e.node \in SimpleCallables \cup {"NewExpression"} THEN FormatExpression(e)
  ELSE Parenthesised(FormatExpression(e))
FormatPropertyTarget(e, x) == FormatMemberBase(e) \o <<".", x>>

FormatExpression(e) ==
  CASE e.node = "Identifier" -> <<e.name>>
    [] e.node = "NumberLiteral" -> e.value
    [] e.node = "StringLiteral" -> QuoteIAString(e.value)
    [] e.node = "BoolLiteral" -> <<IF e.value THEN "true" ELSE "false">>
    [] e.node = "NullLiteral" -> <<"null">>
    [] e.node = "ArrayLiteral" -> <<"[">> \o FormatAll(e.elements) \o <<"]">>
    [] e.node = "ObjectLiteral" -> <<"{">> \o FormatProperties(e.properties) \o <<"}">>
    [] e.node = "BinaryExpression" -> FormatBinaryExpression(e)
    [] e.node = "UnaryExpression" -> Spelling[e.op] \o FormatExpression(e.right)
    [] e.node = "CallExpression" -> FormatCallable(e.callee) \o Parenthesised(FormatAll(Unspread(e.args)))
    [] e.node = "FunctionExpression" ->
         (IF e.async THEN <<"async", "function">> ELSE <<"function">>)
           \o (IF e.name = "" THEN <<>> ELSE <<e.name>>) \o WriteFunction(e.fn)
    [] e.node = "NewExpression" -> <<"new">> \o FormatCallable(e.callee) \o Parenthesised(FormatAll(e.args))
    [] e.node = "GetExpression" -> FormatPropertyTarget(e.object, e.property)
    [] e.node = "IndexExpression" -> FormatMemberBase(e.object) \o <<"[">> \o FormatExpression(e.index) \o <<"]">>
    [] e.node = "AwaitExpression" -> <<"await">> \o FormatExpression(e.expr)
    [] e.node = "TernaryExpression" ->
         FormatExpression(e.condition) \o Around("QUESTION") \o FormatExpression(e.then)
           \o Around("COLON") \o FormatExpression(e.else)
    [] e.node = "SuperExpression" -> <<"super", ".", e.property>>
    [] e.node = "SuperCallExpression" -> <<"super">> \o Parenthesised(FormatAll(e.args))
    [] OTHER -> <<"undefined">>

Unsupported(what) == <<"/", "*", "unsupported", what, "*", "/">>

WriteMethod(m) == (IF m.kind = "async" THEN <<"async">> ELSE <<>>) \o <<m.name>> \o WriteFunction(m.fn)
WriteClass(s) ==
  <<"class", s.name>> \o (IF s.parent = "" THEN <<>> ELSE <<"extends", s.parent>>)
    \o <<"{">> \o FlattenSeq([i \in DOMAIN s.methods |-> WriteMethod(s.methods[i])]) \o <<"}">>
WriteFunctionStatement(s) ==
  (IF s.async THEN <<"async">> ELSE <<>>) \o <<"function", s.name>> \o WriteFunction(s.fn)
WriteExportTarget(s) ==
  CASE s.what \in {"all", "names"} -> Unsupported("export")
    [] s.value.node \in {"LetStatement", "FunctionStatement", "ClassStatement"} -> WriteStatement(s.value)
    [] OTHER -> Unsupported("export")

(* A compound assignment loses its operator. *)
WriteSettingPlain(target, op, e) == target \o Around("ASSIGN") \o FormatExpression(e)
WriteSetting(target, op, e) == target \o Around(op) \o FormatExpression(e)
(* The statements that are one line, without the semicolon. *)
FormatSimple(s) ==
  CASE s.node = "LetStatement" -> WriteSetting(<<"let", s.name>>, "ASSIGN", s.value)
    [] s.node = "AssignStatement" -> WriteSetting(<<s.name>>, "ASSIGN", s.value)
    [] s.node = "CompoundAssignStatement" -> WriteSetting(<<s.name>>, s.op, s.value)
    [] s.node = "SetPropertyStatement" ->
         WriteSetting(FormatPropertyTarget(s.object, s.property), "ASSIGN", s.value)
    [] s.node = "CompoundSetPropertyStatement" ->
         WriteSetting(FormatPropertyTarget(s.object, s.property), s.op, s.value)
    [] s.node = "ExpressionStatement" -> FormatExpression(s.expr)
Simple == {"LetStatement", "AssignStatement", "CompoundAssignStatement", "SetPropertyStatement",
           "CompoundSetPropertyStatement", "ExpressionStatement"}
FormatForPart(part) ==
  IF part # None /\ part[1].node \in Simple THEN FormatSimple(part[1]) ELSE <<>>

WriteStatement(s) ==
  CASE s.node \in Simple -> FormatSimple(s) \o <<";">>
    [] s.node = "ImportStatement" ->
         <<"import", "{">> \o Joined([i \in DOMAIN s.names |-> <<s.names[i]>>]) \o <<"}", "from">>
           \o QuoteIAString(s.module) \o <<";">>
    [] s.node = "ExportStatement" -> <<"export">> \o WriteExportTarget(s)
    [] s.node = "FunctionStatement" -> WriteFunctionStatement(s)
    [] s.node = "ClassStatement" -> WriteClass(s)
    [] s.node = "ReturnStatement" -> <<"return">> \o FormatAll(s.value) \o <<";">>
    [] s.node = "ThrowStatement" -> <<"throw">> \o FormatAll(s.value) \o <<";">>
    [] s.node = "BreakStatement" -> <<"break", ";">>
    [] s.node = "ContinueStatement" -> <<"continue", ";">>
    [] s.node = "TryCatchStatement" ->
         <<"try">> \o WriteBlock(s.body)
           \o (IF s.catch = None THEN <<>> ELSE <<"catch", "(", s.name, ")">> \o WriteBlock(s.catch[1]))
           \o (IF s.finally = None THEN <<>> ELSE <<"finally">> \o WriteBlock(s.finally[1]))
    [] s.node = "IfStatement" ->
         <<"if">> \o Parenthesised(FormatExpression(s.condition)) \o WriteBlock(s.then)
           \o (IF s.else = None THEN <<>> ELSE <<"else">> \o WriteBlock(s.else[1]))
    [] s.node = "WhileStatement" ->
         <<"while">> \o Parenthesised(FormatExpression(s.condition)) \o WriteBlock(s.body)
    [] s.node = "ForStatement" ->
         <<"for">> \o Parenthesised(FormatForPart(s.init) \o <<";">> \o FormatAll(s.condition)
                                      \o <<";">> \o FormatForPart(s.post)) \o WriteBlock(s.body)
    [] OTHER -> Unsupported("statement")

FormatProgramSource(program) == FlattenSeq([i \in DOMAIN program |-> WriteStatement(program[i])])

(***************************************************************************)
(* ialang fmt: reads a source file, parses it, formats the tree and writes *)
(* the file.  The file begins with a text somebody wrote for one of the    *)
(* Sources, each a text with the tree that is meant by it, or None for a   *)
(* text that is not meant as a program.  The command runs up to MaxRuns    *)
(* times.                                                                  *)
(*                                                                         *)
(* Reading and Printing are the parser and the formatter.  They are        *)
(* constants because TLC, when it counts how often each part of an action  *)
(* is evaluated, cannot take in definitions as recursive as theirs.        *)
(***************************************************************************)
CONSTANTS Sources, Reading(_), Printing(_), MaxRuns

Works == <<>> \o Sources

VARIABLES
  work,     \* the index in Works of what the file was written for
  file,     \* the text in the file
  read,     \* what the parser has made of it, None while nobody has read it
  written,  \* the tree the file was last written from, or None
  runs
vars == <<work, file, read, written, runs>>

Init ==
  /\ work \in DOMAIN Works
  /\ file = Works[work].text
  /\ read = None
  /\ written = None
  /\ runs = 0

ParseFile ==
  /\ read = None
  /\ runs < MaxRuns
  /\ read' = <<Reading(file)>>
  /\ UNCHANGED <<work, file, written, runs>>

FormatFile ==
  /\ read # None
  /\ ~read[1].errs
  /\ file' = Printing(read[1].v)
  /\ written' = <<read[1].v>>
  /\ read' = None
  /\ runs' = runs + 1
  /\ UNCHANGED work

(* With errors nothing is written, and the command fails. *)
ParseErrors ==
  /\ read # None
  /\ read[1].errs /\ read[1].at # 0
  /\ read' = None
  /\ runs' = MaxRuns
  /\ UNCHANGED <<work, file, written>>

Next == ParseFile \/ FormatFile \/ ParseErrors
Spec == Init /\ [][Next]_vars
=============================================================================
