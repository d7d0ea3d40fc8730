------------------------------- MODULE Lexer --------------------------------
(***************************************************************************)
(* The lexer of ialang/pkg/lang/frontend.  A text is a sequence of         *)
(* symbols: a word of letters, a word of digits, or a single character of  *)
(* punctuation.  Words stay whole because nothing looks inside them; what  *)
(* the lexer decides is which characters of punctuation belong together,   *)
(* and how far a string, a template or a comment goes.                     *)
(***************************************************************************)
EXTENDS Integers, Sequences, SequencesExt

Blanks == {" ", "\n"}
Digits == {"0", "1", "2"}

Keywords ==
  [import |-> "IMPORT", export |-> "EXPORT", from |-> "FROM", class |-> "CLASS", new |-> "NEW",
   this |-> "THIS", super |-> "SUPER", extends |-> "EXTENDS", let |-> "LET", await |-> "AWAIT",
   async |-> "ASYNC", function |-> "FUNC", return |-> "RETURN", throw |-> "THROW", if |-> "IF",
   else |-> "ELSE", while |-> "WHILE", for |-> "FOR", in |-> "IN", of |-> "OF", break |-> "BREAK",
   continue |-> "CONTINUE", try |-> "TRY", catch |-> "CATCH", finally |-> "FINALLY", do |-> "DO",
   true |-> "TRUE", false |-> "FALSE", null |-> "NULL", switch |-> "SWITCH", case |-> "CASE",
   default |-> "DEFAULT", typeof |-> "TYPEOF", void |-> "VOID", static |-> "STATIC",
   get |-> "GET", set |-> "SET"]
LookupIdent(w) == IF w \in DOMAIN Keywords THEN Keywords[w] ELSE "IDENT"
IsKeyword(type) == \E w \in DOMAIN Keywords : Keywords[w] = type

(* How the tokens are spelled that are made of punctuation. *)
Spelling ==
  [EQ |-> <<"=", "=">>, ARROW |-> <<"=", ">">>, ASSIGN |-> <<"=">>,
   PLUSPLUS |-> <<"+", "+">>, PLUSEQ |-> <<"+", "=">>, PLUS |-> <<"+">>,
   MINUSMINUS |-> <<"-", "-">>, MINUSEQ |-> <<"-", "=">>, MINUS |-> <<"-">>,
   MULTEQ |-> <<"*", "=">>, ASTERISK |-> <<"*">>, DIVEQ |-> <<"/", "=">>, SLASH |-> <<"/">>,
   MODEQ |-> <<"%", "=">>, MODULO |-> <<"%">>, NEQ |-> <<"!", "=">>, BANG |-> <<"!">>,
   NULLISH |-> <<"?", "?">>, OPTCHAIN |-> <<"?", ".">>, QUESTION |-> <<"?">>,
   AND |-> <<"&", "&">>, BITAND |-> <<"&">>, OR |-> <<"|", "|">>, BITOR |-> <<"|">>,
   BITXOR |-> <<"^">>, SHL |-> <<"<", "<">>, LTE |-> <<"<", "=">>, LT |-> <<"<">>,
   SHR |-> <<">", ">">>, GTE |-> <<">", "=">>, GT |-> <<">">>, COMMA |-> <<",">>,
   COLON |-> <<":">>, SPREAD |-> <<".", ".", ".">>, DOT |-> <<".">>, SEMICOLON |-> <<";">>,
   LPAREN |-> <<"(">>, RPAREN |-> <<")">>, LBRACE |-> <<"{">>, RBRACE |-> <<"}">>,
   LBRACKET |-> <<"[">>, RBRACKET |-> <<"]">>]
Quote == "\""
BackQuote == "~"    \* stands for the back quote, which a string here cannot hold
Punctuation == {Spelling[t][1] : t \in DOMAIN Spelling} \cup {"#", Quote, BackQuote, "\\", "$"}
IsWord(s) == s \notin Punctuation \cup Blanks \cup Digits

Token(type, literal) == <<type, literal>>

(* The tokens that the text can begin with; NextToken takes the longest. *)
Candidates(text) == {t \in DOMAIN Spelling : IsPrefix(Spelling[t], text)}
Longest(text) ==
  CHOOSE t \in Candidates(text) : \A u \in Candidates(text) : Len(Spelling[t]) >= Len(Spelling[u])

(* The symbols in front of the first end, or all of them. *)
Until(text, end) ==
  IF \E i \in DOMAIN text : text[i] = end
  THEN SubSeq(text, 1, (CHOOSE i \in DOMAIN text :
                          text[i] = end /\ \A j \in 1..(i - 1) : text[j] # end) - 1)
  ELSE text

From(text, i) == SubSeq(text, i, Len(text))

(* A number goes on behind the first point.  There is no way to write the  *)
(* end of a string inside it.                                              *)
RECURSIVE Lexed(_)
Lexed(text) ==
  IF text = <<>> THEN <<>>
  ELSE LET c == text[1]
           next == IF Len(text) = 1 THEN "" ELSE text[2]
           quoted == Until(Tail(text), c)
       IN CASE c \in Blanks -> Lexed(Tail(text))
            [] c = "/" /\ next = "/" -> <<Token("COMMENT", "")>> \o Lexed(From(text, Len(Until(text, "\n")) + 1))
            [] c = "#" /\ IsWord(next) -> <<Token("PRIVATE", next)>> \o Lexed(From(text, 3))
            [] c = Quote -> <<Token("STRING", quoted)>> \o Lexed(From(text, Len(quoted) + 3))
            [] c = BackQuote -> <<Token("TEMPLATE", quoted)>> \o Lexed(From(text, Len(quoted) + 3))
            [] Candidates(text) # {} ->
                 <<Token(Longest(text), "")>> \o Lexed(From(text, Len(Spelling[Longest(text)]) + 1))
            [] c \in Digits ->
                 LET n == IF next = "." THEN IF Len(text) > 2 /\ text[3] \in Digits THEN 3 ELSE 2 ELSE 1
                 IN <<Token("NUMBER", SubSeq(text, 1, n))>> \o Lexed(From(text, n + 1))
            [] IsWord(c) -> <<Token(LookupIdent(c), c)>> \o Lexed(Tail(text))
            [] OTHER -> <<Token("ILLEGAL", c)>> \o Lexed(Tail(text))
=============================================================================
