----------------------------- MODULE SseFraming -----------------------------
(***************************************************************************)
(* How an event is written to a connection and read from it: writeSSEEvent *)
(* and readSSEEvent of src/ialang/pkg/lang/runtime/builtin/sse.go, for     *)
(* every event up to a length.  A text is a sequence of characters, the    *)
(* name of a field is one.                                                 *)
(***************************************************************************)
EXTENDS Integers, SequencesExt, FiniteSetsExt

CONSTANTS MaxName, MaxData

VARIABLE sent
vars == <<sent>>

LF == "LF"
CR == "CR"
Inline == {"x", " ", ":", CR}
TextsUpTo(alphabet, n) == UNION {[1 .. k -> alphabet] : k \in 0 .. n}

Init == sent \in [event : TextsUpTo(Inline, MaxName), data : TextsUpTo(Inline \cup {LF}, MaxData)]
Next == UNCHANGED vars
Spec == Init /\ [][Next]_vars

Places(text, char) == {i \in DOMAIN text : text[i] = char}
(* strings.Split(text, "\n"), a character at a time.                       *)
Scanned(lines, char) ==
  IF char = LF THEN Append(lines, <<>>) ELSE Append(Front(lines), Append(Last(lines), char))
Lines(text) ==
  LET upTo[i \in 0 .. Len(text)] == IF i = 0 THEN << <<>> >> ELSE Scanned(upTo[i - 1], text[i])
  IN  upTo[Len(text)]

(* A mutant of Field: no space behind the colon.                           *)
FieldUnspaced(name, value) == <<name, ":">> \o value \o <<LF>>

Field(name, value) == <<name, ":", " ">> \o value \o <<LF>>
writeSSEEvent(ev) ==
  (IF ev.event # <<>> THEN Field("event", ev.event) ELSE <<>>)
  \o (IF ev.data = <<>> THEN <<"data", ":", LF>>
      ELSE FlattenSeq([i \in DOMAIN Lines(ev.data) |-> Field("data", Lines(ev.data)[i])]))
  \o <<LF>>

(* strings.TrimRight(line, "\r\n"), of a line.                             *)
TrimRight(line) ==
  LET full == {i \in DOMAIN line : line[i] # CR} IN
  SubSeq(line, 1, IF full = {} THEN 0 ELSE Max(full))

(* The value behind the first colon, without one space in front of it.     *)
Value(line) ==
  LET colons == Places(line, ":")
      value == IF colons = {} THEN <<>> ELSE SubSeq(line, Min(colons) + 1, Len(line))
  IN  IF value # <<>> /\ Head(value) = " " THEN Tail(value) ELSE value
Name(line) == SubSeq(line, 1, Min(Places(line, ":") \cup {Len(line) + 1}) - 1)

(* What readSSEEvent makes of a line: an event ends at an empty one.       *)
NothingYet == [event |-> <<>>, lines |-> <<>>, events |-> <<>>]
JoinedLines(lines) ==
  FlattenSeq([i \in DOMAIN lines |-> IF i = 1 THEN lines[i] ELSE <<LF>> \o lines[i]])
ReadLine(state, line) ==
  IF line = <<>> THEN
    IF state.lines = <<>> /\ state.event = <<>> THEN state
    ELSE [NothingYet EXCEPT
            !.events = Append(state.events, [event |-> state.event, data |-> JoinedLines(state.lines)])]
  ELSE IF Head(line) = ":" THEN state
  ELSE IF Name(line) = <<"event">> THEN [state EXCEPT !.event = Value(line)]
  ELSE IF Name(line) = <<"data">> THEN [state EXCEPT !.lines = Append(@, Value(line))]
  ELSE state

ReadLines(lines) ==
  LET read[i \in 0 .. Len(lines)] ==
        IF i = 0 THEN NothingYet ELSE ReadLine(read[i - 1], TrimRight(lines[i]))
  IN  read[Len(lines)]

(* All events of a connection, behind the comment it begins with.          *)
Greeting == <<":", " ", "connected", LF, LF>>
readSSEEvents(text) == ReadLines(Front(Lines(text))).events

(* One event is read for one that was written, with its name and its       *)
(* lines; carriage returns at the end of a line or of the name are lost,   *)
(* and nothing else.                                                       *)
EndsALine(text, i) ==
  \E j \in i .. Len(text) :
    (\A k \in i + 1 .. j : text[k] = CR) /\ (j = Len(text) \/ text[j + 1] = LF)
Unreturned(text) ==
  LET kept[i \in 0 .. Len(text)] ==
        IF i = 0 THEN <<>>
        ELSE IF text[i] = CR /\ EndsALine(text, i) THEN kept[i - 1]
        ELSE Append(kept[i - 1], text[i])
  IN  kept[Len(text)]
Framed ==
  readSSEEvents(Greeting \o writeSSEEvent(sent)) =
    <<[event |-> Unreturned(sent.event), data |-> Unreturned(sent.data)]>>
=============================================================================
