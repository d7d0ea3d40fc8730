----------------------------- MODULE WebSocket -----------------------------
(***************************************************************************)
(* A client of src/ialang/pkg/lang/runtime/builtin/websocket.go, whose     *)
(* send and recv calls share one mutex, and the goroutine that serves it,  *)
(* which answers every message with the same, or with nothing.  Messages   *)
(* are the calls that sent them.                                           *)
(***************************************************************************)
EXTENDS Integers, Sequences, SequencesExt

CONSTANTS
  SendCalls, RecvCalls, \* numbered in the order in which they begin
  Welcome, NoOne,       \* the greeting, and the holder of a free mutex: other numbers
  Capacity              \* messages a connection takes before a write blocks

Calls == SendCalls \cup RecvCalls

VARIABLES
  echo, greets,        \* options of the server
  ioMu,                \* who holds the client's mutex
  task,                \* of a call: idle, locking, busy, done, failed
  toServer, toClient,  \* what is under way
  peer,                \* where the server's goroutine is: greeting, reading, writing, ended
  echoing,             \* the message it is about to write
  connection,          \* open until the client closes it
  answers,             \* what recv calls returned
  messages             \* what was sent, in that order

vars == <<echo, greets, ioMu, task, toServer, toClient, peer, echoing, connection, answers, messages>>

TypeOK ==
  /\ {echo, greets} \subseteq BOOLEAN /\ ioMu \in Calls \cup {NoOne}
  /\ task \in [Calls -> {"idle", "locking", "busy", "done", "failed"}]
  /\ {toServer, toClient, echoing, answers, messages} \subseteq Seq(SendCalls \cup {Welcome})
  /\ Len(toServer) <= Capacity /\ Len(toClient) <= Capacity /\ Len(echoing) <= 1
  /\ peer \in {"greeting", "reading", "writing", "ended"} /\ connection \in {"open", "closed"}

Init ==
  /\ echo \in BOOLEAN /\ greets \in BOOLEAN
  /\ ioMu = NoOne /\ task = [k \in Calls |-> "idle"]
  /\ toServer = <<>> /\ toClient = <<>> /\ echoing = <<>> /\ answers = <<>> /\ messages = <<>>
  /\ peer = "greeting" /\ connection = "open"

Moves(k, there) == task' = [task EXCEPT ![k] = there]
clientVars == <<ioMu, task, answers, messages>>
serverVars == <<peer, echoing>>

Begin(k) ==
  /\ task[k] = "idle" /\ Moves(k, "locking")
  /\ \A j \in Calls : j < k /\ (j \in SendCalls <=> k \in SendCalls) => task[j] # "idle"
  /\ UNCHANGED <<echo, greets, ioMu, toServer, toClient, serverVars, connection, answers, messages>>

Lock(k) ==
  /\ task[k] = "locking" /\ ioMu = NoOne
  /\ ioMu' = k /\ Moves(k, "busy")
  /\ UNCHANGED <<echo, greets, toServer, toClient, serverVars, connection, answers, messages>>

(* A mutant of Send: the error returns before the mutex is given back.     *)
SendKeepsMutex(k) ==
  /\ k \in SendCalls /\ task[k] = "busy"
  /\ IF connection = "open"
     THEN /\ Len(toServer) < Capacity /\ Moves(k, "done") /\ ioMu' = NoOne
          /\ toServer' = Append(toServer, k) /\ messages' = Append(messages, k)
     ELSE UNCHANGED <<ioMu, toServer, messages>> /\ Moves(k, "failed")
  /\ UNCHANGED <<echo, greets, toClient, serverVars, connection, answers>>

(* conn.WriteMessage and conn.ReadMessage, under the mutex.                *)
Send(k) ==
  /\ k \in SendCalls /\ task[k] = "busy" /\ ioMu' = NoOne
  /\ IF connection = "open"
     THEN /\ Len(toServer) < Capacity /\ Moves(k, "done")
          /\ toServer' = Append(toServer, k) /\ messages' = Append(messages, k)
     ELSE UNCHANGED <<toServer, messages>> /\ Moves(k, "failed")
  /\ UNCHANGED <<echo, greets, toClient, serverVars, connection, answers>>

Recv(k) ==
  /\ k \in RecvCalls /\ task[k] = "busy" /\ ioMu' = NoOne
  /\ IF connection = "open" /\ peer # "ended"
     THEN /\ toClient # <<>> /\ Moves(k, "done")
          /\ answers' = Append(answers, Head(toClient)) /\ toClient' = Tail(toClient)
     ELSE UNCHANGED <<toClient, answers>> /\ Moves(k, "failed")
  /\ UNCHANGED <<echo, greets, toServer, serverVars, connection, messages>>

(* close takes no mutex.  (The peer's close only ends its listener:      *)
(* net/http knows nothing of a connection that was upgraded.)              *)
CloseConn ==
  /\ connection = "open" /\ connection' = "closed"
  /\ UNCHANGED <<echo, greets, clientVars, toServer, toClient, serverVars>>

(* The peer's goroutine; a read or a write fails once the client closed. *)
WriteWelcome ==
  /\ peer = "greeting"
  /\ IF ~greets THEN peer' = "reading" /\ UNCHANGED toClient
     ELSE IF connection = "open" THEN peer' = "reading" /\ toClient' = Append(toClient, Welcome)
     ELSE peer' = "ended" /\ UNCHANGED toClient
  /\ UNCHANGED <<echo, greets, clientVars, toServer, echoing, connection>>

ReadMessage ==
  /\ peer = "reading" /\ toServer # <<>>
  /\ toServer' = Tail(toServer)
  /\ IF echo THEN peer' = "writing" /\ echoing' = <<Head(toServer)>> ELSE UNCHANGED serverVars
  /\ UNCHANGED <<echo, greets, clientVars, toClient, connection>>

WriteMessage ==
  /\ peer = "writing" /\ connection = "open" /\ Len(toClient) < Capacity
  /\ toClient' = toClient \o echoing /\ echoing' = <<>> /\ peer' = "reading"
  /\ UNCHANGED <<echo, greets, clientVars, toServer, connection>>

ServerFails ==
  /\ connection = "closed"
  /\ peer = "writing" \/ (peer = "reading" /\ toServer = <<>>)
  /\ peer' = "ended" /\ echoing' = <<>>
  /\ UNCHANGED <<echo, greets, clientVars, toServer, toClient, connection>>

Serve == WriteWelcome \/ ReadMessage \/ WriteMessage \/ ServerFails
Run == Serve \/ \E k \in Calls : Lock(k) \/ Send(k) \/ Recv(k)
Next == Run \/ CloseConn \/ \E k \in Calls : Begin(k)

(* Goroutines run; who begins a call or closes need not.                   *)
Spec == Init /\ [][Next]_vars /\ WF_vars(Run)

-----------------------------------------------------------------------------
(* What comes back when everything has been answered.                      *)
Due == (IF greets THEN <<Welcome>> ELSE <<>>) \o (IF echo THEN messages ELSE <<>>)

(* Messages come back in the order they were sent in, behind the greeting, *)
(* each once; while the connection is open, none is lost.                  *)
EchoedInOrder ==
  /\ IsPrefix(answers, Due)
  /\ connection = "open" /\ peer # "greeting" /\ echo =>
       answers \o toClient \o echoing \o toServer = Due

(* In the end all calls have returned, and after a close really all of     *)
(* them, also one that waits for a message or for the mutex.  Before it,   *)
(* there are two ways in which the mutex is never given back: a recv waits *)
(* for a message, and what would be the cause of one cannot be sent; or a  *)
(* send waits for a server that waits for a recv.                          *)
RecvWaits == ioMu \in RecvCalls /\ toClient = <<>> /\ echoing = <<>> /\ (toServer = <<>> \/ ~echo)
BothWait == ioMu \in SendCalls /\ Len(toServer) = Capacity /\ peer = "writing" /\ Len(toClient) = Capacity
AllReturned ==
  \/ \A k \in Calls : task[k] \in {"idle", "done", "failed"}
  \/ connection = "open" /\ (RecvWaits \/ BothWait)
-----------------------------------------------------------------------------
(* The inductive invariant behind EchoedInOrder: before the greeting the   *)
(* client can only send; a server that does not echo drops what it reads.  *)
SocketInv ==
  /\ IsPrefix(answers, Due)
  /\ peer # "writing" => echoing = <<>>
  /\ peer = "writing" => echo
  /\ peer = "greeting" => answers = <<>> /\ toClient = <<>>
  /\ connection = "open" =>
       /\ peer # "ended" /\ (peer = "greeting" => toServer = messages)
       /\ peer # "greeting" /\ echo => answers \o toClient \o echoing \o toServer = Due
       /\ peer # "greeting" /\ ~echo => answers \o toClient = Due
=============================================================================
