----------------------------- MODULE SseServer -----------------------------
(***************************************************************************)
(* The hub of a server of events, src/ialang/pkg/lang/runtime/builtin/     *)
(* sse.go, with its connections: send calls of the script put an event     *)
(* into the channel of every client, and the goroutine of each request     *)
(* writes from its channel to its connection.  Events are the calls that   *)
(* sent them.                                                              *)
(***************************************************************************)
EXTENDS Integers, Sequences, SequencesExt, FiniteSetsExt

CONSTANTS
  Readers,       \* clients, a connection each
  Idle,          \* those that do not read what arrives
  Sends,         \* calls of send, numbered in the order in which they get the lock
  Closes,        \* calls of close, numbered alike
  ChannelSize,   \* 16 in the code
  Window         \* events that a connection takes before a write blocks

VARIABLES
  hubClosed, clients,  \* of sseServerHub; the channels are below
  channel, sealed,     \* what is in a client's channel; whether it was closed
  serving, writing,    \* where the goroutine of a request is; the event it has taken
  wire, link,          \* what is under way to a client; its connection
  heard,               \* what its recv has returned
  sending, shutting,   \* the calls of the script
  sentTo, panicked     \* the events that were counted for a client

hubVars == <<hubClosed, clients, channel, sealed>>
linkVars == <<wire, link, heard>>
vars == <<hubVars, serving, writing, linkVars, sending, shutting, sentTo, panicked>>

NotSent == -1

TypeOK ==
  /\ hubClosed \in BOOLEAN /\ panicked \in BOOLEAN /\ clients \subseteq Readers
  /\ {channel, writing, wire, heard, sentTo} \subseteq [Readers -> Seq(Sends)]
  /\ \A c \in Readers :
       /\ Len(channel[c]) <= ChannelSize /\ Len(writing[c]) <= 1 /\ Len(wire[c]) <= Window
  /\ sealed \in [Readers -> BOOLEAN]
  /\ serving \in [Readers -> {"none", "arriving", "loop", "writing", "leaving", "ended"}]
  /\ link \in [Readers -> {"none", "open", "left", "cut", "ended"}]
  /\ sending \in [Sends -> {NotSent} \cup 0 .. Cardinality(Readers)]
  /\ shutting \in [Closes -> {"idle", "closing", "done"}]

Init ==
  /\ hubClosed = FALSE /\ clients = {} /\ panicked = FALSE
  /\ channel = [c \in Readers |-> <<>>] /\ sealed = [c \in Readers |-> FALSE]
  /\ serving = [c \in Readers |-> "none"] /\ writing = [c \in Readers |-> <<>>]
  /\ wire = [c \in Readers |-> <<>>] /\ link = [c \in Readers |-> "none"]
  /\ heard = [c \in Readers |-> <<>>] /\ sentTo = [c \in Readers |-> <<>>]
  /\ sending = [s \in Sends |-> NotSent] /\ shutting = [x \in Closes |-> "idle"]

Goes(c, here, there) == serving[c] = here /\ serving' = [serving EXCEPT ![c] = there]

(* A request arrives while the server listens: no close has ended yet.     *)
Connect(c) ==
  /\ Goes(c, "none", "arriving")
  /\ \A x \in Closes : shutting[x] # "done"
  /\ link' = [link EXCEPT ![c] = "open"]
  /\ UNCHANGED <<hubVars, writing, wire, heard, sending, shutting, sentTo, panicked>>

(* hub.register; a closed hub answers 503.  The greeting that is written   *)
(* to the client then, whatever error that meets, is left out.             *)
register(c) ==
  /\ IF hubClosed
     THEN Goes(c, "arriving", "ended") /\ UNCHANGED clients
     ELSE Goes(c, "arriving", "loop") /\ clients' = clients \cup {c}
  /\ UNCHANGED <<hubClosed, channel, sealed, writing, linkVars, sending, shutting, sentTo, panicked>>

(* The select: the request's context, which ends with its connection, an   *)
(* event of the channel, or its end.                                       *)
ContextDone(c) ==
  /\ link[c] # "open" /\ Goes(c, "loop", "leaving")
  /\ UNCHANGED <<hubVars, writing, linkVars, sending, shutting, sentTo, panicked>>

Take(c) ==
  /\ channel[c] # <<>> /\ Goes(c, "loop", "writing")
  /\ channel' = [channel EXCEPT ![c] = Tail(@)]
  /\ writing' = [writing EXCEPT ![c] = <<Head(channel[c])>>]
  /\ UNCHANGED <<hubClosed, clients, sealed, linkVars, sending, shutting, sentTo, panicked>>

ChannelEnds(c) ==
  /\ channel[c] = <<>> /\ sealed[c] /\ Goes(c, "loop", "leaving")
  /\ UNCHANGED <<hubVars, writing, linkVars, sending, shutting, sentTo, panicked>>

(* writeSSEEvent and Flush: what is written to a connection that has ended *)
(* is an error, or is lost.                                                *)
Write(c) ==
  /\ \/ /\ link[c] = "open" /\ Len(wire[c]) < Window /\ Goes(c, "writing", "loop")
        /\ wire' = [wire EXCEPT ![c] = @ \o writing[c]]
     \/ /\ link[c] # "open" /\ UNCHANGED wire
        /\ Goes(c, "writing", "loop") \/ Goes(c, "writing", "leaving")
  /\ writing' = [writing EXCEPT ![c] = <<>>]
  /\ UNCHANGED <<hubVars, link, heard, sending, shutting, sentTo, panicked>>

(* A mutant of unregister: the channel is closed whoever closed it before. *)
unregisterUnguarded(c) ==
  /\ Goes(c, "leaving", "ended")
  /\ clients' = clients \ {c}
  /\ sealed' = [sealed EXCEPT ![c] = TRUE] /\ panicked' = (panicked \/ sealed[c])
  /\ link' = [link EXCEPT ![c] = IF @ = "open" THEN "ended" ELSE @]
  /\ UNCHANGED <<hubClosed, channel, writing, wire, heard, sending, shutting, sentTo>>

(* hub.unregister, deferred; the response ends with its handler.  close of *)
(* a closed channel panics.                                                *)
unregister(c) ==
  /\ Goes(c, "leaving", "ended")
  /\ clients' = clients \ {c}
  /\ sealed' = [sealed EXCEPT ![c] = @ \/ c \in clients]
  /\ panicked' = (panicked \/ (c \in clients /\ sealed[c]))
  /\ link' = [link EXCEPT ![c] = IF @ = "open" THEN "ended" ELSE @]
  /\ UNCHANGED <<hubClosed, channel, writing, wire, heard, sending, shutting, sentTo>>

(* hub.broadcast, under the lock; a client whose channel is full gets      *)
(* nothing; a send on a closed channel panics.                             *)
Takers == {c \in clients : Len(channel[c]) < ChannelSize}
broadcast(s) ==
  /\ sending[s] = NotSent /\ \A t \in Sends : t < s => sending[t] # NotSent
  /\ LET takers == IF hubClosed THEN {} ELSE Takers
         Given(lists) == [c \in Readers |-> IF c \in takers THEN Append(lists[c], s) ELSE lists[c]]
     IN  /\ channel' = Given(channel)
         /\ sentTo' = Given(sentTo)
         /\ sending' = [sending EXCEPT ![s] = Cardinality(takers)]
         /\ panicked' = (panicked \/ (~hubClosed /\ \E c \in clients : sealed[c]))
  /\ UNCHANGED <<hubClosed, clients, sealed, serving, writing, linkVars, shutting>>

(* The close call: hub.closeAll, then server.Close, which cuts all         *)
(* connections.                                                            *)
closeAll(x) ==
  /\ shutting[x] = "idle" /\ shutting' = [shutting EXCEPT ![x] = "closing"]
  /\ \A y \in Closes : y < x => shutting[y] # "idle"
  /\ hubClosed' = TRUE
  /\ sealed' = [c \in Readers |-> sealed[c] \/ (~hubClosed /\ c \in clients)]
  /\ clients' = IF hubClosed THEN clients ELSE {}
  /\ panicked' = (panicked \/ (~hubClosed /\ \E c \in clients : sealed[c]))
  /\ UNCHANGED <<channel, serving, writing, linkVars, sending, sentTo>>

(* A mutant of ServerClose: the connections go on.                         *)
ServerShutdown(x) ==
  /\ shutting[x] = "closing" /\ shutting' = [shutting EXCEPT ![x] = "done"]
  /\ UNCHANGED <<hubVars, serving, writing, linkVars, sending, sentTo, panicked>>

ServerClose(x) ==
  /\ shutting[x] = "closing" /\ shutting' = [shutting EXCEPT ![x] = "done"]
  /\ link' = [c \in Readers |-> IF link[c] = "open" THEN "cut" ELSE link[c]]
  /\ UNCHANGED <<hubVars, serving, writing, wire, heard, sending, sentTo, panicked>>

(* A client reads, closes its connection, or is timed out: the timeout of  *)
(* its http.Client ends a stream that still runs.  What was under way when *)
(* the server cut a connection may still be read, or not.                  *)
Recv(c) ==
  /\ wire[c] # <<>> /\ link[c] # "left"
  /\ heard' = [heard EXCEPT ![c] = Append(@, Head(wire[c]))]
  /\ wire' = [wire EXCEPT ![c] = Tail(@)]
  /\ UNCHANGED <<hubVars, serving, writing, link, sending, shutting, sentTo, panicked>>

Leave(c) ==
  /\ link[c] = "open" /\ link' = [link EXCEPT ![c] = "left"]
  /\ UNCHANGED <<hubVars, serving, writing, wire, heard, sending, shutting, sentTo, panicked>>

HandleRequest(c) ==
  register(c) \/ ContextDone(c) \/ Take(c) \/ ChannelEnds(c) \/ Write(c) \/ unregister(c)
Run ==
  \/ \E c \in Readers : HandleRequest(c)
  \/ \E c \in Readers \ Idle : Recv(c)
  \/ \E x \in Closes : ServerClose(x)
Next ==
  \/ Run
  \/ \E c \in Readers : Connect(c) \/ Recv(c) \/ Leave(c)
  \/ \E s \in Sends : broadcast(s)
  \/ \E x \in Closes : closeAll(x)

(* Goroutines run, and so do the clients that read.                        *)
Spec == Init /\ [][Next]_vars /\ WF_vars(Run)

-----------------------------------------------------------------------------
(* What a client has read is the beginning of what send counted for it, in *)
(* that order; while its connection is open, all that was counted is read, *)
(* under way, being written or in its channel.                             *)
InOrder ==
  \A c \in Readers :
    /\ IsPrefix(heard[c], sentTo[c]) /\ IsInjective(sentTo[c])
    /\ link[c] = "open" => heard[c] \o wire[c] \o writing[c] \o channel[c] = sentTo[c]

(* send returns how many clients the event will be written to if they      *)
(* stay.                                                                   *)
Counted ==
  \A s \in Sends : sending[s] # NotSent => sending[s] = Cardinality({c \in Readers : s \in Range(sentTo[c])})

(* A client is in the hub from its registration until its channel is       *)
(* closed, which happens once, whoever leaves first; nothing is sent to a  *)
(* closed channel.                                                         *)
ClosedOnce ==
  /\ ~panicked
  /\ \A c \in clients : ~sealed[c] /\ serving[c] \in {"loop", "writing", "leaving"}
  /\ \A c \in Readers : serving[c] \in {"loop", "writing", "leaving"} => c \in clients \/ sealed[c]
  /\ hubClosed => clients = {}

(* In the end, a client that reads has read all that was counted for it,   *)
(* unless its connection has ended; and once the server is closed, every   *)
(* goroutine of it ends, however little its client reads.                  *)
AllRead == \A c \in Readers \ Idle : link[c] = "open" => Range(sentTo[c]) \subseteq Range(heard[c])
AllEnded ==
  (\E x \in Closes : shutting[x] # "idle") => \A c \in Readers : serving[c] \in {"none", "ended"}
-----------------------------------------------------------------------------
(* The inductive invariant behind InOrder, Counted and ClosedOnce: what a  *)
(* client has read or still may read is the beginning of what was counted  *)
(* for it, and nothing is counted for a client before it is in the hub.    *)
StreamInv ==
  \A c \in Readers :
    /\ IsPrefix(heard[c] \o wire[c], sentTo[c])
    /\ link[c] = "open" => heard[c] \o wire[c] \o writing[c] \o channel[c] = sentTo[c]
    /\ serving[c] # "writing" => writing[c] = <<>>

SentInv ==
  \A c \in Readers : IsInjective(sentTo[c]) /\ \A s \in Range(sentTo[c]) : sending[s] # NotSent

RegisterInv ==
  \A c \in Readers :
    /\ serving[c] \in {"none", "arriving"} => c \notin clients /\ ~sealed[c]
    /\ serving[c] = "none" => heard[c] = <<>> /\ wire[c] = <<>> /\ channel[c] = <<>> /\ sentTo[c] = <<>>

HubInv == StreamInv /\ SentInv /\ RegisterInv /\ Counted /\ ClosedOnce
=============================================================================
