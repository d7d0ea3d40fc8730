-------------------------------- MODULE Iax --------------------------------
(***************************************************************************)
(* The message bus (src/ialang/pkg/lang/runtime/builtin/iax.go) at one end *)
(* of one connection, and the ipc connection (ipc.go) it mostly runs over. *)
(* Clients are goroutines: each makes one call, publishes one event, takes *)
(* one request and replies, or takes events again and again.  They share   *)
(* the transport: a writer goroutine sends for them one at a time, a       *)
(* reader goroutine puts what arrives in the inbox, where every client     *)
(* waits on one condition variable for the message it can use.             *)
(*                                                                         *)
(* A connection that has a call function of its own, as ipc's, sends and   *)
(* reads for a call itself, beside the reader goroutine.                   *)
(***************************************************************************)
EXTENDS Integers, Sequences, FiniteSets

CONSTANTS
  Callers, Receivers, Publishers, Subscribers,   (* the clients              *)
  Topics,            (* of each subscription, the events its topics match    *)
  MaxEvents,         (* bound: events the peer publishes, 1 .. MaxEvents     *)
  Requests,          (* what the peer asks of this end                       *)
  Scenes,            (* which clients use the connection together, and what  *)
                     (* the peer may send them beside responses              *)
  WriteQueue,        (* capacity of writeCh                                  *)
  None

Clients == Callers \cup Receivers \cup Publishers \cup Subscribers
EventIds == 1 .. MaxEvents

Message ==
  [kind : {"response"}, of : Callers] \cup [kind : {"request"}, of : Requests]
    \cup [kind : {"event"}, of : EventIds] \cup {[kind |-> "garbage", of |-> None]}

VARIABLES
  scene,
  hasCall,      (* the connection object has call and reply                  *)
  accepts,      (* the forms its send takes                                  *)
  sendMode, writeCh,
  delivered,    (* how often the message of a client reached the peer        *)
  open,         (* the connection                                            *)
  peerSent,     (* what the peer has sent                                    *)
  incoming,     (* what of it nobody has read                                *)
  holder,       (* who holds the connection's readMu, that is, is in recv    *)
  reader,       (* the reader goroutine                                      *)
  readErr, inbox,
  closed,       (* the subscriptions that are closed                         *)
  pc,
  got           (* the messages a client has read or taken                   *)

connection == <<scene, hasCall, accepts, open, peerSent>>
writing == <<sendMode, writeCh, delivered>>
reading == <<incoming, holder, reader, readErr, inbox>>
vars == <<connection, writing, reading, closed, pc, got>>

(* "sent": the send has returned; "checking": looking through the inbox;   *)
(* "waiting": in readCond.Wait; "reading": in the connection's call;       *)
(* "received": a request it has not replied to.                            *)
Location ==
  {"absent", "idle", "sending", "sent", "checking", "waiting", "reading", "received", "done",
   "failed"}
Reader == {"off", "running", "ended"}

TypeOK ==
  /\ scene \in Scenes /\ hasCall \in BOOLEAN /\ accepts \in SUBSET {"object", "string"}
  /\ sendMode \in {"unknown", "object", "string"} /\ writeCh \in Seq(Clients)
  /\ Len(writeCh) <= WriteQueue
  /\ delivered \in [Clients -> 0 .. 2]
  /\ open \in BOOLEAN /\ peerSent \subseteq Message
  /\ incoming \in Seq(Message) /\ inbox \in Seq(Message)
  /\ holder \in Callers \cup {None, "reader"} /\ reader \in Reader /\ readErr \in BOOLEAN
  /\ closed \subseteq Subscribers
  /\ pc \in [Clients -> Location] /\ got \in [Clients -> Seq(Message)]
  /\ holder = "reader" => reader = "running"
  /\ readErr <=> reader = "ended"

(* An ipc connection writes any value as JSON.                             *)
Init ==
  /\ scene \in Scenes /\ hasCall \in BOOLEAN
  /\ accepts \in (IF hasCall THEN {{"object", "string"}}
                             ELSE {{"object"}, {"string"}, {"object", "string"}})
  /\ sendMode = "unknown" /\ writeCh = <<>> /\ delivered = [c \in Clients |-> 0]
  /\ open = TRUE /\ peerSent = {} /\ incoming = <<>> /\ holder = None
  /\ reader = "off" /\ readErr = FALSE /\ inbox = <<>>
  /\ closed = {}
  /\ pc = [c \in Clients |-> IF c \in scene.clients THEN "idle" ELSE "absent"]
  /\ got = [c \in Clients |-> <<>>]

(* ------------------------------- sending ------------------------------- *)

(* A call of a connection without call, an event, the reply to a request.  *)
Sends(c) ==
  \/ c \in Publishers /\ pc[c] = "idle"
  \/ c \in Callers /\ ~hasCall /\ pc[c] = "idle"
  \/ c \in Receivers /\ ~hasCall /\ pc[c] = "received"

(* iaxConnSend: a place in writeCh, and then the wait for req.done.        *)
ConnSend(c) ==
  /\ Sends(c) /\ Len(writeCh) < WriteQueue
  /\ writeCh' = Append(writeCh, c)
  /\ pc' = [pc EXCEPT ![c] = "sending"]
  /\ UNCHANGED <<connection, reading, sendMode, delivered, closed, got>>

SendReturns(c, ok) ==
  pc' = [pc EXCEPT ![c] = IF ~ok THEN "failed" ELSE IF c \in Callers THEN "sent" ELSE "done"]

Deliver(c) == delivered' = [delivered EXCEPT ![c] = @ + 1]

(* iaxConnSendRaw with a mode, once it is known.                           *)
SendKnown(c) ==
  /\ sendMode # "unknown"
  /\ \/ open /\ sendMode \in accepts /\ Deliver(c) /\ SendReturns(c, TRUE)
     \/ UNCHANGED delivered /\ SendReturns(c, FALSE)
  /\ UNCHANGED sendMode

(* While it is unknown, the object first; if that fails, for whatever      *)
(* reason, the text.                                                       *)
SendProbing(c) ==
  /\ sendMode = "unknown"
  /\ \/ \E form \in accepts :
          open /\ sendMode' = form /\ Deliver(c) /\ SendReturns(c, TRUE)
     \/ UNCHANGED <<sendMode, delivered>> /\ SendReturns(c, FALSE)

WriterLoop ==
  /\ writeCh # <<>>
  /\ SendKnown(Head(writeCh)) \/ SendProbing(Head(writeCh))
  /\ writeCh' = Tail(writeCh)
  /\ UNCHANGED <<connection, reading, closed, got>>

(* ipc.conn.call and ipc.conn.reply send for themselves.                   *)
IpcSend(c) ==
  /\ hasCall
  /\ pc[c] = (IF c \in Callers THEN "idle" ELSE "received") /\ c \in Callers \cup Receivers
  /\ \/ /\ open /\ Deliver(c)
        /\ pc' = [pc EXCEPT ![c] = IF c \in Callers THEN "reading" ELSE "done"]
     \/ pc' = [pc EXCEPT ![c] = "failed"] /\ UNCHANGED delivered
  /\ UNCHANGED <<connection, reading, sendMode, writeCh, closed, got>>

(* ------------------------------ receiving ------------------------------ *)

MatchesResponse(c, m) ==
  \/ c \in Callers /\ m.kind = "response"
  \/ c \in Receivers /\ m.kind = "request"
  \/ c \in Subscribers /\ m.kind = "event" /\ m.of \in Topics[c]

(* The matchers of iaxConnCall, receive and next.                          *)
Matches(c, m) ==
  \/ c \in Callers /\ m = [kind |-> "response", of |-> c]
  \/ c \in Receivers /\ m.kind = "request"
  \/ c \in Subscribers /\ m.kind = "event" /\ m.of \in Topics[c]

(* A call after its send, receive, and next of a subscription: the reader  *)
(* is started once.                                                        *)
BeginMatch(c) ==
  /\ \/ c \in Callers /\ pc[c] = "sent"
     \/ c \in Receivers \cup Subscribers /\ pc[c] = "idle" /\ c \notin closed
  /\ reader' = IF reader = "off" THEN "running" ELSE reader
  /\ pc' = [pc EXCEPT ![c] = "checking"]
  /\ UNCHANGED <<connection, writing, incoming, holder, readErr, inbox, closed, got>>

NextOfClosed(s) ==
  /\ s \in closed /\ pc[s] = "idle"
  /\ pc' = [pc EXCEPT ![s] = "failed"]
  /\ UNCHANGED <<connection, writing, reading, closed, got>>

Close(s) ==
  /\ s \notin closed /\ pc[s] # "absent"
  /\ closed' = closed \cup {s}
  /\ UNCHANGED <<connection, writing, reading, pc, got>>

Matching(c) == {i \in 1 .. Len(inbox) : Matches(c, inbox[i])}
Newest(S) == {i \in S : \A j \in S : j <= i}
First(S) == {i \in S : \A j \in S : i <= j}
Without(s, i) == SubSeq(s, 1, i - 1) \o SubSeq(s, i + 1, Len(s))

AfterMatch(c) ==
  IF c \in Callers THEN "done" ELSE IF c \in Receivers THEN "received" ELSE "idle"

TakeMatchLeaving(c) ==
  /\ pc[c] = "checking"
  /\ \E i \in First(Matching(c)) : got' = [got EXCEPT ![c] = Append(@, inbox[i])]
  /\ pc' = [pc EXCEPT ![c] = AfterMatch(c)]
  /\ UNCHANGED <<connection, writing, reading, closed>>

(* iaxConnTakeInboxMatchLocked: the oldest message that matches.           *)
TakeMatch(c) ==
  /\ pc[c] = "checking"
  /\ \E i \in First(Matching(c)) :
       inbox' = Without(inbox, i) /\ got' = [got EXCEPT ![c] = Append(@, inbox[i])]
  /\ pc' = [pc EXCEPT ![c] = AfterMatch(c)]
  /\ UNCHANGED <<connection, writing, incoming, holder, reader, readErr, closed>>

MatchFails(c) ==
  /\ pc[c] = "checking" /\ Matching(c) = {} /\ readErr
  /\ pc' = [pc EXCEPT ![c] = "failed"]
  /\ UNCHANGED <<connection, writing, reading, closed, got>>

MatchWaits(c) ==
  /\ pc[c] = "checking" /\ Matching(c) = {} /\ ~readErr
  /\ pc' = [pc EXCEPT ![c] = "waiting"]
  /\ UNCHANGED <<connection, writing, reading, closed, got>>

(* ------------------------ reading the connection ----------------------- *)

Signal ==
  LET waiting == {c \in Clients : pc[c] = "waiting"} IN
  IF waiting = {} THEN UNCHANGED pc
  ELSE \E c \in waiting : pc' = [pc EXCEPT ![c] = "checking"]

Broadcast ==
  pc' = [c \in Clients |-> IF pc[c] = "waiting" THEN "checking" ELSE pc[c]]

EnterRecv(r) ==
  /\ holder = None
  /\ IF r = "reader" THEN reader = "running" ELSE pc[r] = "reading"
  /\ holder' = r
  /\ UNCHANGED <<connection, writing, incoming, reader, readErr, inbox, closed, pc, got>>

ReaderReceivesSilently ==
  /\ holder = "reader" /\ incoming # <<>> /\ Head(incoming).kind # "garbage"
  /\ inbox' = Append(inbox, Head(incoming)) /\ incoming' = Tail(incoming)
  /\ holder' = None
  /\ UNCHANGED <<connection, writing, reader, readErr, closed, pc, got>>

(* One turn of the reader loop: what it cannot decode ends it, as does the *)
(* end of the connection.                                                  *)
ReaderReceives ==
  /\ holder = "reader" /\ incoming # <<>> /\ Head(incoming).kind # "garbage"
  /\ inbox' = Append(inbox, Head(incoming)) /\ incoming' = Tail(incoming)
  /\ holder' = None
  /\ Broadcast
  /\ UNCHANGED <<connection, writing, reader, readErr, closed, got>>

ReaderEnds ==
  /\ holder = "reader"
  /\ \/ incoming # <<>> /\ Head(incoming).kind = "garbage" /\ incoming' = Tail(incoming)
     \/ ~open /\ UNCHANGED incoming
  /\ readErr' = TRUE /\ reader' = "ended" /\ holder' = None
  /\ Broadcast
  /\ UNCHANGED <<connection, writing, inbox, closed, got>>

(* ipc.conn.call takes whatever comes next for its response.               *)
IpcCallReceives(c) ==
  /\ holder = c /\ incoming # <<>>
  /\ incoming' = Tail(incoming) /\ holder' = None
  /\ got' = [got EXCEPT ![c] = Append(@, Head(incoming))]
  /\ pc' = [pc EXCEPT ![c] = IF Matches(c, Head(incoming)) THEN "done" ELSE "failed"]
  /\ UNCHANGED <<connection, writing, reader, readErr, inbox, closed>>

IpcCallEnds(c) ==
  /\ holder = c /\ ~open
  /\ holder' = None /\ pc' = [pc EXCEPT ![c] = "failed"]
  /\ UNCHANGED <<connection, writing, incoming, reader, readErr, inbox, closed, got>>

(* ------------------------------- the peer ------------------------------ *)

(* It answers what reached it once, publishes its events in order, asks,   *)
(* and sends one thing that cannot be decoded.                             *)
PeerMay(m) ==
  /\ m \notin peerSent
  /\ m.kind = "response" \/ m \in scene.peer
  /\ m.kind = "response" => delivered[m.of] > 0
  /\ m.kind = "event" => \A e \in 1 .. m.of - 1 : [kind |-> "event", of |-> e] \in peerSent

PeerSends ==
  /\ open
  /\ \E m \in Message :
       /\ PeerMay(m)
       /\ peerSent' = peerSent \cup {m} /\ incoming' = Append(incoming, m)
  /\ UNCHANGED <<scene, hasCall, accepts, open, writing, holder, reader, readErr, inbox, closed, pc, got>>

(* Either end closes it: what was sent may be read or lost.                *)
ConnectionEnds ==
  /\ open /\ open' = FALSE
  /\ UNCHANGED <<scene, hasCall, accepts, peerSent, writing, reading, closed, pc, got>>

(* ----------------------------------------------------------------------- *)

ReaderLoop == EnterRecv("reader") \/ ReaderReceives \/ ReaderEnds
IpcRecv(c) == EnterRecv(c) \/ IpcCallReceives(c) \/ IpcCallEnds(c)
RecvMatch(c) == TakeMatch(c) \/ MatchFails(c) \/ MatchWaits(c)

Next ==
  \/ WriterLoop \/ ReaderLoop
  \/ \E c \in Clients : ConnSend(c) \/ IpcSend(c) \/ BeginMatch(c) \/ RecvMatch(c)
  \/ \E c \in Callers : IpcRecv(c)
  \/ \E s \in Subscribers : NextOfClosed(s) \/ Close(s)
  \/ PeerSends \/ ConnectionEnds

(* The scheduler runs the goroutines that can run, each of which makes a   *)
(* bounded number of steps for a message; nobody has to start anything but *)
(* a call to go on, and the peer owes nothing.                             *)
Run ==
  \/ WriterLoop \/ ReaderLoop
  \/ \E c \in Clients : RecvMatch(c)
  \/ \E c \in Callers : BeginMatch(c) \/ IpcRecv(c)

Spec == Init /\ [][Next]_vars /\ WF_vars(Run)

(* ----------------------------- properties ------------------------------ *)

At(s, m) == {i \in DOMAIN s : s[i] = m}

(* Everything that arrives is unread, in the inbox, or with exactly one    *)
(* client: several goroutines read the connection and search the inbox.    *)
Accounted ==
  \A m \in peerSent : m.kind # "garbage" =>
    Cardinality(At(incoming, m)) + Cardinality(At(inbox, m))
      + Cardinality(UNION {{c} \X At(got[c], m) : c \in Clients}) = 1

(* A subscription gets its events in the order in which they were sent,    *)
(* whatever else is taken out of the inbox around them.                    *)
InOrder ==
  \A s \in Subscribers :
    LET all == got[s] \o inbox \o incoming
    IN  \A i, j \in DOMAIN all :
          i < j /\ Matches(s, all[i]) /\ Matches(s, all[j]) => all[i].of < all[j].of

(* Nobody sleeps on the condition variable while the inbox holds what it   *)
(* waits for, or after the reader has failed.                              *)
NoLostWakeup ==
  \A c \in Clients : pc[c] = "waiting" => Matching(c) = {} /\ ~readErr

(* A call whose request got out fails only with its connection, however    *)
(* many clients use the connection beside it.                              *)
ConnectionFailed == readErr \/ ~open \/ \E m \in peerSent : m.kind = "garbage"
CallFailsWithConnection ==
  \A c \in Callers : pc[c] = "failed" /\ delivered[c] > 0 => ConnectionFailed

(* The same where the calls go through the inbox, and each that returns    *)
(* has the response to its own request.                                    *)
Response(c) == [kind |-> "response", of |-> c]
CallsKeptApart ==
  ~hasCall => /\ CallFailsWithConnection
              /\ \A c \in Callers : pc[c] = "done" => got[c] = <<Response(c)>>

(* There, in the end, a response that has been read has reached its call.  *)
WasRead(m) == At(inbox, m) # {} \/ \E c \in Clients : At(got[c], m) # {}
AllTaken == \A c \in Callers : ~hasCall /\ WasRead(Response(c)) => pc[c] = "done"

-----------------------------------------------------------------------------
(* The inductive invariant behind these: a client sends once, and counts   *)
(* as delivered only behind that; a message is in one place, once; what a  *)
(* subscription has, what waits for it and what is to come follow on each  *)
(* other; a caller of the inbox has nothing but its response.              *)
Elements(q) == {q[i] : i \in DOMAIN q}
Distinct(q) == \A i, j \in DOMAIN q : q[i] = q[j] => i = j

Behind(c) ==
  \/ pc[c] \in {"done", "failed"}
  \/ c \in Callers /\ pc[c] \in {"sent", "checking", "waiting", "reading"}

SendInv ==
  /\ Distinct(writeCh) /\ \A c \in Elements(writeCh) : pc[c] = "sending"
  /\ \A c \in Clients : delivered[c] = 0 \/ (delivered[c] = 1 /\ Behind(c))

PlacesInv ==
  /\ Distinct(incoming) /\ Distinct(inbox) /\ \A c \in Clients : Distinct(got[c])
  /\ Elements(incoming) \cup Elements(inbox) \subseteq peerSent
  /\ Elements(incoming) \cap Elements(inbox) = {}
  /\ \A c \in Clients :
       /\ Elements(got[c]) \subseteq peerSent \ (Elements(incoming) \cup Elements(inbox))
       /\ \A d \in Clients \ {c} : Elements(got[c]) \cap Elements(got[d]) = {}
  /\ \A m \in peerSent : m.kind # "garbage" =>
       m \in Elements(incoming) \cup Elements(inbox) \/ \E c \in Clients : m \in Elements(got[c])

Rising(s, q) ==
  \A i, j \in DOMAIN q : i < j /\ Matches(s, q[i]) /\ Matches(s, q[j]) => q[i].of < q[j].of
Below(s, earlier, later) ==
  \A m \in earlier, n \in later : Matches(s, m) /\ Matches(s, n) => m.of < n.of

OrderInv ==
  /\ \A m \in peerSent : m.kind = "event" =>
       \A e \in 1 .. m.of - 1 : [kind |-> "event", of |-> e] \in peerSent
  /\ \A s \in Subscribers :
       /\ Rising(s, got[s]) /\ Rising(s, inbox) /\ Rising(s, incoming)
       /\ Below(s, Elements(got[s]), Elements(inbox) \cup Elements(incoming))
       /\ Below(s, Elements(inbox), Elements(incoming))

CallInv ==
  /\ \A c \in Callers : (holder = c => pc[c] = "reading") /\ (pc[c] = "reading" => hasCall)
  /\ ~hasCall => \A c \in Callers : got[c] = IF pc[c] = "done" THEN <<Response(c)>> ELSE <<>>
  /\ ~hasCall => CallFailsWithConnection

BusInv == SendInv /\ PlacesInv /\ OrderInv /\ CallInv /\ NoLostWakeup
=============================================================================
