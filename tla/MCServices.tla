----------------------------- MODULE MCServices -----------------------------
(* The pool manager, the message bus, the router and the servers side by   *)
(* side: they share no variable, and focus says which of them a behaviour  *)
(* moves.  Of the goroutines of the manager and of the persistence, cast   *)
(* are those that take part, the others never begin.                       *)
EXTENDS MCPoolManager, Sequences, TLC

CONSTANTS
  LastClosing, LastConfigurer, DataPath,
  Calling1, Calling2, Receiver, Publisher, Subscriber1, Subscriber2, Request,
  BusCallers, BusReceivers, BusPublishers, BusSubscribers, BusTopics, MaxEvents, BusScenes,
  WriteQueue,                                                           \* of Iax
  Events, Loaders, Configurers, Paths, PathOf, BatchSize, MaxOpens,    \* of IaxPersistence
  Letters, Star, MaxPattern, MaxTopic,                                  \* of IaxTopics
  HubReaders, HubIdle, HubSends, HubCloses, ChannelSize, Window,        \* of SseServer
  SendCalls, RecvCalls, Welcome, NoOne, Capacity                        \* of WebSocket

(* A path names a directory, and each that publishes or loads uses one.    *)
ASSUME ServicesAssumption ==
  /\ BatchSize \in Nat \ {0} /\ MaxOpens \in Nat
  /\ PathOf \in [Events \cup Loaders -> Paths]
  /\ Events \cap Loaders = {} /\ (Events \cup Loaders) \cap Configurers = {}
  /\ None \notin Paths \cup Configurers \cup 1 .. MaxOpens

(* A client does one of the things a connection is used for.               *)
ASSUME BusAssumption ==
  /\ BusCallers \cap (BusReceivers \cup BusPublishers \cup BusSubscribers) = {}
  /\ BusReceivers \cap (BusPublishers \cup BusSubscribers) = {} /\ BusPublishers \cap BusSubscribers = {}
  /\ BusTopics \in [BusSubscribers -> SUBSET (1 .. MaxEvents)] /\ MaxEvents \in Nat
  /\ {None, "reader"} \cap BusCallers = {} /\ None # "reader" /\ WriteQueue \in Nat

(* Calls are numbers, in the order in which they begin; a connection takes *)
(* the greeting.                                                           *)
ASSUME StreamsAssumption ==
  /\ IsFiniteSet(HubReaders) /\ HubSends \subseteq Nat /\ HubCloses \subseteq Nat
  /\ ChannelSize \in Nat /\ Window \in Nat
  /\ SendCalls \cup RecvCalls \subseteq Nat /\ Capacity \in Nat \ {0}

VARIABLES
  focus, cast,
  scene, hasCall, accepts, sendMode, writeCh, delivered, open, peerSent, incoming, holder, reader,
  readErr, inbox, closed, place, taken,
  enabled, path, setting, dbs, handle, store, lost, step, using, toClose, due, loaded,
  pattern, topic,
  setup, wants, middleware, pending, groups, routes, buffers, made, calls,                 \* of Express
  at, chain, routed, params, answer, crashed, log, installed, knew,
  server, listening, listener, servedBy, ended, closeCalled, mixed,                  \* of ExpressServer
  hubClosed, clients, channel, sealed, serving, writing, wire, link, heard,             \* of SseServer
  sending, shutting, sentTo, panicked,
  sent,                                                                                \* of SseFraming
  echo, greets, ioMu, task, toServer, toClient, peer, echoing, connection, answers, messages
                                                                                        \* of WebSocket

(* Everybody uses the same directory, while it is reconfigured.            *)
MCPathOf == [u \in Events \cup Loaders |-> DataPath]

(* Two calls at once; a call, a request and a subscription, each with what *)
(* its peer sends; two subscriptions that share an event.                  *)
Event(n) == [kind |-> "event", of |-> n]
Asked == [kind |-> "request", of |-> Request]
Garbage == [kind |-> "garbage", of |-> None]

MCTopics == [s \in {Subscriber1, Subscriber2} |-> IF s = Subscriber1 THEN {1, 2} ELSE {2}]
MCScenes ==
  {[clients |-> {Calling1, Calling2}, peer |-> {Event(1), Garbage}],
   [clients |-> {Calling1, Subscriber1}, peer |-> {Event(1), Event(2)}],
   [clients |-> {Calling1, Receiver}, peer |-> {Asked}],
   [clients |-> {Subscriber1, Subscriber2}, peer |-> {Event(1), Event(2), Garbage}],
   [clients |-> {Subscriber1, Publisher, Receiver}, peer |-> {Event(1), Asked}]}

ManagerCasts ==
  {Initializing \cup Submitting \cup Closing, Registering \cup Submitting \cup Spawning \cup LastClosing,
   Registering \cup Initializing \cup Spawning \cup LastClosing}
StoreCasts ==
  {Events \cup Loaders \cup {LastConfigurer}} \cup {{e} \cup Loaders \cup Configurers : e \in Events}

(* What a script may call on the router and what requests ask for: one     *)
(* record for each question.  A request changes nothing that another one   *)
(* reads, so that there is one.                                            *)
NamesOfParams == ":x" :> "x" @@ ":y" :> "y"
NamesOfWilds == "*" :> "wildcard" @@ "*r" :> "r"
PathsOver(parts, n) == UNION {[1 .. k -> parts] : k \in 1 .. n}

Get(p) == [method |-> "GET", path |-> p]
AtA == Get(<<"", "a">>)
AtB == Get(<<"", "b">>)

Blank ==
  [calls |-> {}, max |-> 0, clients |-> {"q"}, asks |-> {AtA}, guards |-> {<<"next">>},
   lists |-> {<< <<"body">> >>}, routes |-> {AtA}, prefixes |-> {}, stacks |-> {<<>>}]

(* A group with up to three middlewares, one that ends the request among   *)
(* them, and what is registered on it.                                     *)
Passing(n) == [i \in 1 .. n |-> <<"next">>]
Grouped ==
  [Blank EXCEPT !.calls = {"group", "groupUse", "groupHandle"}, !.max = 5,
     !.asks = {Get(<<"", "g", "a">>)}, !.prefixes = {<<"", "g">>},
     !.stacks = {Passing(n) : n \in 0 .. 3} \cup {<< <<"end">> >>}, !.routes = {AtA, AtB}]

(* Middleware that is installed while a request runs.                      *)
Guards ==
  [Blank EXCEPT !.calls = {"use", "handle"}, !.max = 4, !.guards = {<<"next">>, <<"end">>}]

(* Every pair of behaviours, of a middleware and of the first handler of a *)
(* route, before each of three others.                                     *)
Behaviours ==
  {<<"body">>, <<"status">>, <<"status", "body">>, <<"body", "panic">>, <<"status", "panic">>,
   <<"panic">>, <<"error">>, <<"redirect">>, <<"redirect", "panic">>, <<"body", "end">>, <<"next">>,
   <<"preflight">>}
Answering ==
  {[Blank EXCEPT !.calls = {"use", "handle"}, !.max = 2, !.guards = {guard}, !.lists = {<<first, then>>},
      !.asks = {[AtA EXCEPT !.method = m]}, !.routes = {[AtA EXCEPT !.method = "ANY"]}] :
     guard \in Behaviours, first \in Behaviours, then \in {<<"body">>, <<"panic">>, <<"error">>},
     m \in {"GET", "OPTIONS"}}

(* Every pattern with every path, and two patterns with one.               *)
Matching ==
  {[Blank EXCEPT !.calls = {"handle"}, !.max = 1, !.asks = {Get(asked)}, !.routes = {Get(p)}] :
     asked \in PathsOver({"a", "b", ""}, 3), p \in PathsOver({"a", "", ":x", ":y", "*r"}, 3)}
Choosing ==
  {[Blank EXCEPT !.calls = {"handle"}, !.max = 2, !.asks = {[method |-> m, path |-> asked]},
      !.routes = {Get(p) : p \in PathsOver({"a", ":x", "*"}, 2)} \cup {[method |-> "ANY", path |-> <<"*">>]}] :
     m \in {"GET", "PUT"}, asked \in PathsOver({"a", "b"}, 2)}

RouterSetups == UNION {{Grouped, Guards}, Answering, Matching, Choosing}

Bus == INSTANCE Iax WITH
  Callers <- BusCallers, Receivers <- BusReceivers, Publishers <- BusPublishers,
  Subscribers <- BusSubscribers, Topics <- BusTopics, Requests <- {Request}, Scenes <- BusScenes,
  pc <- place, got <- taken
Store == INSTANCE IaxPersistence WITH
  Publishers <- Events, pc <- step

(* Topics, events and the router, with what their modules prove of them.   *)
Match == INSTANCE IaxTopicsProofs
Framing == INSTANCE SseFramingProofs WITH MaxName <- 1, MaxData <- 4
Router == INSTANCE ExpressProofs WITH
  ParamName <- NamesOfParams, WildName <- NamesOfWilds, Setups <- RouterSetups,
  Parts <- {"", "a", "b", "g"} \cup DOMAIN NamesOfParams \cup DOMAIN NamesOfWilds,
  Methods <- {"GET", "PUT", "OPTIONS", "ANY"}
Listening == INSTANCE ExpressServer WITH Listens <- {1, 2}
(* Two clients of a server of events, one of which does not read; three    *)
(* sends and two recvs of one of WebSockets.                               *)
Hub == INSTANCE SseServer WITH
  Readers <- HubReaders, Idle <- HubIdle, Sends <- HubSends, Closes <- HubCloses
Socket == INSTANCE WebSocket

busVars ==
  <<scene, hasCall, accepts, sendMode, writeCh, delivered, open, peerSent, incoming, holder, reader,
    readErr, inbox, closed, place, taken>>
storeVars == <<enabled, path, setting, dbs, handle, store, lost, step, using, toClose, due, loaded>>
topicVars == <<pattern, topic>>
routerVars ==
  <<setup, wants, middleware, pending, groups, routes, buffers, made, calls,
    at, chain, routed, params, answer, crashed, log, installed, knew>>
listenVars == <<server, listening, listener, servedBy, ended, closeCalled, mixed>>
hubVars ==
  <<hubClosed, clients, channel, sealed, serving, writing, wire, link, heard,
    sending, shutting, sentTo, panicked>>
socketVars ==
  <<echo, greets, ioMu, task, toServer, toClient, peer, echoing, connection, answers, messages>>
webVars == <<routerVars, listenVars, hubVars, sent, socketVars>>
suiteVars == <<focus, cast, vars, busVars, storeVars, topicVars, webVars>>

(* Each of them begins in all its states, the others in one of theirs.     *)
SuiteInit ==
  /\ focus \in {"manager", "bus", "store", "topic", "router", "listen", "hub", "framing", "socket"}
  /\ cast \in (CASE focus = "manager" -> ManagerCasts [] focus = "store" -> StoreCasts
                 [] OTHER -> {{}})
  /\ Init /\ (focus # "manager" => configs = Applied({}))
  /\ Bus!Init
  /\ hasCall \/ Publisher \in scene.clients \/ accepts = {"string"}
  /\ focus # "bus" => hasCall /\ scene.peer = {Asked}
  /\ Store!Init
  /\ IF focus = "topic" THEN Match!Init ELSE pattern = <<>> /\ topic = <<>>
  /\ IF focus = "router" THEN Router!Init ELSE setup = Guards /\ Router!Empty
  /\ Listening!Init /\ Hub!Init
  /\ IF focus = "framing" THEN Framing!Init ELSE sent = [event |-> <<>>, data |-> <<>>]
  /\ Socket!Init /\ (focus # "socket" => echo /\ greets)

Steps(manager, bus, persistence) ==
  /\ \/ /\ focus = "manager" /\ manager /\ \A c \in Callers \ cast : pc'[c] = pc[c]
        /\ UNCHANGED <<busVars, storeVars, topicVars>>
     \/ /\ focus = "bus" /\ bus
        /\ UNCHANGED <<vars, storeVars, topicVars>>
     \/ /\ focus = "store" /\ persistence
        /\ \A c \in (Events \cup Loaders \cup Configurers) \ cast : step'[c] = step[c]
        /\ UNCHANGED <<vars, busVars, topicVars>>
  /\ UNCHANGED <<focus, cast, webVars>>

WebSteps(router, listen, hub, socket) ==
  /\ \/ focus = "router" /\ router /\ UNCHANGED <<listenVars, hubVars, socketVars>>
     \/ focus = "listen" /\ listen /\ UNCHANGED <<routerVars, hubVars, socketVars>>
     \/ focus = "hub" /\ hub /\ UNCHANGED <<routerVars, listenVars, socketVars>>
     \/ focus = "socket" /\ socket /\ UNCHANGED <<routerVars, listenVars, hubVars>>
  /\ UNCHANGED <<focus, cast, vars, busVars, storeVars, topicVars, sent>>

SuiteNext ==
  \/ Steps(Next, Bus!Next, Store!Next)
  \/ WebSteps(Router!Next, Listening!Next, Hub!Next, Socket!Next)

(* The fairness of the manager is that of its module, goroutine by         *)
(* goroutine.                                                              *)
SuiteSpec ==
  /\ SuiteInit /\ [][SuiteNext]_suiteVars
  /\ WF_suiteVars(Steps(\E c \in Callers : pc[c] # "idle" /\ CallStep(c), FALSE, FALSE))
  /\ WF_suiteVars(Steps(\E p \in PoolIds : PoolTerminates(p), FALSE, FALSE))
  /\ WF_suiteVars(Steps(\E c \in Closers : \E p \in PoolIds : CloseStep(c, p), FALSE, FALSE))
  /\ WF_suiteVars(Steps(FALSE, Bus!Run, FALSE)
                  \/ WebSteps(FALSE, Listening!Run, Hub!Run, Socket!Run))

(* Every setup is one of the code: handlers that end where they fail, paths *)
(* with something in them, groups of at most 32 middlewares.               *)
ASSUME RouterAssumption == Router!SetupsTyped

(* What the parts promise, under the names this run gives it.              *)
SuiteTypeOK ==
  TypeOK /\ Bus!TypeOK /\ Store!TypeOK /\ Router!TypeOK /\ Hub!TypeOK /\ Socket!TypeOK
(* In the end, every call of the manager has returned, and every response  *)
(* that was read has reached its call.                                     *)
CallersReturn == <>[](AllReturned /\ Bus!AllTaken)
(* Every message that has arrived is with one client or in the inbox, once *)
(* and in its order, no call is answered with another's response, and none *)
(* sleeps on the condition variable for a message that lies in the inbox.  *)
Delivered == Bus!Accounted /\ Bus!InOrder /\ Bus!CallsKeptApart /\ Bus!NoLostWakeup
CallFailsWithConnection == Bus!CallFailsWithConnection
(* An accepted event is on disk or in a batch somebody will write, less    *)
(* than one batch is at risk, and a load misses nothing accepted before;   *)
(* an open handle is in the table, or somebody is closing it.              *)
Durable == Store!AcceptedKept /\ Store!AtRisk /\ Store!LoadComplete /\ Store!HandlesOwned
(* A pattern takes the topics it stands for, and an event is read in the   *)
(* words it was written in.                                                *)
TextsRead == Match!TopicMatched /\ Framing!Framed
(* A request passes the middleware that was installed when it arrived, in  *)
(* its order, and the handlers of the first route that fits it, until one  *)
(* ends it; its answer is what the first of them said.                     *)
Served == Router!Served
(* What arrives of a stream is the beginning of what was sent, in order,   *)
(* and a send counts those who get it; a stream is closed once.            *)
Streamed == Hub!InOrder /\ Hub!Counted /\ Hub!ClosedOnce /\ Socket!EchoedInOrder
(* In the end, what was sent to a client that reads has arrived, and what  *)
(* was closed has ended: the listener, every goroutine of the server, and  *)
(* every call that waits for a message or for the mutex.  (Each of these   *)
(* stays as it is, so that one formula says it of all.)                    *)
ConnectionsEnd == <>[](Hub!AllRead /\ Hub!AllEnded /\ Socket!AllReturned /\ Listening!AllClosed)
=============================================================================
