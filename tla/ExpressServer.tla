---------------------------- MODULE ExpressServer ----------------------------
(***************************************************************************)
(* The listen method of an application, and the close of what it returns:  *)
(* createExpressAppObject of src/ialang/pkg/lang/runtime/builtin/express.go*)
(* over the servers of net/http.  The variable server is the application's *)
(* and not the call's.                                                     *)
(***************************************************************************)
EXTENDS Integers

CONSTANT Listens   \* calls of listen, numbered from 1; each makes a server

VARIABLES
  server,     \* the variable: the call that made the server, 0 for nil
  listening,  \* of a call: idle, binding, listening, serving, failed
  listener,   \* of a call: none, open, closed
  servedBy,   \* which server serves a listener, 0 for none
  ended,      \* servers that were closed
  closeCalled, \* calls whose close was called
  mixed       \* calls that another one came after while they had a listener

vars == <<server, listening, listener, servedBy, ended, closeCalled, mixed>>

Init ==
  /\ server = 0 /\ ended = {} /\ closeCalled = {} /\ mixed = {}
  /\ listening = [k \in Listens |-> "idle"]
  /\ listener = [k \in Listens |-> "none"]
  /\ servedBy = [k \in Listens |-> 0]

At(k, here, there) == listening[k] = here /\ listening' = [listening EXCEPT ![k] = there]

(* server = &http.Server{...}                                              *)
Assign(k) ==
  /\ At(k, "idle", "binding") /\ server' = k
  /\ mixed' = mixed \cup {j \in Listens : listening[j] \notin {"idle", "failed"} /\ listener[j] # "closed"}
  /\ UNCHANGED <<listener, servedBy, ended, closeCalled>>

(* net.Listen, which fails when the address is in use.                     *)
Bind(k) ==
  /\ \/ At(k, "binding", "listening") /\ listener' = [listener EXCEPT ![k] = "open"]
     \/ At(k, "binding", "failed") /\ UNCHANGED listener
  /\ UNCHANGED <<server, servedBy, ended, closeCalled, mixed>>

(* The goroutine: server.Serve(ln), of the server the variable holds now.  *)
(* A server that was closed closes the listener.                           *)
Serve(k) ==
  /\ At(k, "listening", "serving")
  /\ servedBy' = [servedBy EXCEPT ![k] = server]
  /\ listener' = IF server \in ended THEN [listener EXCEPT ![k] = "closed"] ELSE listener
  /\ UNCHANGED <<server, ended, closeCalled, mixed>>

(* close of the object that call k returned, which may be called again.    *)
Close(k) ==
  /\ listening[k] \in {"listening", "serving"}
  /\ closeCalled' = closeCalled \cup {k}
  /\ ended' = ended \cup ({server} \ {0})
  /\ listener' = [j \in Listens |-> IF servedBy[j] # 0 /\ servedBy[j] = server THEN "closed" ELSE listener[j]]
  /\ UNCHANGED <<server, listening, servedBy, mixed>>

Run == \E k \in Listens : Bind(k) \/ Serve(k)
Next == Run \/ \E k \in Listens : Assign(k) \/ Close(k)
Spec == Init /\ [][Next]_vars /\ WF_vars(Run)

(* In the end, a listener whose close was called is closed, though its     *)
(* goroutine may have begun later than that; unless listen was called      *)
(* again before: then the close ends the server of that call, even of one  *)
(* that failed, or the goroutine serves with it.                           *)
AllClosed == \A k \in closeCalled \ mixed : listener[k] = "closed"
=============================================================================
