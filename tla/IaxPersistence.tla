--------------------------- MODULE IaxPersistence ---------------------------
(***************************************************************************)
(* The persisted events of the message bus                                 *)
(* (src/ialang/pkg/lang/runtime/builtin/iax.go): a table of LevelDB        *)
(* handles by path, each with a batch of events that a ticker, a full      *)
(* batch, a load or its close writes.  Publishers append, loaders read,    *)
(* and configurePersistence closes handles that others hold.               *)
(*                                                                         *)
(* LevelDB itself is external: a directory is opened by one handle at a    *)
(* time, a write is atomic and may fail, and a closed handle answers       *)
(* every use with an error.                                                *)
(***************************************************************************)
EXTENDS Integers, FiniteSets

CONSTANTS
  Publishers,     (* each appends one event, itself                          *)
  Loaders, Configurers,
  Paths,
  PathOf,         (* the path a publisher or loader uses: the configured one *)
                  (* or that of its options                                  *)
  BatchSize,      (* iaxPersistenceBatchSize                                 *)
  MaxOpens,       (* bound: handles opened                                   *)
  None

Handles == 1 .. MaxOpens
Users == Publishers \cup Loaders

VARIABLES
  enabled, path,  (* the configuration                                       *)
  setting,        (* who holds its lock, in Set                              *)
  dbs,            (* the table                                               *)
  handle,         (* every handle ever opened                                *)
  store,          (* of each path, the events on disk                        *)
  lost,           (* the events whose batch could not be written             *)
  pc,
  using,          (* of a user, its handle                                   *)
  toClose,        (* of a configurer, the handles it has still to close      *)
  due, loaded     (* of a loader: accepted before it began, and what it read *)

config == <<enabled, path, setting>>
files == <<dbs, handle, store, lost>>
users == <<using, due, loaded>>
vars == <<config, files, pc, users, toClose>>

(* "flushed": has closed the batch but not yet LevelDB.                    *)
HandleState == {"unused", "open", "flushed", "closed"}
UnusedHandle == [path |-> None, state |-> "unused", batch |-> {}]
Location ==
  {"idle", "opening", "open", "reading", "accepted", "loaded", "failed", "set", "cleared",
   "closingAll", "done"}

TypeOK ==
  /\ enabled \in BOOLEAN /\ path \in Paths \cup {None} /\ setting \in Configurers \cup {None}
  /\ dbs \in [Paths -> Handles \cup {None}]
  /\ handle \in [Handles -> [path : Paths \cup {None}, state : HandleState, batch : SUBSET Publishers]]
  /\ store \in [Paths -> SUBSET Publishers] /\ lost \subseteq Publishers
  /\ pc \in [Users \cup Configurers -> Location]
  /\ using \in [Users -> Handles \cup {None}]
  /\ toClose \in [Configurers -> SUBSET Handles]
  /\ due \in [Loaders -> SUBSET Publishers] /\ loaded \in [Loaders -> SUBSET Publishers]

Init ==
  /\ enabled = FALSE /\ path = None /\ setting = None
  /\ dbs = [p \in Paths |-> None] /\ handle = [h \in Handles |-> UnusedHandle]
  /\ store = [p \in Paths |-> {}] /\ lost = {}
  /\ pc = [c \in Users \cup Configurers |-> "idle"]
  /\ using = [u \in Users |-> None]
  /\ toClose = [c \in Configurers |-> {}]
  /\ due = [l \in Loaders |-> {}] /\ loaded = [l \in Loaders |-> {}]

Goto(c, place) == pc' = [pc EXCEPT ![c] = place]
AcceptedOn(p) == {e \in Publishers : pc[e] = "accepted" /\ PathOf[e] = p}

(* The configuration is read under its lock, whichever path is then used.  *)
Resolve(u) ==
  /\ pc[u] = "idle" /\ setting = None
  /\ due' = [l \in Loaders |-> IF l = u THEN AcceptedOn(PathOf[l]) ELSE due[l]]
  /\ Goto(u, "opening")
  /\ UNCHANGED <<config, files, using, loaded, toClose>>

(* openDB: the handle of the table, or a new one, unless the directory is  *)
(* still open.                                                             *)
FoundDB(u) ==
  /\ pc[u] = "opening" /\ dbs[PathOf[u]] # None
  /\ using' = [using EXCEPT ![u] = dbs[PathOf[u]]]
  /\ Goto(u, "open")
  /\ UNCHANGED <<config, files, due, loaded, toClose>>

OpenOn(p) == {h \in Handles : handle[h].path = p /\ handle[h].state \in {"open", "flushed"}}
Unused == {h \in Handles : handle[h].state = "unused"}

OpenDB(u) ==
  LET p == PathOf[u] IN
  /\ pc[u] = "opening" /\ dbs[p] = None /\ OpenOn(p) = {}
  /\ \E h \in Unused :
       /\ \A g \in Unused : h <= g
       /\ handle' = [handle EXCEPT ![h] = [path |-> p, state |-> "open", batch |-> {}]]
       /\ dbs' = [dbs EXCEPT ![p] = h] /\ using' = [using EXCEPT ![u] = h]
  /\ Goto(u, "open")
  /\ UNCHANGED <<config, store, lost, due, loaded, toClose>>

OpenFails(u) ==
  /\ pc[u] = "opening" /\ dbs[PathOf[u]] = None /\ OpenOn(PathOf[u]) # {}
  /\ Goto(u, "failed")
  /\ UNCHANGED <<config, files, users, toClose>>

(* flushLocked of the batch that handle h then has: it is gone, written or *)
(* not.                                                                    *)
Flushed(h, batch, state, written) ==
  /\ handle' = [handle EXCEPT ![h] = [@ EXCEPT !.batch = {}, !.state = state]]
  /\ IF written THEN /\ store' = [store EXCEPT ![handle[h].path] = @ \cup batch]
                     /\ UNCHANGED lost
                ELSE lost' = lost \cup batch /\ UNCHANGED store

AppendEventLate(e) ==
  LET h == using[e]
      batch == handle[h].batch \cup {e}
  IN
  /\ pc[e] = "open" /\ handle[h].state = "open"
  /\ IF Cardinality(batch) <= BatchSize
     THEN /\ handle' = [handle EXCEPT ![h] = [@ EXCEPT !.batch = batch]]
          /\ Goto(e, "accepted") /\ UNCHANGED <<store, lost>>
     ELSE \E written \in BOOLEAN :
            /\ Flushed(h, batch, "open", written)
            /\ Goto(e, IF written THEN "accepted" ELSE "failed")
  /\ UNCHANGED <<config, dbs, users, toClose>>

(* append: the event joins the batch, which is written when it is full.    *)
AppendEvent(e) ==
  LET h == using[e]
      batch == handle[h].batch \cup {e}
  IN
  /\ pc[e] = "open" /\ handle[h].state = "open"
  /\ IF Cardinality(batch) < BatchSize
     THEN /\ handle' = [handle EXCEPT ![h] = [@ EXCEPT !.batch = batch]]
          /\ Goto(e, "accepted") /\ UNCHANGED <<store, lost>>
     ELSE \E written \in BOOLEAN :
            /\ Flushed(h, batch, "open", written)
            /\ Goto(e, IF written THEN "accepted" ELSE "failed")
  /\ UNCHANGED <<config, dbs, users, toClose>>

AppendUnchecked(e) ==
  /\ pc[e] = "open" /\ handle[using[e]].state \in {"flushed", "closed"}
  /\ handle' = [handle EXCEPT ![using[e]] = [@ EXCEPT !.batch = @ \cup {e}]]
  /\ Goto(e, "accepted")
  /\ UNCHANGED <<config, dbs, store, lost, users, toClose>>

AppendToClosed(e) ==
  /\ pc[e] = "open" /\ handle[using[e]].state \in {"flushed", "closed"}
  /\ Goto(e, "failed")
  /\ UNCHANGED <<config, files, users, toClose>>

(* A turn of the flush loop, whose error nobody sees.                      *)
FlushTick(h) ==
  /\ handle[h].state = "open" /\ handle[h].batch # {}
  /\ \E written \in BOOLEAN : Flushed(h, handle[h].batch, "open", written)
  /\ UNCHANGED <<config, dbs, pc, users, toClose>>

LoadUnflushed(l) ==
  /\ pc[l] = "open"
  /\ Goto(l, "reading")
  /\ UNCHANGED <<config, files, users, toClose>>

(* loadEvents: flush what is open, then iterate over the store.            *)
LoadFlush(l) ==
  LET h == using[l] IN
  /\ pc[l] = "open"
  /\ IF handle[h].state = "open" /\ handle[h].batch # {}
     THEN \E written \in BOOLEAN :
            /\ Flushed(h, handle[h].batch, "open", written)
            /\ Goto(l, IF written THEN "reading" ELSE "failed")
     ELSE Goto(l, "reading") /\ UNCHANGED <<handle, store, lost>>
  /\ UNCHANGED <<config, dbs, users, toClose>>

LoadIterate(l) ==
  /\ pc[l] = "reading" /\ handle[using[l]].state # "closed"
  /\ loaded' = [loaded EXCEPT ![l] = store[PathOf[l]]]
  /\ Goto(l, "loaded")
  /\ UNCHANGED <<config, files, using, due, toClose>>

LoadOfClosed(l) ==
  /\ pc[l] = "reading" /\ handle[using[l]].state = "closed"
  /\ Goto(l, "failed")
  /\ UNCHANGED <<config, files, users, toClose>>

(* configurePersistence.  Set takes the previous path out of the table     *)
(* when it changes or persistence goes off.                                *)
InTable(S) == {dbs[p] : p \in S} \ {None}
Removed(S) == dbs' = [p \in Paths |-> IF p \in S THEN None ELSE dbs[p]]

SetConfigOnly(c) ==
  /\ pc[c] = "idle" /\ setting = None
  /\ \E on \in BOOLEAN, p \in Paths \cup {None} :
       LET gone == IF path # None /\ (p = None \/ p # path \/ ~on) THEN {path} ELSE {} IN
       /\ on => p # None
       /\ enabled' = on /\ path' = p /\ setting' = c
       /\ Removed(gone)
  /\ Goto(c, "set")
  /\ UNCHANGED <<handle, store, lost, users, toClose>>

SetConfig(c) ==
  /\ pc[c] = "idle" /\ setting = None
  /\ \E on \in BOOLEAN, p \in Paths \cup {None} :
       LET gone == IF path # None /\ (p = None \/ p # path \/ ~on) THEN {path} ELSE {} IN
       /\ on => p # None
       /\ enabled' = on /\ path' = p /\ setting' = c
       /\ toClose' = [toClose EXCEPT ![c] = InTable(gone)] /\ Removed(gone)
  /\ Goto(c, "set")
  /\ UNCHANGED <<handle, store, lost, users>>

CloseBatchUnwritten(c) ==
  \E h \in toClose[c] :
    /\ handle[h].state = "open"
    /\ handle' = [handle EXCEPT ![h] = [@ EXCEPT !.state = "flushed"]]
    /\ UNCHANGED <<config, dbs, store, lost, pc, users, toClose>>

(* pdb.close: the last flush under its lock, LevelDB after it.             *)
CloseBatch(c) ==
  \E h \in toClose[c] :
    /\ handle[h].state = "open"
    /\ \E written \in BOOLEAN : Flushed(h, handle[h].batch, "flushed", written \/ handle[h].batch = {})
    /\ UNCHANGED <<config, dbs, pc, users, toClose>>

CloseLevelDB(c) ==
  \E h \in toClose[c] :
    /\ handle[h].state = "flushed"
    /\ handle' = [handle EXCEPT ![h] = [@ EXCEPT !.state = "closed"]]
    /\ toClose' = [toClose EXCEPT ![c] = @ \ {h}]
    /\ UNCHANGED <<config, dbs, store, lost, pc, users>>

(* Persistence without a path: Set closes the others too.                  *)
ClearInSet(c) ==
  /\ pc[c] = "set" /\ toClose[c] = {} /\ path = None
  /\ toClose' = [toClose EXCEPT ![c] = InTable(Paths)] /\ Removed(Paths)
  /\ Goto(c, "cleared")
  /\ UNCHANGED <<config, handle, store, lost, users>>

(* Set has returned, and closeAllDB empties the table if persistence is    *)
(* off; it does so without the lock of the configuration.                  *)
SetReturns(c) ==
  /\ pc[c] = (IF path = None THEN "cleared" ELSE "set") /\ toClose[c] = {}
  /\ setting' = None
  /\ Goto(c, IF enabled THEN "done" ELSE "closingAll")
  /\ UNCHANGED <<enabled, path, files, users, toClose>>

CloseAllDB(c) ==
  /\ pc[c] = "closingAll"
  /\ toClose' = [toClose EXCEPT ![c] = InTable(Paths)] /\ Removed(Paths)
  /\ Goto(c, "done")
  /\ UNCHANGED <<config, handle, store, lost, users>>

Configure(c) == CloseBatch(c) \/ CloseLevelDB(c) \/ ClearInSet(c) \/ SetReturns(c) \/ CloseAllDB(c)
Use(u) == FoundDB(u) \/ OpenDB(u) \/ OpenFails(u)
Publish(e) == AppendEvent(e) \/ AppendToClosed(e)
Load(l) == LoadFlush(l) \/ LoadIterate(l) \/ LoadOfClosed(l)

Next ==
  \/ \E u \in Users : Resolve(u) \/ Use(u)
  \/ \E e \in Publishers : Publish(e)
  \/ \E l \in Loaders : Load(l)
  \/ \E c \in Configurers : SetConfig(c) \/ Configure(c)
  \/ \E h \in Handles : FlushTick(h)

Spec == Init /\ [][Next]_vars

(* ----------------------------- properties ------------------------------ *)

Pending(p) ==
  UNION {handle[h].batch : h \in {h \in Handles : handle[h].path = p /\ handle[h].state = "open"}}

(* An event whose publish has returned without an error is on disk, in a   *)
(* batch that will be written, or in one whose write failed: never in the  *)
(* batch of a handle somebody has closed meanwhile.                        *)
AcceptedKept ==
  \A p \in Paths : AcceptedOn(p) \subseteq store[p] \cup Pending(p) \cup lost

(* A crash can cost a path less than one batch.                            *)
AtRisk ==
  \A p \in Paths : Cardinality(AcceptedOn(p) \ (store[p] \cup lost)) < BatchSize

(* A load that succeeds returns all that was accepted before it began,     *)
(* although its handle may be closed under it.                             *)
LoadComplete ==
  \A l \in Loaders : pc[l] = "loaded" => due[l] \subseteq loaded[l] \cup lost

(* An open handle is in the table, or someone is closing it.               *)
HandlesOwned ==
  \A h \in Handles : handle[h].state \in {"open", "flushed"} =>
    dbs[handle[h].path] = h \/ \E c \in Configurers : h \in toClose[c]

(* The inductive invariant behind them.  A directory has one handle; one   *)
(* in the table is open and nobody closes it; a batch that is not full is  *)
(* all an open handle holds back; and what a load owes is on disk once it  *)
(* has flushed, unless its handle was closed under it.                     *)
Live(h) == handle[h].state \in {"open", "flushed"}

HandlesInv ==
  \A h \in Handles :
    /\ IsFiniteSet(handle[h].batch) /\ Cardinality(handle[h].batch) < BatchSize
    /\ handle[h].state # "open" => handle[h].batch = {}
    /\ handle[h].state # "unused" => handle[h].path \in Paths

OneOpen == \A g, h \in Handles : Live(g) /\ Live(h) /\ handle[g].path = handle[h].path => g = h

TableInv ==
  \A p \in Paths : dbs[p] # None =>
    /\ handle[dbs[p]].path = p /\ handle[dbs[p]].state = "open"
    /\ \A c \in Configurers : dbs[p] \notin toClose[c]

ClosingInv ==
  \A c \in Configurers :
    /\ pc[c] \in {"idle", "closingAll"} => toClose[c] = {}
    /\ \A h \in toClose[c] : handle[h].state # "unused"

UsersInv ==
  \A u \in Users :
    /\ pc[u] \in {"open", "reading"} => using[u] # None
    /\ using[u] # None => handle[using[u]].path = PathOf[u] /\ handle[using[u]].state # "unused"

LoadsInv ==
  \A l \in Loaders :
    /\ due[l] \subseteq AcceptedOn(PathOf[l])
    /\ pc[l] = "reading" /\ handle[using[l]].state # "closed" => due[l] \subseteq store[PathOf[l]] \cup lost

StoreInv ==
  HandlesInv /\ OneOpen /\ TableInv /\ ClosingInv /\ UsersInv /\ LoadsInv
    /\ AcceptedKept /\ HandlesOwned /\ LoadComplete
=============================================================================
