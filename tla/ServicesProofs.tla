--------------------------- MODULE ServicesProofs ---------------------------
(***************************************************************************)
(* Proofs about the parts of the services that MCServices puts side by     *)
(* side, each under its own specification: the persisted events of the     *)
(* message bus, for any number of publishers, loaders, configurers, paths  *)
(* and handles and any size of a batch; what the bus itself delivers, for  *)
(* any number of calls, receivers, publishers and subscriptions; and what  *)
(* arrives of the streams of the two servers of the builtins, for any      *)
(* number of clients and calls and any size of their queues.  With the     *)
(* proofs about the pool manager, the parts type the whole suite.          *)
(***************************************************************************)
EXTENDS MCServices, PoolManagerProofs, FiniteSetTheorems, SequenceTheorems, TLAPS

-----------------------------------------------------------------------------
(* The persisted events.                                                   *)

(* An instance's operators on finite sets are those of the library.        *)
LEMMA StoreFinite == \A S : Store!IsFiniteSet(S) <=> IsFiniteSet(S)
BY DEF Store!IsFiniteSet, IsFiniteSet

LEMMA StoreCardinality == \A S : Store!Cardinality(S) = Cardinality(S)
BY DEF Store!Cardinality, Cardinality, Store!IsFiniteSet, IsFiniteSet

LEMMA StoreInit == Store!Init => Store!TypeOK /\ Store!StoreInv
<1> SUFFICES ASSUME Store!Init PROVE Store!TypeOK /\ Store!StoreInv
  OBVIOUS
<1> USE ServicesAssumption DEF Store!Init, Store!UnusedHandle, Store!Users, Store!Handles
<1>1. Store!TypeOK
  BY DEF Store!TypeOK, Store!HandleState, Store!Location
<1>2. Store!HandlesInv
  <2>1. \A h \in Store!Handles : handle[h] = [path |-> None, state |-> "unused", batch |-> {}]
    OBVIOUS
  <2>2. IsFiniteSet({}) /\ Cardinality({}) = 0
    BY FS_EmptySet
  <2>3. Store!IsFiniteSet({}) /\ Store!Cardinality({}) < BatchSize
    BY <2>2, StoreFinite, StoreCardinality
  <2>4. QED
    BY <2>1, <2>3 DEF Store!HandlesInv
<1>3. Store!OneOpen /\ Store!TableInv /\ Store!ClosingInv /\ Store!UsersInv
  BY DEF Store!OneOpen, Store!Live, Store!TableInv, Store!ClosingInv, Store!UsersInv
<1>4. \A p \in Paths : Store!AcceptedOn(p) = {}
  BY DEF Store!AcceptedOn
<1>5. Store!LoadsInv
  BY DEF Store!LoadsInv
<1>6. Store!AcceptedKept /\ Store!HandlesOwned /\ Store!LoadComplete
  BY <1>4 DEF Store!AcceptedKept, Store!HandlesOwned, Store!LoadComplete
<1>7. QED
  BY <1>1, <1>2, <1>3, <1>5, <1>6 DEF Store!StoreInv

(* The batch of the open handle of a path is all that is pending on it.    *)
LEMMA PendingIsBatch ==
  ASSUME Store!OneOpen, NEW h \in Store!Handles, Store!Live(h)
  PROVE  Store!Pending(handle[h].path) = IF handle[h].state = "open" THEN handle[h].batch ELSE {}
BY DEF Store!OneOpen, Store!Live, Store!Pending

(* What is on disk, will be written, or could not be.                      *)
Kept(p) == store[p] \cup Store!Pending(p) \cup lost

FilesTyped ==
  /\ dbs \in [Paths -> Store!Handles \cup {None}]
  /\ handle \in [Store!Handles -> [path : Paths \cup {None}, state : Store!HandleState, batch : SUBSET Events]]
  /\ store \in [Paths -> SUBSET Events] /\ lost \subseteq Events

(* The handles go on: batches grow, are written or lost, and are closed    *)
(* when they are out of the table.                                         *)
HandleMoves(h) ==
  /\ handle'[h].path = handle[h].path
  /\ handle'[h].state = handle[h].state \/ handle[h].state \in {"open", "flushed"}
  /\ handle'[h].state \in {"unused", "open"} => handle'[h].state = handle[h].state
  /\ handle[h].state # "open" => handle'[h].batch = handle[h].batch
  /\ handle'[h].state # handle[h].state => \A p \in Paths : dbs[p] # h
  /\ IsFiniteSet(handle'[h].batch) /\ Cardinality(handle'[h].batch) < BatchSize
  /\ handle'[h].state # "open" => handle'[h].batch = {}
  /\ handle[h].batch \subseteq handle'[h].batch \cup store'[handle[h].path] \cup lost'

FilesMove ==
  /\ dbs' = dbs
  /\ lost \subseteq lost' /\ \A p \in Paths : store[p] \subseteq store'[p]
  /\ \A h \in Store!Handles : HandleMoves(h)
  /\ \A c \in Configurers :
       /\ toClose'[c] \subseteq toClose[c]
       /\ \A h \in toClose[c] \ toClose'[c] : handle'[h].state = "closed"

(* What every step keeps of the files.                                     *)
FilesKept ==
  /\ Store!HandlesInv' /\ Store!OneOpen' /\ Store!TableInv' /\ Store!HandlesOwned'
  /\ lost \subseteq lost'
  /\ \A p \in Paths : store[p] \subseteq store'[p] /\ Kept(p) \subseteq Kept(p)'
  /\ \A h \in Store!Handles : handle[h].state # "unused" =>
       /\ handle'[h].path = handle[h].path /\ handle'[h].state # "unused"
       /\ handle[h].state = "closed" => handle'[h].state = "closed"

LEMMA FilesFrame ==
  ASSUME FilesTyped, FilesTyped', Store!HandlesInv, Store!OneOpen, Store!TableInv, Store!HandlesOwned, FilesMove
  PROVE  FilesKept
<1>1. Store!HandlesInv'
  <2> SUFFICES ASSUME NEW h \in Store!Handles
               PROVE  /\ IsFiniteSet(handle'[h].batch) /\ Cardinality(handle'[h].batch) < BatchSize
                      /\ handle'[h].state # "open" => handle'[h].batch = {}
                      /\ handle'[h].state # "unused" => handle'[h].path \in Paths
    BY StoreFinite, StoreCardinality DEF Store!HandlesInv
  <2>1. HandleMoves(h) /\ (handle[h].state # "unused" => handle[h].path \in Paths)
    BY DEF FilesMove, Store!HandlesInv
  <2>2. QED
    BY <2>1 DEF HandleMoves
<1>2. Store!OneOpen'
  BY DEF FilesMove, HandleMoves, Store!OneOpen, Store!Live
<1>3. Store!TableInv'
  <2> SUFFICES ASSUME NEW p \in Paths, dbs'[p] # None
               PROVE  /\ handle'[dbs'[p]].path = p /\ handle'[dbs'[p]].state = "open"
                      /\ \A c \in Configurers : dbs'[p] \notin toClose'[c]
    BY DEF Store!TableInv
  <2>1. dbs'[p] = dbs[p] /\ dbs[p] \in Store!Handles
    BY DEF FilesMove, FilesTyped
  <2>2. HandleMoves(dbs[p])
    BY <2>1 DEF FilesMove
  <2>3. QED
    BY <2>1, <2>2 DEF HandleMoves, FilesMove, Store!TableInv
<1>4. Store!HandlesOwned'
  <2> SUFFICES ASSUME NEW h \in Store!Handles, handle'[h].state \in {"open", "flushed"}
               PROVE  dbs'[handle'[h].path] = h \/ \E c \in Configurers : h \in toClose'[c]
    BY DEF Store!HandlesOwned
  <2>1. handle'[h].path = handle[h].path /\ handle[h].state \in {"open", "flushed"} /\ dbs' = dbs
    BY DEF FilesMove, HandleMoves, FilesTyped, Store!HandleState
  <2>2. QED
    BY <2>1 DEF FilesMove, Store!HandlesOwned
<1>5. ASSUME NEW p \in Paths PROVE Kept(p) \subseteq Kept(p)'
  <2>1. ASSUME NEW h \in Store!Handles, handle[h].path = p, handle[h].state = "open"
        PROVE  handle[h].batch \subseteq Kept(p)'
    <3>1. HandleMoves(h)
      BY DEF FilesMove
    <3>2. handle'[h].batch \subseteq Store!Pending(p)' \cup {}
      BY <2>1, <3>1 DEF HandleMoves, Store!Pending
    <3>3. QED
      BY <2>1, <3>1, <3>2 DEF HandleMoves, Kept
  <2>2. Store!Pending(p) \subseteq Kept(p)'
    BY <2>1 DEF Store!Pending
  <2>3. QED
    BY <2>2 DEF Kept, FilesMove
<1>6. \A h \in Store!Handles : handle[h].state # "unused" =>
        /\ handle'[h].path = handle[h].path /\ handle'[h].state # "unused"
        /\ handle[h].state = "closed" => handle'[h].state = "closed"
  BY DEF FilesMove, HandleMoves
<1>7. QED
  BY <1>1, <1>2, <1>3, <1>4, <1>5, <1>6 DEF FilesKept, FilesMove

LEMMA FilesSame ==
  ASSUME Store!TypeOK, Store!StoreInv, UNCHANGED <<dbs, handle, store, lost, toClose>>
  PROVE  FilesKept
<1>1. Store!HandlesInv' /\ Store!OneOpen' /\ Store!TableInv' /\ Store!HandlesOwned'
  BY DEF Store!StoreInv, Store!HandlesInv, Store!OneOpen, Store!Live, Store!TableInv, Store!HandlesOwned
<1>2. QED
  BY <1>1 DEF FilesKept, Kept, Store!Pending

(* The users: who was accepted stays so, a handle that is taken is one of  *)
(* the user's path, a load that reads has flushed.                         *)
UsersMove ==
  /\ \A e \in Events :
       /\ step[e] = "accepted" => step'[e] = "accepted"
       /\ step'[e] = "accepted" => step[e] = "accepted" \/ e \in Kept(PathOf[e])'
  /\ \A u \in Events \cup Loaders :
       /\ step'[u] \in {"open", "reading"} => using'[u] # None
       /\ \/ using'[u] = using[u]
          \/ handle'[using'[u]].path = PathOf[u] /\ handle'[using'[u]].state # "unused"
  /\ \A l \in Loaders :
       /\ due'[l] = due[l] \/ due'[l] = Store!AcceptedOn(PathOf[l])
       /\ step'[l] = "reading" /\ handle'[using'[l]].state # "closed" =>
            \/ step[l] = "reading" /\ using'[l] = using[l] /\ due'[l] = due[l]
            \/ due'[l] \subseteq store'[PathOf[l]] \cup lost'
       /\ step'[l] = "loaded" =>
            \/ step[l] = "loaded" /\ loaded'[l] = loaded[l] /\ due'[l] = due[l]
            \/ due'[l] \subseteq loaded'[l] \cup lost'

LEMMA UsersFrame ==
  ASSUME Store!TypeOK, Store!TypeOK', Store!StoreInv, FilesKept, UsersMove, Store!ClosingInv'
  PROVE  Store!StoreInv'
<1> USE ServicesAssumption
<1>1. Store!AcceptedKept'
  <2> SUFFICES ASSUME NEW p \in Paths, NEW e \in Events, step'[e] = "accepted", PathOf[e] = p
               PROVE  e \in Kept(p)'
    BY DEF Store!AcceptedKept, Store!AcceptedOn, Kept
  <2>1. CASE step[e] = "accepted"
    BY <2>1 DEF FilesKept, Kept, Store!StoreInv, Store!AcceptedKept, Store!AcceptedOn
  <2>2. CASE step[e] # "accepted"
    BY <2>2 DEF UsersMove
  <2>3. QED
    BY <2>1, <2>2
<1>2. Store!UsersInv'
  <2> SUFFICES ASSUME NEW u \in Events \cup Loaders
               PROVE  /\ step'[u] \in {"open", "reading"} => using'[u] # None
                      /\ using'[u] # None => /\ handle'[using'[u]].path = PathOf[u]
                                            /\ handle'[using'[u]].state # "unused"
    BY DEF Store!UsersInv, Store!Users
  <2>1. using[u] # None => /\ using[u] \in Store!Handles /\ handle[using[u]].path = PathOf[u]
                           /\ handle[using[u]].state # "unused"
    BY DEF Store!StoreInv, Store!UsersInv, Store!Users, Store!TypeOK
  <2>2. QED
    BY <2>1 DEF UsersMove, FilesKept
<1>3. Store!LoadsInv'
  <2> SUFFICES ASSUME NEW l \in Loaders
               PROVE  /\ due'[l] \subseteq Store!AcceptedOn(PathOf[l])'
                      /\ step'[l] = "reading" /\ handle'[using'[l]].state # "closed" =>
                           due'[l] \subseteq store'[PathOf[l]] \cup lost'
    BY DEF Store!LoadsInv
  <2>1. due'[l] \subseteq Store!AcceptedOn(PathOf[l])'
    <3>1. Store!AcceptedOn(PathOf[l]) \subseteq Store!AcceptedOn(PathOf[l])'
      BY DEF UsersMove, Store!AcceptedOn
    <3>2. due[l] \subseteq Store!AcceptedOn(PathOf[l])
      BY DEF Store!StoreInv, Store!LoadsInv
    <3>3. QED
      BY <3>1, <3>2 DEF UsersMove
  <2>2. ASSUME step'[l] = "reading", handle'[using'[l]].state # "closed",
               step[l] = "reading", using'[l] = using[l], due'[l] = due[l]
        PROVE  due'[l] \subseteq store'[PathOf[l]] \cup lost'
    <3>1. using[l] \in Store!Handles /\ handle[using[l]].state # "unused"
      BY <2>2 DEF Store!StoreInv, Store!UsersInv, Store!Users, Store!TypeOK
    <3>2. handle[using[l]].state # "closed"
      BY <2>2, <3>1 DEF FilesKept
    <3>3. due[l] \subseteq store[PathOf[l]] \cup lost
      BY <2>2, <3>2 DEF Store!StoreInv, Store!LoadsInv
    <3>4. PathOf[l] \in Paths
      OBVIOUS
    <3>5. QED
      BY <2>2, <3>3, <3>4 DEF FilesKept
  <2>3. QED
    BY <2>1, <2>2 DEF UsersMove
<1>4. Store!LoadComplete'
  BY DEF UsersMove, FilesKept, Store!StoreInv, Store!LoadComplete
<1>5. QED
  BY <1>1, <1>2, <1>3, <1>4 DEF FilesKept, Store!StoreInv

(* A batch that is written or lost: it is gone, and nothing else is.       *)
LEMMA Flushes ==
  ASSUME Store!TypeOK, Store!HandlesInv,
         NEW h \in Store!Handles, handle[h].state = "open", NEW batch \in SUBSET Events,
         NEW s \in {"open", "flushed"}, NEW written \in BOOLEAN,
         Store!Flushed(h, batch, s, written), dbs' = dbs
  PROVE  /\ FilesTyped'
         /\ handle'[h].path = handle[h].path /\ handle'[h].state = s /\ handle'[h].batch = {}
         /\ \A g \in Store!Handles \ {h} : handle'[g] = handle[g]
         /\ lost \subseteq lost' /\ \A p \in Paths : store[p] \subseteq store'[p]
         /\ batch \subseteq store'[handle[h].path] \cup lost'
         /\ written => batch \subseteq store'[handle[h].path]
<1> DEFINE flushed == [handle[h] EXCEPT !.batch = {}, !.state = s]
<1>1. handle[h].path \in Paths
  BY DEF Store!HandlesInv
<1>2. flushed.path = handle[h].path /\ flushed.state = s /\ flushed.batch = {}
  <2>1. handle[h] \in [path : Paths \cup {None}, state : Store!HandleState, batch : SUBSET Events]
    BY DEF Store!TypeOK
  <2>2. QED
    BY <2>1
<1>3. handle' = [handle EXCEPT ![h] = flushed]
  BY DEF Store!Flushed
<1>4. flushed \in [path : Paths \cup {None}, state : Store!HandleState, batch : SUBSET Events]
  <2>1. handle[h] \in [path : Paths \cup {None}, state : Store!HandleState, batch : SUBSET Events]
    BY DEF Store!TypeOK
  <2>2. s \in Store!HandleState
    BY DEF Store!HandleState
  <2>3. QED
    BY <2>1, <2>2
<1> HIDE DEF flushed
<1>5. /\ handle' \in [Store!Handles -> [path : Paths \cup {None}, state : Store!HandleState, batch : SUBSET Events]]
      /\ handle'[h] = flushed /\ \A g \in Store!Handles \ {h} : handle'[g] = handle[g]
  BY <1>3, <1>4 DEF Store!TypeOK
<1>6. CASE written
  <2>1. store' = [store EXCEPT ![handle[h].path] = store[handle[h].path] \cup batch] /\ lost' = lost
    BY <1>6 DEF Store!Flushed
  <2>2. /\ store' \in [Paths -> SUBSET Events] /\ store'[handle[h].path] = store[handle[h].path] \cup batch
        /\ \A p \in Paths : store[p] \subseteq store'[p]
    BY <1>1, <2>1 DEF Store!TypeOK
  <2>3. QED
    BY <1>2, <1>5, <2>1, <2>2 DEF FilesTyped, Store!TypeOK
<1>7. CASE ~written
  <2>1. store' = store /\ lost' = lost \cup batch
    BY <1>7 DEF Store!Flushed
  <2>2. QED
    BY <1>2, <1>5, <1>7, <2>1 DEF FilesTyped, Store!TypeOK
<1>8. QED
  BY <1>6, <1>7

LEMMA StoreTyped ==
  ASSUME Store!TypeOK, Store!StoreInv, [Store!Next]_(Store!vars)
  PROVE  Store!TypeOK'
<1> USE ServicesAssumption
        DEF Store!Users, Store!HandleState, Store!Location, Store!Goto, Store!config, Store!files,
            Store!users
<1>1. ASSUME NEW u \in Events \cup Loaders, Store!Resolve(u) PROVE Store!TypeOK'
  BY <1>1 DEF Store!Resolve, Store!AcceptedOn, Store!TypeOK
<1>2. ASSUME NEW u \in Events \cup Loaders, Store!Use(u) PROVE Store!TypeOK'
  <2>1. PathOf[u] \in Paths
    BY DEF Store!TypeOK
  <2>2. CASE Store!FoundDB(u) \/ Store!OpenFails(u)
    BY <2>1, <2>2 DEF Store!FoundDB, Store!OpenFails, Store!TypeOK
  <2>3. CASE Store!OpenDB(u)
    BY <2>1, <2>3 DEF Store!OpenDB, Store!Unused, Store!TypeOK
  <2>4. QED
    BY <1>2, <2>2, <2>3 DEF Store!Use, Store!TypeOK
<1>3. ASSUME FilesTyped', UNCHANGED <<enabled, path, setting, using, due, loaded, toClose>>,
             step' \in [Events \cup Loaders \cup Configurers -> Store!Location]
      PROVE  Store!TypeOK'
  BY <1>3 DEF FilesTyped, Store!TypeOK
<1>4. ASSUME NEW e \in Events, Store!Publish(e) PROVE Store!TypeOK'
  <2>1. CASE Store!AppendToClosed(e)
    BY <2>1 DEF Store!AppendToClosed, Store!TypeOK
  <2>2. ASSUME Store!AppendEvent(e) PROVE Store!TypeOK'
    <3> DEFINE h == using[e]
               batch == handle[h].batch \cup {e}
    <3>1. h \in Store!Handles
      BY <2>2 DEF Store!AppendEvent, Store!StoreInv, Store!UsersInv, Store!TypeOK
    <3>2. batch \in SUBSET Events /\ handle[h].state = "open"
      BY <2>2, <3>1 DEF Store!AppendEvent, Store!TypeOK
    <3>3. UNCHANGED <<enabled, path, setting, dbs, using, due, loaded, toClose>>
      BY <2>2 DEF Store!AppendEvent, Store!TypeOK
    <3>4. step' \in [Events \cup Loaders \cup Configurers -> Store!Location]
      BY <2>2 DEF Store!AppendEvent, Store!TypeOK
    <3>5. ASSUME handle' = [handle EXCEPT ![h] = [@ EXCEPT !.batch = batch]], UNCHANGED <<store, lost>>
          PROVE  FilesTyped'
      <4>1. [handle[h] EXCEPT !.batch = batch] \in [path : Paths \cup {None}, state : Store!HandleState,
                                                   batch : SUBSET Events]
        BY <3>1, <3>2 DEF Store!TypeOK
      <4>2. handle' = [handle EXCEPT ![h] = [handle[h] EXCEPT !.batch = batch]]
        BY <3>5 DEF Store!TypeOK
      <4> HIDE DEF batch
      <4>3. handle' \in [Store!Handles -> [path : Paths \cup {None}, state : Store!HandleState, batch : SUBSET Events]]
        BY <3>1, <4>1, <4>2 DEF Store!TypeOK
      <4>4. QED
        BY <3>3, <3>5, <4>3 DEF FilesTyped, Store!TypeOK
    <3>6. ASSUME NEW written \in BOOLEAN, Store!Flushed(h, batch, "open", written) PROVE FilesTyped'
      BY <3>1, <3>2, <3>3, <3>6, Flushes DEF Store!StoreInv
    <3>7. \/ handle' = [handle EXCEPT ![h] = [@ EXCEPT !.batch = batch]] /\ UNCHANGED <<store, lost>>
          \/ \E written \in BOOLEAN : Store!Flushed(h, batch, "open", written)
      BY <2>2 DEF Store!AppendEvent
    <3>8. FilesTyped'
      BY <3>5, <3>6, <3>7
    <3>9. QED
      BY <1>3, <3>3, <3>4, <3>8
  <2>3. QED
    BY <1>4, <2>1, <2>2 DEF Store!Publish, Store!TypeOK
<1>5. ASSUME NEW h \in Store!Handles, Store!FlushTick(h) PROVE Store!TypeOK'
  <2>1. PICK written \in BOOLEAN : Store!Flushed(h, handle[h].batch, "open", written)
    BY <1>5 DEF Store!FlushTick, Store!TypeOK
  <2>2. handle[h].batch \in SUBSET Events /\ handle[h].state = "open"
    BY <1>5 DEF Store!FlushTick, Store!TypeOK
  <2>3. UNCHANGED <<enabled, path, setting, dbs, using, due, loaded, toClose, step>>
    BY <1>5 DEF Store!FlushTick, Store!TypeOK
  <2>4. FilesTyped'
    BY <2>1, <2>2, <2>3, Flushes DEF Store!StoreInv
  <2>5. QED
    BY <1>3, <2>3, <2>4 DEF Store!TypeOK
<1>6. ASSUME NEW l \in Loaders, Store!Load(l) PROVE Store!TypeOK'
  <2>1. CASE Store!LoadIterate(l) \/ Store!LoadOfClosed(l)
    <3>1. PathOf[l] \in Paths
      BY DEF Store!TypeOK
    <3>2. QED
      BY <2>1, <3>1 DEF Store!LoadIterate, Store!LoadOfClosed, Store!TypeOK
  <2>2. ASSUME Store!LoadFlush(l) PROVE Store!TypeOK'
    <3> DEFINE h == using[l]
    <3>1. h \in Store!Handles
      BY <2>2 DEF Store!LoadFlush, Store!StoreInv, Store!UsersInv, Store!TypeOK
    <3>2. /\ UNCHANGED <<enabled, path, setting, dbs, using, due, loaded, toClose>>
          /\ step' \in [Events \cup Loaders \cup Configurers -> Store!Location]
      BY <2>2 DEF Store!LoadFlush, Store!TypeOK
    <3>3. CASE UNCHANGED <<handle, store, lost>>
      BY <3>2, <3>3 DEF Store!TypeOK
    <3>4. ASSUME handle[h].state = "open", NEW written \in BOOLEAN, Store!Flushed(h, handle[h].batch, "open", written)
          PROVE  Store!TypeOK'
      <4>1. handle[h].batch \in SUBSET Events
        BY <3>1 DEF Store!TypeOK
      <4>2. Store!HandlesInv /\ dbs' = dbs
        BY <3>2 DEF Store!StoreInv
      <4> HIDE DEF h
      <4>3. FilesTyped'
        BY <3>1, <3>4, <4>1, <4>2, Flushes
      <4>4. QED
        BY <1>3, <3>2, <4>3
    <3>5. QED
      BY <2>2, <3>3, <3>4 DEF Store!LoadFlush, Store!TypeOK
  <2>3. QED
    BY <1>6, <2>1, <2>2 DEF Store!Load, Store!TypeOK
<1>7. ASSUME NEW S \in SUBSET Paths, Store!Removed(S)
      PROVE  /\ dbs' \in [Paths -> Store!Handles \cup {None}]
             /\ Store!InTable(S) \subseteq Store!Handles
  BY <1>7 DEF Store!Removed, Store!InTable, Store!TypeOK
<1>8. ASSUME NEW c \in Configurers, Store!SetConfig(c) PROVE Store!TypeOK'
  <2>1. PICK on \in BOOLEAN, p \in Paths \cup {None}, gone \in SUBSET Paths :
          /\ enabled' = on /\ path' = p /\ setting' = c
          /\ toClose' = [toClose EXCEPT ![c] = Store!InTable(gone)] /\ Store!Removed(gone)
    BY <1>8 DEF Store!SetConfig, Store!TypeOK
  <2>2. QED
    BY <1>7, <1>8, <2>1 DEF Store!SetConfig, Store!TypeOK
<1>9. ASSUME NEW c \in Configurers, Store!Configure(c) PROVE Store!TypeOK'
  <2>1. ASSUME Store!CloseBatch(c) PROVE Store!TypeOK'
    <3>1. PICK h \in toClose[c], written \in BOOLEAN :
            handle[h].state = "open" /\ Store!Flushed(h, handle[h].batch, "flushed", written)
      BY <2>1 DEF Store!CloseBatch, Store!TypeOK
    <3>2. h \in Store!Handles /\ handle[h].batch \in SUBSET Events
      BY <3>1 DEF Store!TypeOK
    <3>3. UNCHANGED <<enabled, path, setting, dbs, using, due, loaded, toClose, step>>
      BY <2>1 DEF Store!CloseBatch, Store!TypeOK
    <3>4. FilesTyped'
      BY <3>1, <3>2, <3>3, Flushes DEF Store!StoreInv
    <3>5. QED
      BY <1>3, <3>3, <3>4 DEF Store!TypeOK
  <2>2. ASSUME Store!CloseLevelDB(c) PROVE Store!TypeOK'
    BY <2>2 DEF Store!CloseLevelDB, Store!TypeOK
  <2>3. ASSUME Store!ClearInSet(c) \/ Store!CloseAllDB(c) PROVE Store!TypeOK'
    BY <1>7, <2>3 DEF Store!ClearInSet, Store!CloseAllDB, Store!TypeOK
  <2>4. ASSUME Store!SetReturns(c) PROVE Store!TypeOK'
    BY <2>4 DEF Store!SetReturns, Store!TypeOK
  <2>5. QED
    BY <1>9, <2>1, <2>2, <2>3, <2>4 DEF Store!Configure, Store!TypeOK
<1>10. CASE UNCHANGED Store!vars
  BY <1>10 DEF Store!vars, Store!TypeOK
<1>11. QED
  BY <1>1, <1>2, <1>4, <1>5, <1>6, <1>8, <1>9, <1>10 DEF Store!Next, Store!TypeOK

LEMMA StepGoes ==
  ASSUME Store!TypeOK, NEW c \in Events \cup Loaders \cup Configurers, NEW l \in Store!Location,
         Store!Goto(c, l)
  PROVE  step'[c] = l /\ \A d \in (Events \cup Loaders \cup Configurers) \ {c} : step'[d] = step[d]
BY DEF Store!TypeOK, Store!Goto, Store!Users

LEMMA ClosingFrame ==
  ASSUME Store!TypeOK, Store!ClosingInv, FilesKept, UNCHANGED toClose,
         \A c \in Configurers : step'[c] = step[c]
  PROVE  Store!ClosingInv'
BY DEF Store!TypeOK, Store!ClosingInv, FilesKept

(* The steps of a user that leave the files alone.                         *)
LEMMA StoreQuiet ==
  ASSUME Store!TypeOK, Store!TypeOK', Store!StoreInv, NEW u \in Events \cup Loaders,
         \/ Store!Resolve(u) \/ Store!FoundDB(u) \/ Store!OpenFails(u)
         \/ u \in Events /\ Store!AppendToClosed(u)
         \/ u \in Loaders /\ (Store!LoadIterate(u) \/ Store!LoadOfClosed(u))
  PROVE  Store!StoreInv'
<1> DEFINE others == (Events \cup Loaders \cup Configurers) \ {u}
<1> USE ServicesAssumption
<1>1. UNCHANGED <<dbs, handle, store, lost, toClose>>
  BY DEF Store!Resolve, Store!FoundDB, Store!OpenFails, Store!AppendToClosed, Store!LoadIterate,
         Store!LoadOfClosed, Store!files
<1>2. FilesKept
  BY <1>1, FilesSame
<1>3. step'[u] \in {"opening", "open", "failed", "loaded"} /\ \A v \in others : step'[v] = step[v]
  BY StepGoes DEF Store!Resolve, Store!FoundDB, Store!OpenFails, Store!AppendToClosed, Store!LoadIterate,
         Store!LoadOfClosed, Store!Location
<1>4. step[u] # "accepted"
  BY DEF Store!Resolve, Store!FoundDB, Store!OpenFails, Store!AppendToClosed, Store!LoadIterate, Store!LoadOfClosed
<1>5. Store!ClosingInv'
  BY <1>1, <1>2, <1>3, ClosingFrame DEF Store!StoreInv
<1>6. \A e \in Events : step'[e] = "accepted" <=> step[e] = "accepted"
  BY <1>3, <1>4
<1>7. ASSUME NEW v \in Events \cup Loaders
      PROVE  /\ step'[v] \in {"open", "reading"} => using'[v] # None
             /\ \/ using'[v] = using[v]
                \/ handle'[using'[v]].path = PathOf[v] /\ handle'[using'[v]].state # "unused"
  <2>1. CASE Store!FoundDB(u)
    <3>1. using' = [using EXCEPT ![u] = dbs[PathOf[u]]] /\ dbs[PathOf[u]] # None /\ PathOf[u] \in Paths
      BY <2>1 DEF Store!FoundDB
    <3>2. handle[dbs[PathOf[u]]].path = PathOf[u] /\ handle[dbs[PathOf[u]]].state = "open"
      BY <3>1 DEF Store!StoreInv, Store!TableInv
    <3>3. v # u => step'[v] = step[v] /\ using'[v] = using[v]
      BY <1>3, <3>1 DEF Store!TypeOK, Store!Users
    <3>4. using'[u] = dbs[PathOf[u]]
      BY <3>1 DEF Store!TypeOK, Store!Users
    <3>5. step[v] \in {"open", "reading"} => using[v] # None
      BY DEF Store!StoreInv, Store!UsersInv, Store!Users
    <3>6. QED
      BY <1>1, <3>1, <3>2, <3>3, <3>4, <3>5
  <2>2. CASE ~Store!FoundDB(u)
    <3>1. using' = using /\ step'[u] \notin {"open", "reading"}
      BY <2>2, StepGoes DEF Store!Resolve, Store!OpenFails, Store!AppendToClosed, Store!LoadIterate,
           Store!LoadOfClosed, Store!users, Store!Location
    <3>2. QED
      BY <1>3, <3>1 DEF Store!StoreInv, Store!UsersInv, Store!Users
  <2>3. QED
    BY <2>1, <2>2
<1>8. ASSUME NEW l \in Loaders
      PROVE  /\ due'[l] = due[l] \/ due'[l] = Store!AcceptedOn(PathOf[l])
             /\ step'[l] = "reading" => step[l] = "reading" /\ using'[l] = using[l] /\ due'[l] = due[l]
             /\ step'[l] = "loaded" =>
                  \/ step[l] = "loaded" /\ loaded'[l] = loaded[l] /\ due'[l] = due[l]
                  \/ due'[l] \subseteq loaded'[l] \cup lost'
  <2>1. CASE Store!Resolve(u)
    <3>1. step'[u] = "opening" /\ loaded' = loaded /\ using' = using
      BY <2>1, StepGoes DEF Store!Resolve, Store!Location
    <3>2. due'[l] = IF l = u THEN Store!AcceptedOn(PathOf[l]) ELSE due[l]
      BY <2>1 DEF Store!Resolve
    <3>3. QED
      BY <1>3, <3>1, <3>2
  <2>2. CASE u \in Loaders /\ Store!LoadIterate(u)
    <3>1. step'[u] = "loaded" /\ due' = due /\ using' = using
      BY <2>2, StepGoes DEF Store!LoadIterate, Store!Location
    <3>2. due[u] \subseteq store[PathOf[u]] \cup lost
      BY <2>2 DEF Store!LoadIterate, Store!StoreInv, Store!LoadsInv
    <3>3. loaded'[u] = store[PathOf[u]] /\ \A m \in Loaders \ {u} : loaded'[m] = loaded[m]
      BY <2>2 DEF Store!LoadIterate, Store!TypeOK
    <3>4. QED
      BY <1>1, <1>3, <3>1, <3>2, <3>3
  <2>3. CASE ~Store!Resolve(u) /\ ~(u \in Loaders /\ Store!LoadIterate(u))
    <3>1. step'[u] \in {"open", "failed"} /\ UNCHANGED <<due, loaded>> /\ step[u] \in {"opening", "open", "reading"}
      BY <2>3, StepGoes DEF Store!FoundDB, Store!OpenFails, Store!AppendToClosed, Store!LoadOfClosed,
           Store!users, Store!Location
    <3>2. \A m \in Loaders \ {u} : using'[m] = using[m]
      BY <2>3 DEF Store!FoundDB, Store!OpenFails, Store!AppendToClosed, Store!LoadOfClosed, Store!users,
           Store!TypeOK, Store!Users
    <3>3. QED
      BY <1>3, <3>1, <3>2
  <2>4. QED
    BY <2>1, <2>2, <2>3
<1>9. UsersMove
  BY <1>6, <1>7, <1>8 DEF UsersMove
<1>10. QED
  BY <1>2, <1>5, <1>9, UsersFrame

(* A handle for a path that has none, of an empty batch.                   *)
LEMMA StoreOpens ==
  ASSUME Store!TypeOK, Store!TypeOK', Store!StoreInv, NEW u \in Events \cup Loaders, Store!OpenDB(u)
  PROVE  Store!StoreInv'
<1> DEFINE others == (Events \cup Loaders \cup Configurers) \ {u}
           p == PathOf[u]
<1> USE ServicesAssumption
<1>1. PICK h \in Store!Handles :
        /\ handle[h].state = "unused"
        /\ handle' = [handle EXCEPT ![h] = [path |-> p, state |-> "open", batch |-> {}]]
        /\ dbs' = [dbs EXCEPT ![p] = h] /\ using' = [using EXCEPT ![u] = h]
  BY DEF Store!OpenDB, Store!Unused
<1>2. /\ p \in Paths /\ dbs[p] = None /\ Store!OpenOn(p) = {} /\ step[u] = "opening"
      /\ UNCHANGED <<store, lost, due, loaded, toClose>>
  BY DEF Store!OpenDB
<1>3. step'[u] = "open" /\ \A v \in others : step'[v] = step[v]
  BY StepGoes DEF Store!OpenDB, Store!Location
<1>4. /\ handle'[h].path = p /\ handle'[h].state = "open" /\ handle'[h].batch = {}
      /\ \A g \in Store!Handles \ {h} : handle'[g] = handle[g]
  BY <1>1 DEF Store!TypeOK
<1>5. /\ dbs'[p] = h /\ \A q \in Paths \ {p} : dbs'[q] = dbs[q]
      /\ using'[u] = h /\ \A v \in (Events \cup Loaders) \ {u} : using'[v] = using[v]
      /\ h # None
  BY <1>1, <1>2 DEF Store!TypeOK, Store!Users, Store!Handles
<1>6. /\ \A q \in Paths : dbs[q] # h
      /\ \A c \in Configurers : h \notin toClose[c]
  BY <1>1, <1>5 DEF Store!StoreInv, Store!TableInv, Store!ClosingInv
<1> HIDE DEF p
<1>7. FilesKept
  <2>1. Store!HandlesInv'
    <3>1. Store!IsFiniteSet({}) /\ Store!Cardinality({}) < BatchSize
      BY FS_EmptySet, StoreFinite, StoreCardinality
    <3>2. QED
      BY <1>2, <1>4, <3>1 DEF Store!StoreInv, Store!HandlesInv
  <2>2. Store!OneOpen'
    BY <1>2, <1>4 DEF Store!StoreInv, Store!OneOpen, Store!Live, Store!OpenOn
  <2>3. Store!TableInv'
    <3> SUFFICES ASSUME NEW q \in Paths, dbs'[q] # None
                 PROVE  /\ handle'[dbs'[q]].path = q /\ handle'[dbs'[q]].state = "open"
                        /\ \A c \in Configurers : dbs'[q] \notin toClose'[c]
      BY DEF Store!TableInv
    <3>1. CASE q = p
      BY <1>2, <1>4, <1>5, <1>6, <3>1
    <3>2. CASE q # p
      <4>1. dbs'[q] = dbs[q] /\ dbs[q] \in Store!Handles \ {h}
        BY <1>5, <1>6, <3>2 DEF Store!TypeOK
      <4>2. QED
        BY <1>2, <1>4, <4>1 DEF Store!StoreInv, Store!TableInv
    <3>3. QED
      BY <3>1, <3>2
  <2>4. Store!HandlesOwned'
    <3> SUFFICES ASSUME NEW g \in Store!Handles, handle'[g].state \in {"open", "flushed"}
                 PROVE  dbs'[handle'[g].path] = g \/ \E c \in Configurers : g \in toClose'[c]
      BY DEF Store!HandlesOwned
    <3>1. CASE g = h
      BY <1>4, <1>5, <3>1
    <3>2. CASE g # h
      <4>1. handle'[g] = handle[g] /\ handle[g].path \in Paths /\ g # None
        BY <1>4, <3>2 DEF Store!StoreInv, Store!HandlesInv, Store!Handles
      <4>2. dbs[handle[g].path] = g \/ \E c \in Configurers : g \in toClose[c]
        BY <4>1 DEF Store!StoreInv, Store!HandlesOwned
      <4>3. QED
        BY <1>2, <1>5, <4>1, <4>2
    <3>3. QED
      BY <3>1, <3>2
  <2>5. ASSUME NEW q \in Paths PROVE Kept(q) \subseteq Kept(q)'
    <3>1. Store!Pending(q) \subseteq Store!Pending(q)'
      BY <1>1, <1>4 DEF Store!Pending
    <3>2. QED
      BY <1>2, <3>1 DEF Kept
  <2>6. \A g \in Store!Handles : handle[g].state # "unused" => handle'[g] = handle[g]
    BY <1>1, <1>4
  <2>7. QED
    BY <1>2, <2>1, <2>2, <2>3, <2>4, <2>5, <2>6 DEF FilesKept
<1>8. Store!ClosingInv'
  BY <1>2, <1>3, <1>7, ClosingFrame DEF Store!StoreInv
<1>9. \A e \in Events : step'[e] = "accepted" <=> step[e] = "accepted"
  BY <1>2, <1>3
<1>10. ASSUME NEW v \in Events \cup Loaders
       PROVE  /\ step'[v] \in {"open", "reading"} => using'[v] # None
              /\ \/ using'[v] = using[v]
                 \/ handle'[using'[v]].path = PathOf[v] /\ handle'[using'[v]].state # "unused"
  <2>1. CASE v = u
    BY <1>4, <1>5, <2>1 DEF p
  <2>2. CASE v # u
    BY <1>3, <1>5, <2>2 DEF Store!StoreInv, Store!UsersInv, Store!Users
  <2>3. QED
    BY <2>1, <2>2
<1>11. UsersMove
  BY <1>2, <1>3, <1>5, <1>9, <1>10 DEF UsersMove
<1>12. QED
  BY <1>7, <1>8, <1>11, UsersFrame

LEMMA FlushKeeps ==
  ASSUME Store!TypeOK, Store!StoreInv,
         NEW h \in Store!Handles, handle[h].state = "open", NEW batch \in SUBSET Events,
         handle[h].batch \subseteq batch, NEW s \in {"open", "flushed"}, NEW written \in BOOLEAN,
         Store!Flushed(h, batch, s, written), UNCHANGED <<dbs, toClose>>,
         s = "flushed" => \A p \in Paths : dbs[p] # h
  PROVE  /\ FilesKept
         /\ batch \subseteq store'[handle[h].path] \cup lost'
         /\ written => batch \subseteq store'[handle[h].path]
         /\ handle'[h].state = s
<1>1. Store!HandlesInv /\ Store!OneOpen /\ Store!TableInv /\ Store!HandlesOwned /\ FilesTyped
  BY DEF Store!StoreInv, FilesTyped, Store!TypeOK
<1>2. /\ FilesTyped'
      /\ handle'[h].path = handle[h].path /\ handle'[h].state = s /\ handle'[h].batch = {}
      /\ \A g \in Store!Handles \ {h} : handle'[g] = handle[g]
      /\ lost \subseteq lost' /\ \A p \in Paths : store[p] \subseteq store'[p]
      /\ batch \subseteq store'[handle[h].path] \cup lost'
      /\ written => batch \subseteq store'[handle[h].path]
  BY <1>1, Flushes
<1>3. IsFiniteSet({}) /\ Cardinality({}) < BatchSize
  BY FS_EmptySet, ServicesAssumption
<1>4. HandleMoves(h)
  BY <1>2, <1>3 DEF HandleMoves
<1>5. ASSUME NEW g \in Store!Handles \ {h} PROVE HandleMoves(g)
  BY <1>1, <1>2, StoreFinite, StoreCardinality DEF HandleMoves, Store!HandlesInv
<1>6. FilesMove
  BY <1>2, <1>4, <1>5 DEF FilesMove
<1>7. QED
  BY <1>1, <1>2, <1>6, FilesFrame

LEMMA StoreTicks ==
  ASSUME Store!TypeOK, Store!TypeOK', Store!StoreInv, NEW h \in Store!Handles, Store!FlushTick(h)
  PROVE  Store!StoreInv'
<1>1. PICK written \in BOOLEAN : Store!Flushed(h, handle[h].batch, "open", written)
  BY DEF Store!FlushTick
<1>2. handle[h].state = "open" /\ UNCHANGED <<dbs, toClose, step, using, due, loaded>>
  BY DEF Store!FlushTick, Store!users
<1>3. handle[h].batch \in SUBSET Events
  BY DEF Store!TypeOK
<1>4. FilesKept
  BY <1>1, <1>2, <1>3, FlushKeeps
<1>5. UsersMove
  BY <1>2 DEF UsersMove, Store!StoreInv, Store!UsersInv, Store!Users
<1>6. QED
  BY <1>2, <1>4, <1>5, ClosingFrame, UsersFrame DEF Store!StoreInv

LEMMA StoreAppends ==
  ASSUME Store!TypeOK, Store!TypeOK', Store!StoreInv, NEW e \in Events, Store!AppendEvent(e)
  PROVE  Store!StoreInv'
<1> DEFINE h == using[e]
           batch == handle[h].batch \cup {e}
           others == (Events \cup Loaders \cup Configurers) \ {e}
<1> USE ServicesAssumption
<1>1. /\ step[e] = "open" /\ handle[h].state = "open"
      /\ UNCHANGED <<dbs, using, due, loaded, toClose>>
  BY DEF Store!AppendEvent, Store!users
<1>2. h \in Store!Handles /\ handle[h].path = PathOf[e] /\ PathOf[e] \in Paths
  BY <1>1 DEF Store!StoreInv, Store!UsersInv, Store!Users, Store!TypeOK
<1>3. batch \in SUBSET Events
  BY <1>2 DEF Store!TypeOK
<1>4. FilesKept /\ step'[e] \in {"accepted", "failed"} /\ (step'[e] = "accepted" => e \in Kept(PathOf[e])')
  <2>1. CASE /\ Store!Cardinality(batch) < BatchSize
             /\ handle' = [handle EXCEPT ![h] = [@ EXCEPT !.batch = batch]]
             /\ Store!Goto(e, "accepted") /\ UNCHANGED <<store, lost>>
    <3>1. handle[h] \in [path : Paths \cup {None}, state : Store!HandleState, batch : SUBSET Events]
      BY <1>2 DEF Store!TypeOK
    <3>2. /\ handle'[h].path = handle[h].path /\ handle'[h].state = "open" /\ handle'[h].batch = batch
          /\ \A g \in Store!Handles \ {h} : handle'[g] = handle[g]
      BY <1>1, <1>2, <2>1, <3>1 DEF Store!TypeOK
    <3>3. step'[e] = "accepted"
      BY <2>1, StepGoes DEF Store!Location
    <3>4. Store!HandlesInv /\ Store!OneOpen /\ Store!TableInv /\ Store!HandlesOwned /\ FilesTyped /\ FilesTyped'
      BY DEF Store!StoreInv, FilesTyped, Store!TypeOK
    <3>5. HandleMoves(h)
      <4>1. IsFiniteSet(batch)
        BY <1>2, FS_AddElement, StoreFinite DEF Store!StoreInv, Store!HandlesInv
      <4>2. Cardinality(batch) < BatchSize
        BY <2>1, StoreCardinality
      <4>3. handle[h].batch \subseteq batch
        OBVIOUS
      <4> HIDE DEF batch, h
      <4>4. QED
        BY <1>1, <3>2, <4>1, <4>2, <4>3 DEF HandleMoves
    <3>6. ASSUME NEW g \in Store!Handles \ {h} PROVE HandleMoves(g)
      BY <3>2, <3>4, StoreFinite, StoreCardinality DEF HandleMoves, Store!HandlesInv
    <3>7. FilesMove
      BY <1>1, <2>1, <3>5, <3>6 DEF FilesMove
    <3>8. FilesKept
      BY <3>4, <3>7, FilesFrame
    <3>9. e \in Kept(PathOf[e])'
      BY <1>2, <3>2 DEF Kept, Store!Pending
    <3>10. QED
      BY <3>3, <3>8, <3>9
  <2>2. ASSUME NEW written \in BOOLEAN, Store!Flushed(h, batch, "open", written),
               Store!Goto(e, IF written THEN "accepted" ELSE "failed")
        PROVE  /\ FilesKept /\ step'[e] \in {"accepted", "failed"}
               /\ step'[e] = "accepted" => e \in Kept(PathOf[e])'
    <3>1. handle[h].batch \subseteq batch
      OBVIOUS
    <3>2. e \in batch
      OBVIOUS
    <3> HIDE DEF batch, h
    <3>3. FilesKept /\ (written => e \in store'[PathOf[e]])
      <4>1. "open" = "flushed" => \A p \in Paths : dbs[p] # h
        OBVIOUS
      <4>2. FilesKept /\ (written => batch \subseteq store'[handle[h].path])
        BY <1>1, <1>2, <1>3, <2>2, <3>1, <4>1, FlushKeeps
      <4>3. QED
        BY <1>2, <3>2, <4>2
    <3>4. step'[e] = IF written THEN "accepted" ELSE "failed"
      BY <2>2, StepGoes DEF Store!Location
    <3>5. QED
      BY <3>3, <3>4 DEF Kept
  <2>3. QED
    BY <2>1, <2>2 DEF Store!AppendEvent
<1>5. \A v \in others : step'[v] = step[v]
  BY DEF Store!AppendEvent, Store!Goto, Store!TypeOK, Store!Users
<1>6. UsersMove
  BY <1>1, <1>4, <1>5 DEF UsersMove, Store!StoreInv, Store!UsersInv, Store!Users
<1>7. Store!ClosingInv'
  BY <1>1, <1>4, <1>5, ClosingFrame DEF Store!StoreInv
<1>8. QED
  BY <1>4, <1>6, <1>7, UsersFrame

LEMMA StoreLoads ==
  ASSUME Store!TypeOK, Store!TypeOK', Store!StoreInv, NEW l \in Loaders, Store!LoadFlush(l)
  PROVE  Store!StoreInv'
<1> DEFINE h == using[l]
           others == (Events \cup Loaders \cup Configurers) \ {l}
<1> USE ServicesAssumption
<1>1. /\ step[l] = "open" /\ UNCHANGED <<dbs, using, due, loaded, toClose>>
  BY DEF Store!LoadFlush, Store!users
<1>2. h \in Store!Handles /\ handle[h].path = PathOf[l] /\ PathOf[l] \in Paths /\ handle[h].batch \in SUBSET Events
  BY <1>1 DEF Store!StoreInv, Store!UsersInv, Store!Users, Store!TypeOK
<1>3. due[l] \subseteq Kept(PathOf[l])
  BY <1>2 DEF Store!StoreInv, Store!LoadsInv, Store!AcceptedKept, Kept
<1>4. /\ FilesKept /\ step'[l] \in {"reading", "failed"}
      /\ step'[l] = "reading" /\ handle'[h].state # "closed" => due[l] \subseteq store'[PathOf[l]] \cup lost'
  <2>1. ASSUME handle[h].state = "open", NEW written \in BOOLEAN,
               Store!Flushed(h, handle[h].batch, "open", written),
               Store!Goto(l, IF written THEN "reading" ELSE "failed")
        PROVE  /\ FilesKept /\ step'[l] \in {"reading", "failed"}
               /\ due[l] \subseteq store'[PathOf[l]] \cup lost'
    <3>1. "open" = "flushed" => \A p \in Paths : dbs[p] # h
      OBVIOUS
    <3> DEFINE batch == handle[h].batch
    <3>2. /\ h \in Store!Handles /\ handle[h].state = "open" /\ handle[h].path = PathOf[l]
          /\ batch \in SUBSET Events /\ handle[h].batch \subseteq batch
          /\ Store!Flushed(h, batch, "open", written) /\ UNCHANGED <<dbs, toClose>>
      BY <1>1, <1>2, <2>1
    <3> HIDE DEF h, batch
    <3>3. FilesKept /\ (batch \subseteq store'[handle[h].path] \cup lost')
      BY <3>1, <3>2, FlushKeeps
    <3>4. FilesKept /\ handle[h].batch \subseteq store'[PathOf[l]] \cup lost'
      BY <3>2, <3>3 DEF batch
    <3>5. Store!Pending(PathOf[l]) = handle[h].batch
      BY <1>2, <2>1, PendingIsBatch DEF Store!StoreInv, Store!Live
    <3>6. step'[l] = IF written THEN "reading" ELSE "failed"
      BY <2>1, StepGoes DEF Store!Location
    <3>7. due[l] \subseteq store'[PathOf[l]] \cup lost'
      BY <1>2, <1>3, <3>4, <3>5 DEF Kept, FilesKept
    <3>8. QED
      BY <3>4, <3>6, <3>7
  <2>2. ASSUME ~(handle[h].state = "open" /\ handle[h].batch # {}), Store!Goto(l, "reading"),
               UNCHANGED <<handle, store, lost>>
        PROVE  /\ FilesKept /\ step'[l] \in {"reading", "failed"}
               /\ step'[l] = "reading" /\ handle'[h].state # "closed" =>
                    due[l] \subseteq store'[PathOf[l]] \cup lost'
    <3>1. FilesKept
      BY <1>1, <2>2, FilesSame
    <3>2. step'[l] = "reading"
      BY <2>2, StepGoes DEF Store!Location
    <3>3. ASSUME handle[h].state # "closed" PROVE Store!Pending(PathOf[l]) = {}
      <4>1. Store!Live(h)
        BY <1>1, <1>2, <3>3 DEF Store!StoreInv, Store!UsersInv, Store!Users, Store!Live, Store!TypeOK,
             Store!HandleState
      <4>2. QED
        BY <1>2, <2>2, <4>1, PendingIsBatch DEF Store!StoreInv
    <3>4. QED
      BY <1>3, <2>2, <3>1, <3>2, <3>3 DEF Kept
  <2>3. QED
    BY <2>1, <2>2 DEF Store!LoadFlush
<1>5. \A v \in others : step'[v] = step[v]
  BY DEF Store!LoadFlush, Store!Goto, Store!TypeOK, Store!Users
<1>6. UsersMove
  BY <1>1, <1>4, <1>5 DEF UsersMove, Store!StoreInv, Store!UsersInv, Store!Users
<1>7. Store!ClosingInv'
  BY <1>1, <1>4, <1>5, ClosingFrame DEF Store!StoreInv
<1>8. QED
  BY <1>4, <1>6, <1>7, UsersFrame

(* configurePersistence does nothing to the users.                         *)
LEMMA UsersStay ==
  ASSUME Store!TypeOK, Store!StoreInv, UNCHANGED <<using, due, loaded>>,
         \A u \in Events \cup Loaders : step'[u] = step[u]
  PROVE  UsersMove
BY DEF UsersMove, Store!StoreInv, Store!UsersInv, Store!Users

LEMMA StoreCloses ==
  ASSUME Store!TypeOK, Store!TypeOK', Store!StoreInv, NEW c \in Configurers,
         Store!CloseBatch(c) \/ Store!CloseLevelDB(c)
  PROVE  Store!StoreInv'
<1>1. UNCHANGED <<dbs, step, using, due, loaded>>
  BY DEF Store!CloseBatch, Store!CloseLevelDB, Store!users
<1>2. CASE Store!CloseBatch(c)
  <2>1. PICK h \in toClose[c], written \in BOOLEAN :
          handle[h].state = "open" /\ Store!Flushed(h, handle[h].batch, "flushed", written)
    BY <1>2 DEF Store!CloseBatch
  <2>2. h \in Store!Handles /\ handle[h].batch \in SUBSET Events /\ handle[h].batch \subseteq handle[h].batch
    BY <2>1 DEF Store!TypeOK
  <2>3. \A p \in Paths : dbs[p] # h
    BY <2>2, ServicesAssumption DEF Store!StoreInv, Store!TableInv, Store!Handles
  <2>4. toClose' = toClose
    BY <1>2 DEF Store!CloseBatch
  <2>5. FilesKept
    BY <1>1, <2>1, <2>2, <2>3, <2>4, FlushKeeps
  <2>6. QED
    BY <1>1, <2>4, <2>5, UsersStay, ClosingFrame, UsersFrame DEF Store!StoreInv
<1>3. CASE Store!CloseLevelDB(c)
  <2>1. PICK h \in toClose[c] :
          /\ handle[h].state = "flushed" /\ handle' = [handle EXCEPT ![h] = [@ EXCEPT !.state = "closed"]]
          /\ toClose' = [toClose EXCEPT ![c] = @ \ {h}]
    BY <1>3 DEF Store!CloseLevelDB
  <2>2. h \in Store!Handles /\ handle[h] \in [path : Paths \cup {None}, state : Store!HandleState, batch : SUBSET Events]
    BY <2>1 DEF Store!TypeOK
  <2>3. /\ handle'[h].path = handle[h].path /\ handle'[h].state = "closed" /\ handle'[h].batch = handle[h].batch
        /\ \A g \in Store!Handles \ {h} : handle'[g] = handle[g]
    BY <2>1, <2>2 DEF Store!TypeOK
  <2>4. /\ toClose'[c] = toClose[c] \ {h} /\ \A d \in Configurers \ {c} : toClose'[d] = toClose[d]
    BY <2>1 DEF Store!TypeOK
  <2>5. Store!HandlesInv /\ Store!OneOpen /\ Store!TableInv /\ Store!HandlesOwned /\ FilesTyped /\ FilesTyped'
    BY DEF Store!StoreInv, FilesTyped, Store!TypeOK
  <2>6. \A p \in Paths : dbs[p] # h
    BY <2>2, ServicesAssumption DEF Store!StoreInv, Store!TableInv, Store!Handles
  <2>7. HandleMoves(h)
    BY <2>1, <2>2, <2>3, <2>5, <2>6, StoreFinite, StoreCardinality DEF HandleMoves, Store!HandlesInv
  <2>8. ASSUME NEW g \in Store!Handles \ {h} PROVE HandleMoves(g)
    BY <2>3, <2>5, StoreFinite, StoreCardinality DEF HandleMoves, Store!HandlesInv
  <2>9. UNCHANGED <<store, lost>>
    BY <1>3 DEF Store!CloseLevelDB
  <2>10. FilesMove
    BY <1>1, <2>3, <2>4, <2>7, <2>8, <2>9 DEF FilesMove
  <2>11. FilesKept
    BY <2>5, <2>10, FilesFrame
  <2>12. Store!ClosingInv'
    <3>1. \A d \in Configurers : toClose'[d] \subseteq toClose[d] /\ toClose[d] \subseteq Store!Handles
      BY <2>4 DEF Store!TypeOK
    <3>2. QED
      BY <1>1, <2>11, <3>1 DEF Store!StoreInv, Store!ClosingInv, FilesKept
  <2>13. QED
    BY <1>1, <2>11, <2>12, UsersStay, UsersFrame
<1>4. QED
  BY <1>2, <1>3

(* The paths of S leave the table, and c is to close what was open there.  *)
LEMMA StoreRemoves ==
  ASSUME Store!TypeOK, Store!TypeOK', Store!StoreInv, NEW c \in Configurers, NEW S \in SUBSET Paths,
         toClose[c] = {}, toClose' = [toClose EXCEPT ![c] = Store!InTable(S)], Store!Removed(S),
         UNCHANGED <<handle, store, lost, using, due, loaded>>,
         \A d \in (Events \cup Loaders \cup Configurers) \ {c} : step'[d] = step[d],
         step'[c] \notin {"idle", "closingAll"}
  PROVE  Store!StoreInv'
<1> USE ServicesAssumption
<1>1. /\ toClose'[c] = Store!InTable(S) /\ \A d \in Configurers \ {c} : toClose'[d] = toClose[d]
      /\ \A p \in Paths : dbs'[p] = IF p \in S THEN None ELSE dbs[p]
  BY DEF Store!TypeOK, Store!Removed
<1>2. \A p \in Paths : dbs[p] # None => /\ dbs[p] \in Store!Handles /\ handle[dbs[p]].path = p
                                        /\ handle[dbs[p]].state = "open"
                                        /\ \A d \in Configurers : dbs[p] \notin toClose[d]
  BY DEF Store!TypeOK, Store!StoreInv, Store!TableInv
<1>3. Store!HandlesInv' /\ Store!OneOpen'
  BY DEF Store!StoreInv, Store!HandlesInv, Store!OneOpen, Store!Live
<1>4. Store!TableInv'
  BY <1>1, <1>2 DEF Store!TableInv, Store!InTable
<1>5. Store!HandlesOwned'
  <2> SUFFICES ASSUME NEW h \in Store!Handles, handle[h].state \in {"open", "flushed"}
               PROVE  dbs'[handle[h].path] = h \/ \E d \in Configurers : h \in toClose'[d]
    BY DEF Store!HandlesOwned
  <2>1. handle[h].path \in Paths /\ h # None
    BY DEF Store!StoreInv, Store!HandlesInv, Store!Handles
  <2>2. dbs[handle[h].path] = h \/ \E d \in Configurers \ {c} : h \in toClose[d]
    BY DEF Store!StoreInv, Store!HandlesOwned
  <2>3. QED
    BY <1>1, <2>1, <2>2 DEF Store!InTable
<1>6. Store!ClosingInv'
  BY <1>1, <1>2 DEF Store!StoreInv, Store!ClosingInv, Store!InTable
<1>7. FilesKept
  BY <1>3, <1>4, <1>5 DEF FilesKept, Kept, Store!Pending
<1>8. UsersMove
  BY UsersStay
<1>9. QED
  BY <1>6, <1>7, <1>8, UsersFrame

LEMMA StoreStep ==
  ASSUME Store!TypeOK, Store!TypeOK', Store!StoreInv, [Store!Next]_(Store!vars)
  PROVE  Store!StoreInv'
<1>1. ASSUME NEW c \in Configurers, Store!SetConfig(c) \/ Store!ClearInSet(c) \/ Store!CloseAllDB(c)
      PROVE  Store!StoreInv'
  <2>1. toClose[c] = {} /\ UNCHANGED <<handle, store, lost, using, due, loaded>>
    BY <1>1 DEF Store!SetConfig, Store!ClearInSet, Store!CloseAllDB, Store!StoreInv, Store!ClosingInv, Store!users
  <2>2. PICK S \in SUBSET Paths : toClose' = [toClose EXCEPT ![c] = Store!InTable(S)] /\ Store!Removed(S)
    <3>1. CASE Store!SetConfig(c)
      BY <3>1 DEF Store!SetConfig, Store!TypeOK
    <3>2. CASE Store!ClearInSet(c) \/ Store!CloseAllDB(c)
      BY <3>2 DEF Store!ClearInSet, Store!CloseAllDB
    <3>3. QED
      BY <1>1, <3>1, <3>2
  <2>3. /\ step'[c] \in {"set", "cleared", "done"}
        /\ \A d \in (Events \cup Loaders \cup Configurers) \ {c} : step'[d] = step[d]
    BY <1>1, StepGoes DEF Store!SetConfig, Store!ClearInSet, Store!CloseAllDB, Store!Location
  <2>4. QED
    BY <2>1, <2>2, <2>3, StoreRemoves
<1>2. ASSUME NEW c \in Configurers, Store!SetReturns(c) PROVE Store!StoreInv'
  <2>1. toClose[c] = {} /\ UNCHANGED <<dbs, handle, store, lost, using, due, loaded, toClose>>
    BY <1>2 DEF Store!SetReturns, Store!files, Store!users
  <2>2. \A d \in (Events \cup Loaders \cup Configurers) \ {c} : step'[d] = step[d]
    BY <1>2, StepGoes DEF Store!SetReturns, Store!Location
  <2>3. FilesKept /\ UsersMove
    BY <2>1, <2>2, FilesSame, UsersStay, ServicesAssumption
  <2>4. Store!ClosingInv'
    BY <2>1, <2>2, <2>3 DEF Store!StoreInv, Store!ClosingInv, FilesKept, Store!TypeOK
  <2>5. QED
    BY <2>3, <2>4, UsersFrame
<1>3. ASSUME NEW c \in Configurers, Store!Configure(c) PROVE Store!StoreInv'
  BY <1>1, <1>2, <1>3, StoreCloses DEF Store!Configure
<1>4. ASSUME NEW u \in Events \cup Loaders, Store!Resolve(u) \/ Store!Use(u) PROVE Store!StoreInv'
  BY <1>4, StoreQuiet, StoreOpens DEF Store!Use
<1>5. ASSUME NEW e \in Events, Store!Publish(e) PROVE Store!StoreInv'
  BY <1>5, StoreQuiet, StoreAppends DEF Store!Publish
<1>6. ASSUME NEW l \in Loaders, Store!Load(l) PROVE Store!StoreInv'
  BY <1>6, StoreQuiet, StoreLoads DEF Store!Load
<1>7. CASE UNCHANGED Store!vars
  <2>1. UNCHANGED <<dbs, handle, store, lost, using, due, loaded, toClose, step>>
    BY <1>7 DEF Store!vars, Store!files, Store!users
  <2>2. QED
    BY <2>1, FilesSame, UsersStay, ClosingFrame, UsersFrame DEF Store!StoreInv
<1>8. QED
  BY <1>1, <1>3, <1>4, <1>5, <1>6, <1>7, StoreTicks DEF Store!Next, Store!Users

LEMMA DurableHolds == Store!TypeOK /\ Store!StoreInv => Durable
<1> SUFFICES ASSUME Store!TypeOK, Store!StoreInv PROVE Durable
  OBVIOUS
<1>1. ASSUME NEW p \in Paths
      PROVE  Cardinality(Store!AcceptedOn(p) \ (store[p] \cup lost)) < BatchSize
  <2>1. Store!AcceptedOn(p) \ (store[p] \cup lost) \subseteq Store!Pending(p)
    BY DEF Store!StoreInv, Store!AcceptedKept
  <2>2. IsFiniteSet(Store!Pending(p)) /\ Cardinality(Store!Pending(p)) < BatchSize
    <3>1. CASE \E h \in Store!Handles : handle[h].path = p /\ handle[h].state = "open"
      BY <3>1, PendingIsBatch, StoreFinite, StoreCardinality DEF Store!StoreInv, Store!HandlesInv, Store!Live
    <3>2. CASE ~\E h \in Store!Handles : handle[h].path = p /\ handle[h].state = "open"
      <4>1. Store!Pending(p) = {}
        BY <3>2 DEF Store!Pending
      <4>2. QED
        BY <4>1, FS_EmptySet, ServicesAssumption
    <3>3. QED
      BY <3>1, <3>2
  <2>3. /\ Cardinality(Store!AcceptedOn(p) \ (store[p] \cup lost)) <= Cardinality(Store!Pending(p))
        /\ Cardinality(Store!AcceptedOn(p) \ (store[p] \cup lost)) \in Nat /\ Cardinality(Store!Pending(p)) \in Nat
    BY <2>1, <2>2, FS_Subset, FS_CardinalityType
  <2>4. QED
    BY <2>2, <2>3, ServicesAssumption
<1>2. Store!AtRisk
  BY <1>1, StoreCardinality DEF Store!AtRisk
<1>3. QED
  BY <1>2 DEF Durable, Store!StoreInv

(* An event whose publish succeeded is on disk, in the batch of an open    *)
(* handle, or in one whose write failed, so that a crash costs a path less *)
(* than one batch; a load misses nothing that was accepted before it; and  *)
(* every open handle has an owner: for any users, paths and batch size.    *)
THEOREM EventsDurable == Store!Spec => []Durable
<1>1. Store!TypeOK /\ Store!StoreInv /\ [Store!Next]_(Store!vars) => (Store!TypeOK /\ Store!StoreInv)'
  BY StoreTyped, StoreStep
<1>2. QED
  BY <1>1, DurableHolds, StoreInit, PTL DEF Store!Spec

-----------------------------------------------------------------------------
(* The message bus.                                                        *)

(* Queues, as what is in them: what an arrival, a receive at the front and *)
(* a match in the middle do to it.                                         *)
LEMMA Appended ==
  ASSUME NEW T, NEW q \in Seq(T), NEW m \in T
  PROVE  /\ Append(q, m) \in Seq(T)
         /\ Bus!Elements(Append(q, m)) = Bus!Elements(q) \cup {m}
         /\ Bus!Distinct(q) /\ m \notin Bus!Elements(q) => Bus!Distinct(Append(q, m))
         /\ \A s : Bus!Rising(s, q) /\ Bus!Below(s, Bus!Elements(q), {m}) => Bus!Rising(s, Append(q, m))
<1> DEFINE p == Append(q, m)
<1>1. /\ p \in Seq(T) /\ DOMAIN p = 1 .. Len(q) + 1 /\ DOMAIN q = 1 .. Len(q) /\ Len(q) \in Nat
      /\ p[Len(q) + 1] = m /\ \A i \in 1 .. Len(q) : p[i] = q[i]
  OBVIOUS
<1>2. \A i \in DOMAIN p : i = Len(q) + 1 \/ i \in 1 .. Len(q)
  BY <1>1
<1> HIDE DEF p
<1>3. Bus!Elements(p) = Bus!Elements(q) \cup {m}
  BY <1>1, <1>2 DEF Bus!Elements
<1>4. ASSUME Bus!Distinct(q), m \notin Bus!Elements(q)
      PROVE  Bus!Distinct(p)
  BY <1>1, <1>2, <1>4 DEF Bus!Elements, Bus!Distinct
<1>5. ASSUME NEW s, Bus!Rising(s, q), Bus!Below(s, Bus!Elements(q), {m})
      PROVE  Bus!Rising(s, p)
  <2> SUFFICES ASSUME NEW i \in DOMAIN p, NEW j \in DOMAIN p, i < j,
                      Bus!Matches(s, p[i]), Bus!Matches(s, p[j])
               PROVE  p[i].of < p[j].of
    BY DEF Bus!Rising
  <2>1. i \in 1 .. Len(q) /\ p[i] = q[i] /\ p[i] \in Bus!Elements(q)
    BY <1>1, <1>2 DEF Bus!Elements
  <2>2. CASE j = Len(q) + 1
    BY <1>1, <1>5, <2>1, <2>2 DEF Bus!Below
  <2>3. CASE j \in 1 .. Len(q)
    BY <1>1, <1>5, <2>1, <2>3 DEF Bus!Rising
  <2>4. QED
    BY <1>2, <2>2, <2>3
<1>6. QED
  BY <1>1, <1>3, <1>4, <1>5 DEF p

LEMMA ElementsIn ==
  ASSUME NEW T, NEW q \in Seq(T)
  PROVE  Bus!Elements(q) \subseteq T
BY DEF Bus!Elements

(* One message less: the first one, or any other.                          *)
LEMMA Shortened ==
  ASSUME NEW T, NEW q \in Seq(T), NEW k \in DOMAIN q, NEW p \in Seq(T), Len(p) = Len(q) - 1,
         \A i \in DOMAIN p : p[i] = IF i < k THEN q[i] ELSE q[i + 1]
  PROVE  /\ q[k] \in T /\ q[k] \in Bus!Elements(q)
         /\ Bus!Elements(q) = Bus!Elements(p) \cup {q[k]}
         /\ Bus!Distinct(q) => Bus!Distinct(p) /\ q[k] \notin Bus!Elements(p)
         /\ \A s : Bus!Rising(s, q) => Bus!Rising(s, p)
<1>1. /\ DOMAIN q = 1 .. Len(q) /\ DOMAIN p = 1 .. Len(q) - 1 /\ Len(q) \in Nat /\ k \in 1 .. Len(q)
      /\ q[k] \in T
  OBVIOUS
<1> DEFINE moved(i) == IF i < k THEN i ELSE i + 1
<1>2. \A i \in DOMAIN p : moved(i) \in DOMAIN q \ {k} /\ p[i] = q[moved(i)]
  BY <1>1
<1>3. \A i, j \in DOMAIN p : (i < j => moved(i) < moved(j)) /\ (moved(i) = moved(j) => i = j)
  BY <1>1
<1>4. \A j \in DOMAIN q \ {k} : \E i \in DOMAIN p : moved(i) = j
  <2> TAKE j \in DOMAIN q \ {k}
  <2>1. CASE j < k
    BY <1>1, <2>1
  <2>2. CASE j > k
    <3>1. j - 1 \in DOMAIN p /\ moved(j - 1) = j
      BY <1>1, <2>2
    <3>2. QED
      BY <3>1
  <2>3. QED
    BY <1>1, <2>1, <2>2
<1> HIDE DEF moved
<1>5. q[k] \in Bus!Elements(q) /\ Bus!Elements(q) = Bus!Elements(p) \cup {q[k]}
  <2>1. \A j \in DOMAIN q \ {k} : \E i \in DOMAIN p : p[i] = q[j]
    BY <1>2, <1>4
  <2>2. QED
    BY <1>2, <2>1 DEF Bus!Elements
<1>6. ASSUME Bus!Distinct(q) PROVE Bus!Distinct(p) /\ q[k] \notin Bus!Elements(p)
  BY <1>2, <1>3, <1>6 DEF Bus!Distinct, Bus!Elements
<1>7. ASSUME NEW s, Bus!Rising(s, q) PROVE Bus!Rising(s, p)
  <2> SUFFICES ASSUME NEW i \in DOMAIN p, NEW j \in DOMAIN p, i < j,
                      Bus!Matches(s, p[i]), Bus!Matches(s, p[j])
               PROVE  p[i].of < p[j].of
    BY DEF Bus!Rising
  <2>1. moved(i) \in DOMAIN q /\ moved(j) \in DOMAIN q /\ moved(i) < moved(j) /\ p[i] = q[moved(i)] /\ p[j] = q[moved(j)]
    BY <1>2, <1>3
  <2>2. QED
    BY <1>7, <2>1 DEF Bus!Rising
<1>8. QED
  BY <1>1, <1>5, <1>6, <1>7

LEMMA Shifted ==
  ASSUME NEW T, NEW q \in Seq(T), q # <<>>
  PROVE  /\ Head(q) \in T /\ Tail(q) \in Seq(T) /\ Head(q) \in Bus!Elements(q)
         /\ Bus!Elements(q) = Bus!Elements(Tail(q)) \cup {Head(q)}
         /\ Bus!Distinct(q) => Bus!Distinct(Tail(q)) /\ Head(q) \notin Bus!Elements(Tail(q))
         /\ \A s : Bus!Rising(s, q) =>
              Bus!Rising(s, Tail(q)) /\ Bus!Below(s, {Head(q)}, Bus!Elements(Tail(q)))
<1>1. PICK p, k : p = Tail(q) /\ k = 1
  OBVIOUS
<1>2. /\ k \in DOMAIN q /\ Head(q) = q[k] /\ p \in Seq(T) /\ Len(p) = Len(q) - 1
      /\ \A i \in DOMAIN p : p[i] = IF i < k THEN q[i] ELSE q[i + 1]
  BY <1>1
<1>3. ASSUME NEW s, Bus!Rising(s, q) PROVE Bus!Below(s, {q[k]}, Bus!Elements(p))
  <2>1. \A i \in DOMAIN p : i + 1 \in DOMAIN q /\ k < i + 1 /\ p[i] = q[i + 1]
    BY <1>1
  <2>2. QED
    BY <1>2, <1>3, <2>1 DEF Bus!Rising, Bus!Below, Bus!Elements
<1>4. /\ q[k] \in T /\ q[k] \in Bus!Elements(q) /\ Bus!Elements(q) = Bus!Elements(p) \cup {q[k]}
      /\ Bus!Distinct(q) => Bus!Distinct(p) /\ q[k] \notin Bus!Elements(p)
      /\ \A s : Bus!Rising(s, q) => Bus!Rising(s, p)
  BY <1>2, Shortened
<1>5. QED
  BY <1>1, <1>2, <1>3, <1>4

LEMMA WithoutShortens ==
  ASSUME NEW T, NEW q \in Seq(T), NEW k \in DOMAIN q
  PROVE  /\ Bus!Without(q, k) \in Seq(T) /\ Len(Bus!Without(q, k)) = Len(q) - 1
         /\ \A i \in DOMAIN Bus!Without(q, k) :
              Bus!Without(q, k)[i] = IF i < k THEN q[i] ELSE q[i + 1]
<1> DEFINE f == SubSeq(q, 1, k - 1)
           b == SubSeq(q, k + 1, Len(q))
<1>1. k \in 1 .. Len(q) /\ Len(q) \in Nat
  OBVIOUS
<1>2. f \in Seq(T) /\ Len(f) = k - 1 /\ \A i \in 1 .. k - 1 : f[i] = q[i]
  BY <1>1
<1>3. b \in Seq(T) /\ Len(b) = Len(q) - k /\ \A i \in 1 .. Len(q) - k : b[i] = q[k + i]
  BY <1>1
<1> HIDE DEF f, b
<1>4. /\ f \o b \in Seq(T) /\ Len(f \o b) = Len(q) - 1
      /\ \A i \in 1 .. Len(q) - 1 : (f \o b)[i] = IF i < k THEN q[i] ELSE q[i + 1]
  <2>1. f \o b \in Seq(T) /\ Len(f \o b) = Len(q) - 1
    BY <1>1, <1>2, <1>3
  <2>2. ASSUME NEW i \in 1 .. Len(q) - 1, i < k PROVE (f \o b)[i] = q[i]
    <3>1. i \in 1 .. Len(f)
      BY <1>1, <1>2, <2>2
    <3>2. (f \o b)[i] = f[i]
      BY <1>2, <1>3, <3>1
    <3>3. QED
      BY <1>2, <3>1, <3>2
  <2>3. ASSUME NEW i \in 1 .. Len(q) - 1, ~(i < k) PROVE (f \o b)[i] = q[i + 1]
    <3>1. i \in Len(f) + 1 .. Len(f) + Len(b) /\ i - Len(f) \in 1 .. Len(q) - k
      BY <1>1, <1>2, <1>3, <2>3
    <3>2. i \in 1 .. Len(f) + Len(b) /\ ~(i <= Len(f))
      BY <1>1, <1>2, <1>3, <3>1
    <3>3. (f \o b)[i] = IF i <= Len(f) THEN f[i] ELSE b[i - Len(f)]
      BY <1>2, <1>3, <3>2, ConcatProperties
    <3>4. k + (i - Len(f)) = i + 1
      BY <1>1, <1>2
    <3>5. QED
      BY <1>3, <3>1, <3>2, <3>4, <3>3
  <2>4. QED
    BY <2>1, <2>2, <2>3
<1>5. DOMAIN (f \o b) = 1 .. Len(q) - 1
  BY <1>4
<1>6. QED
  BY <1>4, <1>5 DEF Bus!Without, f, b

(* A connection nobody has used yet.                                       *)
LEMMA BusStarts == Bus!Init => Bus!TypeOK /\ Bus!BusInv
<1> SUFFICES ASSUME Bus!Init PROVE Bus!TypeOK /\ Bus!BusInv
  OBVIOUS
<1> USE BusAssumption
<1>1. Bus!TypeOK
  <2>1. /\ scene \in BusScenes /\ hasCall \in BOOLEAN /\ open \in BOOLEAN /\ readErr \in BOOLEAN
        /\ reader = "off" /\ ~readErr
    BY DEF Bus!Init
  <2>2. accepts \in SUBSET {"object", "string"} /\ sendMode \in {"unknown", "object", "string"}
    BY DEF Bus!Init
  <2>3. /\ writeCh = <<>> /\ incoming = <<>> /\ inbox = <<>> /\ peerSent = {} /\ holder = None /\ closed = {}
        /\ Len(writeCh) <= WriteQueue
    BY DEF Bus!Init
  <2>4. delivered \in [Bus!Clients -> 0 .. 2] /\ taken \in [Bus!Clients -> Seq(Bus!Message)]
    BY DEF Bus!Init
  <2>5. place \in [Bus!Clients -> Bus!Location]
    BY DEF Bus!Init, Bus!Location
  <2>6. QED
    BY <2>1, <2>2, <2>3, <2>4, <2>5 DEF Bus!TypeOK, Bus!Reader
<1>2. /\ incoming = <<>> /\ inbox = <<>> /\ peerSent = {} /\ writeCh = <<>> /\ holder = None
      /\ \A c \in Bus!Clients : taken[c] = <<>> /\ delivered[c] = 0 /\ place[c] \in {"idle", "absent"}
  BY DEF Bus!Init
<1>3. Bus!SendInv
  BY <1>2 DEF Bus!SendInv, Bus!Distinct, Bus!Elements
<1>4. Bus!PlacesInv
  BY <1>2 DEF Bus!PlacesInv, Bus!Distinct, Bus!Elements
<1>5. Bus!OrderInv
  BY <1>2 DEF Bus!OrderInv, Bus!Rising, Bus!Below, Bus!Elements, Bus!Clients
<1>6. Bus!CallInv
  BY <1>2 DEF Bus!CallInv, Bus!CallFailsWithConnection, Bus!Clients
<1>7. Bus!NoLostWakeup
  BY <1>2 DEF Bus!NoLostWakeup
<1>8. QED
  BY <1>1, <1>3, <1>4, <1>5, <1>6, <1>7 DEF Bus!BusInv

(* The types: a client sends once, so that it is delivered at most once.   *)
LEMMA OneMore ==
  ASSUME NEW S, NEW f \in [S -> 0 .. 2], NEW c \in S, f[c] = 0
  PROVE  [f EXCEPT ![c] = f[c] + 1] \in [S -> 0 .. 2]
OBVIOUS

LEMMA BusTyped ==
  ASSUME Bus!TypeOK, Bus!BusInv, [Bus!Next]_Bus!vars
  PROVE  Bus!TypeOK'
<1> USE BusAssumption DEF Bus!Location, Bus!Reader, Bus!connection, Bus!writing, Bus!reading
<1>1. ASSUME NEW c \in Bus!Clients, Bus!ConnSend(c) PROVE Bus!TypeOK'
  <2>1. writeCh' \in Seq(Bus!Clients) /\ Len(writeCh') <= WriteQueue
    BY <1>1 DEF Bus!ConnSend, Bus!TypeOK
  <2>2. QED
    BY <1>1, <2>1 DEF Bus!ConnSend, Bus!TypeOK
<1>2. ASSUME Bus!WriterLoop PROVE Bus!TypeOK'
  <2> DEFINE c == Head(writeCh)
  <2>1. /\ writeCh \in Seq(Bus!Clients) /\ writeCh # <<>> /\ c \in Bus!Clients /\ c \in Bus!Elements(writeCh)
        /\ writeCh' \in Seq(Bus!Clients) /\ Len(writeCh') <= WriteQueue
    BY <1>2 DEF Bus!WriterLoop, Bus!TypeOK, Bus!Elements
  <2>2. delivered[c] = 0
    BY <2>1 DEF Bus!BusInv, Bus!SendInv, Bus!Behind
  <2>3. Bus!SendKnown(c) \/ Bus!SendProbing(c)
    BY <1>2 DEF Bus!WriterLoop
  <2> HIDE DEF c
  <2>4. /\ delivered' \in [Bus!Clients -> 0 .. 2] /\ sendMode' \in {"unknown", "object", "string"}
        /\ place' \in [Bus!Clients -> Bus!Location]
    <3>1. place' \in [Bus!Clients -> Bus!Location]
      BY <2>3 DEF Bus!SendKnown, Bus!SendProbing, Bus!SendReturns, Bus!TypeOK
    <3>2. sendMode' \in {"unknown", "object", "string"}
      BY <2>3 DEF Bus!SendKnown, Bus!SendProbing, Bus!TypeOK
    <3>3. delivered' = delivered \/ delivered' = [delivered EXCEPT ![c] = delivered[c] + 1]
      BY <2>3 DEF Bus!SendKnown, Bus!SendProbing, Bus!Deliver
    <3>4. delivered' \in [Bus!Clients -> 0 .. 2]
      <4>1. delivered \in [Bus!Clients -> 0 .. 2] /\ c \in Bus!Clients
        BY <2>1 DEF Bus!TypeOK
      <4>2. [delivered EXCEPT ![c] = delivered[c] + 1] \in [Bus!Clients -> 0 .. 2]
        BY <2>2, <4>1, OneMore
      <4>3. QED
        BY <3>3, <4>1, <4>2
    <3>5. QED
      BY <3>1, <3>2, <3>4
  <2>5. QED
    BY <1>2, <2>1, <2>4 DEF Bus!WriterLoop, Bus!TypeOK
<1>3. ASSUME NEW c \in Bus!Clients, Bus!IpcSend(c) PROVE Bus!TypeOK'
  <2>1. delivered[c] = 0
    BY <1>3 DEF Bus!IpcSend, Bus!BusInv, Bus!SendInv, Bus!Behind
  <2>2. place' \in [Bus!Clients -> Bus!Location]
    BY <1>3 DEF Bus!IpcSend, Bus!TypeOK
  <2>3. delivered' = delivered \/ delivered' = [delivered EXCEPT ![c] = delivered[c] + 1]
    BY <1>3 DEF Bus!IpcSend, Bus!Deliver
  <2>4. delivered' \in [Bus!Clients -> 0 .. 2]
    <3>1. delivered \in [Bus!Clients -> 0 .. 2]
      BY DEF Bus!TypeOK
    <3>2. [delivered EXCEPT ![c] = delivered[c] + 1] \in [Bus!Clients -> 0 .. 2]
      BY <2>1, <3>1, OneMore
    <3>3. QED
      BY <2>3, <3>1, <3>2
  <2>5. QED
    BY <1>3, <2>2, <2>4 DEF Bus!IpcSend, Bus!TypeOK
<1>4. ASSUME NEW c \in Bus!Clients, Bus!BeginMatch(c) \/ Bus!MatchFails(c) \/ Bus!MatchWaits(c) \/ Bus!NextOfClosed(c)
      PROVE  Bus!TypeOK'
  <2>1. place' \in [Bus!Clients -> Bus!Location]
    BY <1>4 DEF Bus!BeginMatch, Bus!MatchFails, Bus!MatchWaits, Bus!NextOfClosed, Bus!TypeOK
  <2>2. /\ reader' \in Bus!Reader /\ (reader' = "ended" <=> reader = "ended")
        /\ (reader = "running" => reader' = "running")
    BY <1>4 DEF Bus!BeginMatch, Bus!MatchFails, Bus!MatchWaits, Bus!NextOfClosed, Bus!TypeOK
  <2>3. UNCHANGED <<scene, hasCall, accepts, open, peerSent, sendMode, writeCh, delivered, incoming, holder,
                    readErr, inbox, closed, taken>>
    BY <1>4 DEF Bus!BeginMatch, Bus!MatchFails, Bus!MatchWaits, Bus!NextOfClosed
  <2>4. QED
    BY <2>1, <2>2, <2>3 DEF Bus!TypeOK
<1>5. ASSUME NEW s \in BusSubscribers, Bus!Close(s) PROVE Bus!TypeOK'
  BY <1>5 DEF Bus!Close, Bus!TypeOK
<1>6. ASSUME NEW c \in Bus!Clients, Bus!TakeMatch(c) PROVE Bus!TypeOK'
  <2>1. PICK i \in DOMAIN inbox : inbox' = Bus!Without(inbox, i) /\ taken' = [taken EXCEPT ![c] = Append(@, inbox[i])]
    <3>1. PICK i \in Bus!First(Bus!Matching(c)) :
             inbox' = Bus!Without(inbox, i) /\ taken' = [taken EXCEPT ![c] = Append(@, inbox[i])]
      BY <1>6 DEF Bus!TakeMatch
    <3>2. i \in 1 .. Len(inbox) /\ inbox \in Seq(Bus!Message)
      BY DEF Bus!First, Bus!Matching, Bus!TypeOK
    <3>3. i \in DOMAIN inbox
      BY <3>2
    <3>4. QED
      BY <3>1, <3>3
  <2>2. inbox' \in Seq(Bus!Message)
    BY <2>1, WithoutShortens DEF Bus!TypeOK
  <2>3. taken' \in [Bus!Clients -> Seq(Bus!Message)]
    <3>1. inbox[i] \in Bus!Message /\ taken[c] \in Seq(Bus!Message)
      BY DEF Bus!TypeOK
    <3>2. Append(taken[c], inbox[i]) \in Seq(Bus!Message)
      BY <3>1
    <3>3. QED
      BY <2>1, <3>2 DEF Bus!TypeOK
  <2>4. place' \in [Bus!Clients -> Bus!Location]
    BY <1>6 DEF Bus!TakeMatch, Bus!AfterMatch, Bus!TypeOK
  <2>5. QED
    BY <1>6, <2>2, <2>3, <2>4 DEF Bus!TakeMatch, Bus!TypeOK
<1>7. ASSUME NEW r \in BusCallers \cup {"reader"}, Bus!EnterRecv(r) PROVE Bus!TypeOK'
  BY <1>7 DEF Bus!EnterRecv, Bus!TypeOK
<1>8. ASSUME Bus!ReaderReceives \/ Bus!ReaderEnds PROVE Bus!TypeOK'
  <2>1. place' \in [Bus!Clients -> Bus!Location]
    BY <1>8 DEF Bus!ReaderReceives, Bus!ReaderEnds, Bus!Broadcast, Bus!TypeOK
  <2>2. /\ (incoming # <<>> /\ incoming' = Tail(incoming)) \/ incoming' = incoming
        /\ inbox' = inbox \/ (incoming # <<>> /\ inbox' = Append(inbox, Head(incoming)))
    BY <1>8 DEF Bus!ReaderReceives, Bus!ReaderEnds
  <2>3. incoming' \in Seq(Bus!Message) /\ inbox' \in Seq(Bus!Message)
    <3>1. incoming \in Seq(Bus!Message) /\ inbox \in Seq(Bus!Message)
      BY DEF Bus!TypeOK
    <3>2. incoming # <<>> => Head(incoming) \in Bus!Message /\ Tail(incoming) \in Seq(Bus!Message)
      BY <3>1
    <3>3. incoming # <<>> => Append(inbox, Head(incoming)) \in Seq(Bus!Message)
      BY <3>1, <3>2
    <3>4. QED
      BY <2>2, <3>1, <3>2, <3>3
  <2>4. /\ holder' = None
        /\ (reader' = reader /\ readErr' = readErr) \/ (reader' = "ended" /\ readErr' = TRUE)
    BY <1>8 DEF Bus!ReaderReceives, Bus!ReaderEnds
  <2>5. UNCHANGED <<scene, hasCall, accepts, open, peerSent, sendMode, writeCh, delivered, closed, taken>>
    BY <1>8 DEF Bus!ReaderReceives, Bus!ReaderEnds
  <2>6. QED
    <3>1. reader' \in Bus!Reader /\ readErr' \in BOOLEAN /\ (readErr' <=> reader' = "ended")
      <4>1. reader \in Bus!Reader /\ readErr \in BOOLEAN /\ (readErr <=> reader = "ended")
        BY DEF Bus!TypeOK
      <4>2. CASE reader' = reader /\ readErr' = readErr
        BY <4>1, <4>2
      <4>3. CASE reader' = "ended" /\ readErr' = TRUE
        BY <4>3
      <4>4. QED
        BY <2>4, <4>2, <4>3
    <3>2. holder' # "reader" /\ holder' \in BusCallers \cup {None, "reader"}
      BY <2>4
    <3>3. QED
      BY <2>1, <2>3, <2>5, <3>1, <3>2 DEF Bus!TypeOK
<1>9. ASSUME NEW c \in BusCallers, Bus!IpcCallReceives(c) PROVE Bus!TypeOK'
  <2>1. taken' \in [Bus!Clients -> Seq(Bus!Message)]
    <3>1. Head(incoming) \in Bus!Message /\ taken[c] \in Seq(Bus!Message) /\ c \in Bus!Clients
      BY <1>9 DEF Bus!IpcCallReceives, Bus!TypeOK, Bus!Clients
    <3>2. Append(taken[c], Head(incoming)) \in Seq(Bus!Message)
      BY <3>1
    <3>3. QED
      BY <1>9, <3>1, <3>2 DEF Bus!IpcCallReceives, Bus!TypeOK
  <2>2. incoming' \in Seq(Bus!Message)
    BY <1>9 DEF Bus!IpcCallReceives, Bus!TypeOK
  <2>3. place' \in [Bus!Clients -> Bus!Location]
    BY <1>9 DEF Bus!IpcCallReceives, Bus!TypeOK
  <2>4. QED
    BY <1>9, <2>1, <2>2, <2>3 DEF Bus!IpcCallReceives, Bus!TypeOK
<1>10. ASSUME NEW c \in BusCallers, Bus!IpcCallEnds(c) PROVE Bus!TypeOK'
  BY <1>10 DEF Bus!IpcCallEnds, Bus!TypeOK
<1>11. ASSUME Bus!PeerSends PROVE Bus!TypeOK'
  <2>1. PICK m \in Bus!Message : peerSent' = peerSent \cup {m} /\ incoming' = Append(incoming, m)
    BY <1>11 DEF Bus!PeerSends
  <2>2. incoming' \in Seq(Bus!Message) /\ peerSent' \subseteq Bus!Message
    BY <2>1 DEF Bus!TypeOK
  <2>3. QED
    BY <1>11, <2>2 DEF Bus!PeerSends, Bus!TypeOK
<1>12. ASSUME Bus!ConnectionEnds PROVE Bus!TypeOK'
  BY <1>12 DEF Bus!ConnectionEnds, Bus!TypeOK
<1>13. ASSUME UNCHANGED Bus!vars PROVE Bus!TypeOK'
  BY <1>13 DEF Bus!vars, Bus!TypeOK
<1>14. QED
  BY <1>1, <1>2, <1>3, <1>4, <1>5, <1>6, <1>7, <1>8, <1>9, <1>10, <1>11, <1>12, <1>13
     DEF Bus!Next, Bus!ReaderLoop, Bus!IpcRecv, Bus!RecvMatch, Bus!Clients

(* Who may have been delivered: the steps that do not send.                *)
LEMMA SendFrame ==
  ASSUME Bus!TypeOK, Bus!SendInv, UNCHANGED <<writeCh, delivered>>,
         \A d \in Bus!Clients :
           place'[d] = place[d] \/ (place[d] # "sending" /\ (delivered[d] = 0 \/ Bus!Behind(d)'))
  PROVE  Bus!SendInv'
<1>1. Bus!Distinct(writeCh)' /\ Bus!Elements(writeCh)' = Bus!Elements(writeCh)
  BY DEF Bus!SendInv, Bus!Distinct, Bus!Elements
<1>2. Bus!Elements(writeCh) \subseteq Bus!Clients
  BY DEF Bus!Elements, Bus!TypeOK
<1>3. \A c \in Bus!Elements(writeCh) : place'[c] = "sending"
  BY <1>2 DEF Bus!SendInv
<1>4. \A c \in Bus!Clients : delivered'[c] = 0 \/ (delivered'[c] = 1 /\ Bus!Behind(c)')
  BY DEF Bus!SendInv, Bus!Behind
<1>5. QED
  BY <1>1, <1>3, <1>4 DEF Bus!SendInv

LEMMA SendKept ==
  ASSUME Bus!TypeOK, Bus!BusInv, [Bus!Next]_Bus!vars
  PROVE  Bus!SendInv'
<1> USE BusAssumption DEF Bus!connection, Bus!writing, Bus!reading
<1>1. Bus!SendInv /\ place \in [Bus!Clients -> Bus!Location]
  BY DEF Bus!BusInv, Bus!TypeOK
<1>2. ASSUME NEW c \in Bus!Clients, Bus!ConnSend(c) PROVE Bus!SendInv'
  <2>1. /\ place[c] \in {"idle", "received"} /\ writeCh' = Append(writeCh, c) /\ delivered' = delivered
        /\ place'[c] = "sending" /\ \A d \in Bus!Clients \ {c} : place'[d] = place[d]
    BY <1>1, <1>2 DEF Bus!ConnSend, Bus!Sends
  <2>2. c \notin Bus!Elements(writeCh)
    BY <1>1, <2>1 DEF Bus!SendInv
  <2>3. writeCh \in Seq(Bus!Clients) /\ Bus!Elements(writeCh) \subseteq Bus!Clients /\ Bus!Distinct(writeCh)
    BY <1>1, ElementsIn DEF Bus!SendInv, Bus!TypeOK
  <2>4. Bus!Distinct(writeCh') /\ Bus!Elements(writeCh') = Bus!Elements(writeCh) \cup {c}
    <3>1. /\ Bus!Elements(Append(writeCh, c)) = Bus!Elements(writeCh) \cup {c}
          /\ Bus!Distinct(Append(writeCh, c))
      BY <2>2, <2>3, Appended
    <3>2. QED
      BY <2>1, <3>1
  <2>5. delivered'[c] = 0 /\ \A d \in Bus!Clients \ {c} : delivered'[d] = 0 \/ (delivered'[d] = 1 /\ Bus!Behind(d)')
    BY <1>1, <2>1 DEF Bus!SendInv, Bus!Behind
  <2>6. \A d \in Bus!Elements(writeCh') : place'[d] = "sending"
    BY <1>1, <2>1, <2>3, <2>4 DEF Bus!SendInv
  <2>7. QED
    BY <2>4, <2>5, <2>6 DEF Bus!SendInv
<1>3. ASSUME Bus!WriterLoop PROVE Bus!SendInv'
  <2> PICK c : c = Head(writeCh)
    OBVIOUS
  <2>1. writeCh \in Seq(Bus!Clients) /\ writeCh # <<>> /\ c \in Bus!Clients /\ writeCh' = Tail(writeCh)
    BY <1>3 DEF Bus!WriterLoop, Bus!TypeOK
  <2>2. /\ Bus!Elements(writeCh) = Bus!Elements(writeCh') \cup {c} /\ c \in Bus!Elements(writeCh)
        /\ Bus!Distinct(writeCh') /\ c \notin Bus!Elements(writeCh')
    <3>1. Bus!Distinct(writeCh)
      BY <1>1 DEF Bus!SendInv
    <3>2. /\ Bus!Elements(writeCh) = Bus!Elements(Tail(writeCh)) \cup {c} /\ c \in Bus!Elements(writeCh)
          /\ Bus!Distinct(Tail(writeCh)) /\ c \notin Bus!Elements(Tail(writeCh))
      BY <2>1, <3>1, Shifted
    <3>3. QED
      BY <2>1, <3>2
  <2>3. Bus!SendKnown(c) \/ Bus!SendProbing(c)
    BY <1>3 DEF Bus!WriterLoop
  <2>4. place[c] = "sending" /\ delivered[c] = 0
    BY <1>1, <2>1, <2>2 DEF Bus!SendInv, Bus!Behind
  <2>5. \A d \in Bus!Clients \ {c} : place'[d] = place[d] /\ delivered'[d] = delivered[d]
    BY <1>1, <2>3 DEF Bus!SendKnown, Bus!SendProbing, Bus!SendReturns, Bus!Deliver, Bus!TypeOK
  <2>6. delivered'[c] = 0 \/ (delivered'[c] = 1 /\ Bus!SendReturns(c, TRUE))
    <3>1. delivered' = delivered \/ (delivered' = [delivered EXCEPT ![c] = delivered[c] + 1] /\ Bus!SendReturns(c, TRUE))
      BY <2>3 DEF Bus!SendKnown, Bus!SendProbing, Bus!Deliver
    <3>2. delivered \in [Bus!Clients -> 0 .. 2]
      BY DEF Bus!TypeOK
    <3>3. [delivered EXCEPT ![c] = delivered[c] + 1][c] = 1
      BY <2>1, <2>4, <3>2
    <3>4. QED
      BY <2>4, <3>1, <3>3
  <2>7. Bus!SendReturns(c, TRUE) => Bus!Behind(c)'
    <3>1. ASSUME Bus!SendReturns(c, TRUE) PROVE place'[c] = IF c \in BusCallers THEN "sent" ELSE "done"
      <4>1. place' = [place EXCEPT ![c] = IF c \in BusCallers THEN "sent" ELSE "done"]
        BY <3>1 DEF Bus!SendReturns
      <4>2. QED
        BY <1>1, <2>1, <4>1
    <3>2. QED
      BY <3>1 DEF Bus!Behind
  <2>8. \A d \in Bus!Elements(writeCh') : place'[d] = "sending"
    <3>1. Bus!Elements(writeCh') \subseteq Bus!Clients \ {c}
      BY <2>1, <2>2, ElementsIn
    <3>2. QED
      BY <1>1, <2>2, <2>5, <3>1 DEF Bus!SendInv
  <2>9. \A d \in Bus!Clients \ {c} : delivered'[d] = 0 \/ (delivered'[d] = 1 /\ Bus!Behind(d)')
    BY <1>1, <2>5 DEF Bus!SendInv, Bus!Behind
  <2>10. \A d \in Bus!Clients : delivered'[d] = 0 \/ (delivered'[d] = 1 /\ Bus!Behind(d)')
    BY <2>6, <2>7, <2>9
  <2>11. QED
    BY <2>2, <2>8, <2>10 DEF Bus!SendInv
<1>4. ASSUME NEW c \in Bus!Clients, Bus!IpcSend(c) PROVE Bus!SendInv'
  <2>1. /\ place[c] \in {"idle", "received"} /\ c \in BusCallers \cup BusReceivers /\ writeCh' = writeCh
        /\ \A d \in Bus!Clients \ {c} : place'[d] = place[d]
    BY <1>1, <1>4 DEF Bus!IpcSend
  <2>2. c \notin Bus!Elements(writeCh) /\ Bus!Elements(writeCh) \subseteq Bus!Clients /\ delivered[c] = 0
    <3>1. writeCh \in Seq(Bus!Clients)
      BY DEF Bus!TypeOK
    <3>2. QED
      BY <1>1, <2>1, <3>1, ElementsIn DEF Bus!SendInv, Bus!Behind
  <2>3. delivered' = delivered \/ (delivered' = [delivered EXCEPT ![c] = delivered[c] + 1] /\ Bus!Behind(c)')
    BY <1>1, <1>4, <2>1 DEF Bus!IpcSend, Bus!Deliver, Bus!Behind
  <2>4. /\ delivered'[c] = 0 \/ (delivered'[c] = 1 /\ Bus!Behind(c)')
        /\ \A d \in Bus!Clients \ {c} : delivered'[d] = delivered[d]
    <3>1. delivered \in [Bus!Clients -> 0 .. 2]
      BY DEF Bus!TypeOK
    <3>2. QED
      BY <2>2, <2>3, <3>1
  <2>5. \A d \in Bus!Clients \ {c} : delivered'[d] = 0 \/ (delivered'[d] = 1 /\ Bus!Behind(d)')
    BY <1>1, <2>1, <2>4 DEF Bus!SendInv, Bus!Behind
  <2>6. Bus!Distinct(writeCh') /\ \A d \in Bus!Elements(writeCh') : place'[d] = "sending"
    BY <1>1, <2>1, <2>2 DEF Bus!SendInv
  <2>7. QED
    BY <2>4, <2>5, <2>6 DEF Bus!SendInv
<1>5. ASSUME NEW c \in Bus!Clients,
             Bus!BeginMatch(c) \/ Bus!TakeMatch(c) \/ Bus!MatchFails(c) \/ Bus!MatchWaits(c) \/ Bus!NextOfClosed(c)
      PROVE  Bus!SendInv'
  <2>1. /\ place[c] \notin {"sending", "done", "failed"} /\ \A d \in Bus!Clients \ {c} : place'[d] = place[d]
        /\ c \in BusCallers => place'[c] \in {"checking", "waiting", "done", "failed"}
    BY <1>1, <1>5 DEF Bus!BeginMatch, Bus!TakeMatch, Bus!AfterMatch, Bus!MatchFails, Bus!MatchWaits, Bus!NextOfClosed,
         Bus!TypeOK
  <2>2. delivered[c] = 0 \/ Bus!Behind(c)'
    BY <1>1, <2>1 DEF Bus!SendInv, Bus!Behind
  <2>3. UNCHANGED <<writeCh, delivered>>
    BY <1>5 DEF Bus!BeginMatch, Bus!TakeMatch, Bus!MatchFails, Bus!MatchWaits, Bus!NextOfClosed
  <2>4. QED
    BY <1>1, <2>1, <2>2, <2>3, SendFrame
<1>6. ASSUME NEW c \in BusCallers, Bus!IpcCallReceives(c) \/ Bus!IpcCallEnds(c) PROVE Bus!SendInv'
  <2>1. /\ place[c] = "reading" /\ place'[c] \in {"done", "failed"} /\ c \in Bus!Clients
        /\ \A d \in Bus!Clients \ {c} : place'[d] = place[d]
    BY <1>1, <1>6 DEF Bus!IpcCallReceives, Bus!IpcCallEnds, Bus!BusInv, Bus!CallInv, Bus!Clients
  <2>2. UNCHANGED <<writeCh, delivered>>
    BY <1>6 DEF Bus!IpcCallReceives, Bus!IpcCallEnds
  <2>3. Bus!Behind(c)'
    BY <2>1 DEF Bus!Behind
  <2>4. QED
    BY <1>1, <2>1, <2>2, <2>3, SendFrame
<1>7. ASSUME Bus!ReaderReceives \/ Bus!ReaderEnds PROVE Bus!SendInv'
  <2>1. UNCHANGED <<writeCh, delivered>> /\ Bus!Broadcast
    BY <1>7 DEF Bus!ReaderReceives, Bus!ReaderEnds
  <2>2. \A d \in Bus!Clients : place'[d] = place[d] \/ (place[d] # "sending" /\ (delivered[d] = 0 \/ Bus!Behind(d)'))
    BY <1>1, <2>1 DEF Bus!Broadcast, Bus!SendInv, Bus!Behind
  <2>3. QED
    BY <1>1, <2>1, <2>2, SendFrame
<1>8. ASSUME UNCHANGED <<writeCh, delivered, place>> PROVE Bus!SendInv'
  BY <1>1, <1>8, SendFrame
<1>9. ASSUME \/ Bus!EnterRecv("reader") \/ \E c \in BusCallers : Bus!EnterRecv(c)
             \/ \E s \in BusSubscribers : Bus!Close(s)
             \/ Bus!PeerSends \/ Bus!ConnectionEnds \/ UNCHANGED Bus!vars
      PROVE  UNCHANGED <<writeCh, delivered, place>>
  BY <1>9 DEF Bus!EnterRecv, Bus!Close, Bus!PeerSends, Bus!ConnectionEnds, Bus!vars
<1>10. QED
  BY <1>2, <1>3, <1>4, <1>5, <1>6, <1>7, <1>8, <1>9
     DEF Bus!Next, Bus!ReaderLoop, Bus!IpcRecv, Bus!RecvMatch, Bus!Clients

(* Where the messages are, and in which order.                             *)
LEMMA QueuesSame ==
  ASSUME Bus!PlacesInv, Bus!OrderInv, UNCHANGED <<peerSent, incoming, inbox, taken>>
  PROVE  Bus!PlacesInv' /\ Bus!OrderInv'
<1>1. Bus!PlacesInv'
  BY DEF Bus!PlacesInv
<1>2. Bus!OrderInv'
  BY DEF Bus!OrderInv
<1>3. QED
  BY <1>1, <1>2

LEMMA QueuesTyped ==
  ASSUME Bus!TypeOK, Bus!BusInv
  PROVE  /\ incoming \in Seq(Bus!Message) /\ inbox \in Seq(Bus!Message) /\ peerSent \subseteq Bus!Message
         /\ taken \in [Bus!Clients -> Seq(Bus!Message)] /\ Bus!PlacesInv /\ Bus!OrderInv
         /\ Bus!Distinct(incoming) /\ Bus!Distinct(inbox) /\ \A c \in Bus!Clients : Bus!Distinct(taken[c])
BY DEF Bus!TypeOK, Bus!BusInv, Bus!PlacesInv

LEMMA EventShape ==
  ASSUME NEW m \in Bus!Message, m.kind = "event"
  PROVE  m = [kind |-> "event", of |-> m.of] /\ m.of \in 1 .. MaxEvents
<1>1. m \in [kind : {"event"}, of : 1 .. MaxEvents]
  BY DEF Bus!Message, Bus!EventIds
<1>2. QED
  BY <1>1

LEMMA TakeKeeps ==
  ASSUME Bus!TypeOK, Bus!BusInv, NEW c \in Bus!Clients, Bus!TakeMatch(c)
  PROVE  Bus!PlacesInv' /\ Bus!OrderInv'
<1>1. PICK k \in Bus!First(Bus!Matching(c)) :
         inbox' = Bus!Without(inbox, k) /\ taken' = [taken EXCEPT ![c] = Append(@, inbox[k])]
  BY DEF Bus!TakeMatch
<1>2. PICK m, box, mine : m = inbox[k] /\ box = Bus!Without(inbox, k) /\ mine = Append(taken[c], m)
  OBVIOUS
<1>3. /\ k \in DOMAIN inbox /\ Bus!Matches(c, m)
      /\ \A j \in DOMAIN inbox : Bus!Matches(c, inbox[j]) => k <= j
  <2>1. inbox \in Seq(Bus!Message)
    BY QueuesTyped
  <2>2. DOMAIN inbox = 1 .. Len(inbox)
    BY <2>1
  <2>3. QED
    BY <1>2, <2>2 DEF Bus!First, Bus!Matching
<1>4. /\ peerSent' = peerSent /\ incoming' = incoming /\ inbox' = box
      /\ taken'[c] = mine /\ \A d \in Bus!Clients \ {c} : taken'[d] = taken[d]
  <2>1. taken \in [Bus!Clients -> Seq(Bus!Message)]
    BY QueuesTyped
  <2>2. peerSent' = peerSent /\ incoming' = incoming
    BY DEF Bus!TakeMatch, Bus!connection
  <2>3. inbox' = box /\ taken' = [taken EXCEPT ![c] = mine]
    BY <1>1, <1>2
  <2>4. QED
    BY <2>1, <2>2, <2>3
<1>5. /\ m \in Bus!Message /\ m \in Bus!Elements(inbox) /\ Bus!Elements(inbox) = Bus!Elements(box) \cup {m}
      /\ Bus!Distinct(box) /\ m \notin Bus!Elements(box)
      /\ \A s : Bus!Rising(s, inbox) => Bus!Rising(s, box)
  <2>1. inbox \in Seq(Bus!Message) /\ Bus!Distinct(inbox)
    BY QueuesTyped
  <2>2. /\ box \in Seq(Bus!Message) /\ Len(box) = Len(inbox) - 1
        /\ \A i \in DOMAIN box : box[i] = IF i < k THEN inbox[i] ELSE inbox[i + 1]
    <3>1. /\ Bus!Without(inbox, k) \in Seq(Bus!Message) /\ Len(Bus!Without(inbox, k)) = Len(inbox) - 1
          /\ \A i \in DOMAIN Bus!Without(inbox, k) :
               Bus!Without(inbox, k)[i] = IF i < k THEN inbox[i] ELSE inbox[i + 1]
      BY <1>3, <2>1, WithoutShortens
    <3>2. QED
      BY <1>2, <3>1
  <2>3. /\ inbox[k] \in Bus!Message /\ inbox[k] \in Bus!Elements(inbox)
        /\ Bus!Elements(inbox) = Bus!Elements(box) \cup {inbox[k]}
        /\ Bus!Distinct(inbox) => Bus!Distinct(box) /\ inbox[k] \notin Bus!Elements(box)
        /\ \A s : Bus!Rising(s, inbox) => Bus!Rising(s, box)
    <3>1. inbox \in Seq(Bus!Message) /\ k \in DOMAIN inbox
      BY <1>3, <2>1
    <3>2. QED
      BY <2>2, <3>1, Shortened
  <2>4. QED
    BY <1>2, <2>1, <2>3
<1>6. m \notin Bus!Elements(taken[c]) /\ taken[c] \in Seq(Bus!Message) /\ Bus!Distinct(taken[c])
  BY <1>5, QueuesTyped DEF Bus!PlacesInv
<1>7. /\ Bus!Elements(mine) = Bus!Elements(taken[c]) \cup {m} /\ Bus!Distinct(mine)
      /\ \A s : Bus!Rising(s, taken[c]) /\ Bus!Below(s, Bus!Elements(taken[c]), {m}) => Bus!Rising(s, mine)
  <2>1. PICK q : q = taken[c]
    OBVIOUS
  <2>2. /\ Bus!Elements(Append(q, m)) = Bus!Elements(q) \cup {m} /\ Bus!Distinct(Append(q, m))
        /\ \A s : Bus!Rising(s, q) /\ Bus!Below(s, Bus!Elements(q), {m}) => Bus!Rising(s, Append(q, m))
    <3>1. q \in Seq(Bus!Message) /\ m \in Bus!Message /\ Bus!Distinct(q) /\ m \notin Bus!Elements(q)
      BY <1>5, <1>6, <2>1
    <3>2. QED
      BY <3>1, Appended
  <2>3. QED
    BY <1>2, <2>1, <2>2
<1>8. Bus!PlacesInv'
  <2>1. Bus!PlacesInv
    BY QueuesTyped
  <2>2. Bus!Distinct(incoming') /\ Bus!Distinct(inbox') /\ \A d \in Bus!Clients : Bus!Distinct(taken'[d])
    BY <1>4, <1>5, <1>7, <2>1 DEF Bus!PlacesInv
  <2>3. /\ Bus!Elements(incoming') = Bus!Elements(incoming) /\ Bus!Elements(inbox') = Bus!Elements(inbox) \ {m}
        /\ Bus!Elements(taken'[c]) = Bus!Elements(taken[c]) \cup {m}
        /\ \A d \in Bus!Clients \ {c} : Bus!Elements(taken'[d]) = Bus!Elements(taken[d])
    BY <1>4, <1>5, <1>7
  <2>4. QED
    BY <1>4, <1>5, <2>1, <2>2, <2>3 DEF Bus!PlacesInv
<1>9. ASSUME NEW s \in BusSubscribers
      PROVE  /\ Bus!Rising(s, taken'[s]) /\ Bus!Rising(s, inbox') /\ Bus!Rising(s, incoming')
             /\ Bus!Below(s, Bus!Elements(taken'[s]), Bus!Elements(inbox') \cup Bus!Elements(incoming'))
             /\ Bus!Below(s, Bus!Elements(inbox'), Bus!Elements(incoming'))
  <2>1. /\ Bus!Rising(s, taken[s]) /\ Bus!Rising(s, inbox) /\ Bus!Rising(s, incoming)
        /\ Bus!Below(s, Bus!Elements(taken[s]), Bus!Elements(inbox) \cup Bus!Elements(incoming))
        /\ Bus!Below(s, Bus!Elements(inbox), Bus!Elements(incoming)) /\ s \in Bus!Clients
    BY QueuesTyped DEF Bus!OrderInv, Bus!Clients
  <2>2. Bus!Rising(s, inbox') /\ Bus!Rising(s, incoming') /\ Bus!Below(s, Bus!Elements(inbox'), Bus!Elements(incoming'))
    BY <1>4, <1>5, <2>1 DEF Bus!Below
  <2>3. CASE s # c
    BY <1>4, <1>5, <2>1, <2>2, <2>3 DEF Bus!Below
  <2>4. CASE s = c
    <3>1. Bus!Rising(s, taken'[s])
      BY <1>4, <1>5, <1>7, <2>1, <2>4 DEF Bus!Below
    <3>2. ASSUME NEW n \in Bus!Elements(box), Bus!Matches(s, n) PROVE m.of < n.of
      <4>1. PICK j \in DOMAIN inbox : n = inbox[j]
        BY <1>5, <3>2 DEF Bus!Elements
      <4>2. k < j
        <5>1. inbox \in Seq(Bus!Message)
          BY QueuesTyped
        <5>2. k <= j /\ k # j
          BY <1>2, <1>3, <1>5, <2>4, <3>2, <4>1
        <5>3. QED
          BY <1>3, <4>1, <5>1, <5>2
      <4>3. QED
        BY <1>2, <1>3, <2>1, <2>4, <3>2, <4>1, <4>2 DEF Bus!Rising
    <3>3. ASSUME NEW x \in Bus!Elements(mine), NEW n \in Bus!Elements(box) \cup Bus!Elements(incoming),
                 Bus!Matches(s, x), Bus!Matches(s, n)
          PROVE  x.of < n.of
      <4>1. CASE x = m /\ n \in Bus!Elements(box)
        BY <3>2, <3>3, <4>1
      <4>2. CASE x = m /\ n \in Bus!Elements(incoming)
        BY <1>5, <2>1, <3>3, <4>2 DEF Bus!Below
      <4>3. CASE x \in Bus!Elements(taken[c])
        BY <1>5, <2>1, <2>4, <3>3, <4>3 DEF Bus!Below
      <4>4. QED
        BY <1>7, <3>3, <4>1, <4>2, <4>3
    <3>4. QED
      BY <1>4, <2>2, <2>4, <3>1, <3>3 DEF Bus!Below
  <2>5. QED
    BY <2>3, <2>4
<1>10. Bus!OrderInv'
  BY <1>4, <1>9, QueuesTyped DEF Bus!OrderInv
<1>11. QED
  BY <1>8, <1>10

(* The first of what has arrived is taken out: m, and what is left of it.  *)
LEMMA HeadLeaves ==
  ASSUME Bus!TypeOK, Bus!BusInv, incoming # <<>>, NEW m, m = Head(incoming), incoming' = Tail(incoming)
  PROVE  /\ m \in Bus!Message /\ m \in Bus!Elements(incoming) /\ m \in peerSent
         /\ Bus!Elements(incoming') = Bus!Elements(incoming) \ {m} /\ Bus!Distinct(incoming')
         /\ m \notin Bus!Elements(inbox) /\ \A c \in Bus!Clients : m \notin Bus!Elements(taken[c])
         /\ \A s \in BusSubscribers :
              Bus!Rising(s, incoming') /\ Bus!Below(s, {m}, Bus!Elements(incoming'))
<1>1. PICK q, rest : q = incoming /\ rest = Tail(q)
  OBVIOUS
<1>2. q \in Seq(Bus!Message) /\ q # <<>> /\ Bus!Distinct(q) /\ Bus!PlacesInv /\ Bus!OrderInv
  BY <1>1, QueuesTyped
<1>3. /\ Head(q) \in Bus!Message /\ Head(q) \in Bus!Elements(q)
      /\ Bus!Elements(q) = Bus!Elements(Tail(q)) \cup {Head(q)}
      /\ Bus!Distinct(Tail(q)) /\ Head(q) \notin Bus!Elements(Tail(q))
      /\ \A s : Bus!Rising(s, q) => Bus!Rising(s, Tail(q)) /\ Bus!Below(s, {Head(q)}, Bus!Elements(Tail(q)))
  BY <1>2, Shifted
<1>4. incoming' = rest /\ incoming = q /\ m = Head(q) /\ rest = Tail(q)
  BY <1>1
<1>5. /\ m \in Bus!Message /\ m \in Bus!Elements(q)
      /\ Bus!Elements(rest) = Bus!Elements(q) \ {m} /\ Bus!Distinct(rest)
      /\ \A s : Bus!Rising(s, q) => Bus!Rising(s, rest) /\ Bus!Below(s, {m}, Bus!Elements(rest))
  BY <1>3, <1>4
<1>6. /\ m \in peerSent /\ m \notin Bus!Elements(inbox) /\ \A c \in Bus!Clients : m \notin Bus!Elements(taken[c])
  BY <1>2, <1>4, <1>5 DEF Bus!PlacesInv
<1>7. \A s \in BusSubscribers : Bus!Rising(s, rest) /\ Bus!Below(s, {m}, Bus!Elements(rest))
  BY <1>2, <1>4, <1>5 DEF Bus!OrderInv
<1>8. QED
  BY <1>4, <1>5, <1>6, <1>7

LEMMA ReceiveKeeps ==
  ASSUME Bus!TypeOK, Bus!BusInv, Bus!ReaderReceives
  PROVE  Bus!PlacesInv' /\ Bus!OrderInv'
<1>1. PICK m, box : m = Head(incoming) /\ box = Append(inbox, m)
  OBVIOUS
<1>2. /\ incoming # <<>> /\ incoming' = Tail(incoming) /\ inbox' = box
      /\ peerSent' = peerSent /\ taken' = taken
  BY <1>1 DEF Bus!ReaderReceives, Bus!connection
<1>3. /\ m \in Bus!Message /\ m \in Bus!Elements(incoming) /\ m \in peerSent
      /\ Bus!Elements(incoming') = Bus!Elements(incoming) \ {m} /\ Bus!Distinct(incoming')
      /\ m \notin Bus!Elements(inbox) /\ \A c \in Bus!Clients : m \notin Bus!Elements(taken[c])
      /\ \A s \in BusSubscribers :
           Bus!Rising(s, incoming') /\ Bus!Below(s, {m}, Bus!Elements(incoming'))
  BY <1>1, <1>2, HeadLeaves
<1>4. Bus!PlacesInv /\ Bus!OrderInv /\ inbox \in Seq(Bus!Message) /\ Bus!Distinct(inbox)
  BY QueuesTyped
<1>5. /\ Bus!Elements(box) = Bus!Elements(inbox) \cup {m} /\ Bus!Distinct(box)
      /\ \A s : Bus!Rising(s, inbox) /\ Bus!Below(s, Bus!Elements(inbox), {m}) => Bus!Rising(s, box)
  <2>1. /\ Bus!Elements(Append(inbox, m)) = Bus!Elements(inbox) \cup {m} /\ Bus!Distinct(Append(inbox, m))
        /\ \A s : Bus!Rising(s, inbox) /\ Bus!Below(s, Bus!Elements(inbox), {m}) => Bus!Rising(s, Append(inbox, m))
    <3>1. inbox \in Seq(Bus!Message) /\ m \in Bus!Message /\ Bus!Distinct(inbox) /\ m \notin Bus!Elements(inbox)
      BY <1>3, <1>4
    <3>2. QED
      BY <3>1, Appended
  <2>2. QED
    BY <1>1, <2>1
<1>6. Bus!PlacesInv'
  <2>1. /\ Bus!Distinct(incoming') /\ Bus!Distinct(inbox') /\ \A c \in Bus!Clients : Bus!Distinct(taken'[c])
    BY <1>2, <1>3, <1>4, <1>5 DEF Bus!PlacesInv
  <2>2. /\ Bus!Elements(incoming') = Bus!Elements(incoming) \ {m}
        /\ Bus!Elements(inbox') = Bus!Elements(inbox) \cup {m}
    BY <1>2, <1>3, <1>5
  <2>3. Bus!Elements(incoming') \cup Bus!Elements(inbox') = Bus!Elements(incoming) \cup Bus!Elements(inbox)
    BY <1>3, <2>2
  <2>4. QED
    BY <1>2, <1>3, <1>4, <2>1, <2>2, <2>3 DEF Bus!PlacesInv
<1>7. ASSUME NEW s \in BusSubscribers
      PROVE  /\ Bus!Rising(s, taken'[s]) /\ Bus!Rising(s, inbox') /\ Bus!Rising(s, incoming')
             /\ Bus!Below(s, Bus!Elements(taken'[s]), Bus!Elements(inbox') \cup Bus!Elements(incoming'))
             /\ Bus!Below(s, Bus!Elements(inbox'), Bus!Elements(incoming'))
  <2>1. /\ Bus!Rising(s, taken[s]) /\ Bus!Rising(s, inbox)
        /\ Bus!Below(s, Bus!Elements(taken[s]), Bus!Elements(inbox) \cup Bus!Elements(incoming))
        /\ Bus!Below(s, Bus!Elements(inbox), Bus!Elements(incoming))
    BY <1>4 DEF Bus!OrderInv
  <2>2. Bus!Rising(s, inbox')
    <3>1. Bus!Below(s, Bus!Elements(inbox), {m})
      BY <1>3, <2>1 DEF Bus!Below
    <3>2. QED
      BY <1>2, <1>5, <2>1, <3>1
  <2>3. Bus!Below(s, Bus!Elements(taken'[s]), Bus!Elements(inbox') \cup Bus!Elements(incoming'))
    BY <1>2, <1>3, <1>5, <2>1 DEF Bus!Below
  <2>4. Bus!Below(s, Bus!Elements(inbox'), Bus!Elements(incoming'))
    BY <1>2, <1>3, <1>5, <2>1 DEF Bus!Below
  <2>5. QED
    BY <1>2, <1>3, <2>1, <2>2, <2>3, <2>4
<1>8. Bus!OrderInv'
  BY <1>2, <1>4, <1>7 DEF Bus!OrderInv
<1>9. QED
  BY <1>6, <1>8

(* What cannot be decoded ends the reader, and is nowhere.                 *)
LEMMA EndKeeps ==
  ASSUME Bus!TypeOK, Bus!BusInv, Bus!ReaderEnds
  PROVE  Bus!PlacesInv' /\ Bus!OrderInv'
<1>1. /\ peerSent' = peerSent /\ taken' = taken /\ inbox' = inbox /\ Bus!PlacesInv /\ Bus!OrderInv
  BY QueuesTyped DEF Bus!ReaderEnds, Bus!connection
<1>2. CASE incoming' = incoming
  BY <1>1, <1>2, QueuesSame
<1>3. CASE incoming # <<>> /\ Head(incoming).kind = "garbage" /\ incoming' = Tail(incoming)
  <2>1. PICK m : m = Head(incoming)
    OBVIOUS
  <2>2. /\ m \in Bus!Message /\ m \in Bus!Elements(incoming) /\ m \in peerSent
        /\ Bus!Elements(incoming') = Bus!Elements(incoming) \ {m} /\ Bus!Distinct(incoming')
        /\ m \notin Bus!Elements(inbox) /\ \A c \in Bus!Clients : m \notin Bus!Elements(taken[c])
        /\ \A s \in BusSubscribers :
             Bus!Rising(s, incoming') /\ Bus!Below(s, {m}, Bus!Elements(incoming'))
    BY <1>3, <2>1, HeadLeaves
  <2>3. m.kind = "garbage"
    BY <1>3, <2>1
  <2>4. Bus!PlacesInv'
    BY <1>1, <2>2, <2>3 DEF Bus!PlacesInv
  <2>5. Bus!OrderInv'
    BY <1>1, <2>2 DEF Bus!OrderInv, Bus!Below
  <2>6. QED
    BY <2>4, <2>5
<1>4. QED
  BY <1>2, <1>3 DEF Bus!ReaderEnds

(* A call of the connection takes the first, which no subscription gets.   *)
LEMMA CallKeeps ==
  ASSUME Bus!TypeOK, Bus!BusInv, NEW c \in BusCallers, Bus!IpcCallReceives(c)
  PROVE  Bus!PlacesInv' /\ Bus!OrderInv'
<1>1. PICK m, mine : m = Head(incoming) /\ mine = Append(taken[c], m)
  OBVIOUS
<1>2. c \in Bus!Clients /\ c \notin BusSubscribers
  BY BusAssumption DEF Bus!Clients
<1>3. /\ incoming # <<>> /\ incoming' = Tail(incoming) /\ inbox' = inbox /\ peerSent' = peerSent
      /\ taken'[c] = mine /\ \A d \in Bus!Clients \ {c} : taken'[d] = taken[d]
  <2>1. taken \in [Bus!Clients -> Seq(Bus!Message)]
    BY QueuesTyped
  <2>2. taken' = [taken EXCEPT ![c] = mine]
    BY <1>1 DEF Bus!IpcCallReceives
  <2>3. incoming # <<>> /\ incoming' = Tail(incoming) /\ inbox' = inbox /\ peerSent' = peerSent
    BY DEF Bus!IpcCallReceives, Bus!connection
  <2>4. QED
    BY <1>2, <2>1, <2>2, <2>3
<1>4. /\ m \in Bus!Message /\ m \in Bus!Elements(incoming) /\ m \in peerSent
      /\ Bus!Elements(incoming') = Bus!Elements(incoming) \ {m} /\ Bus!Distinct(incoming')
      /\ m \notin Bus!Elements(inbox) /\ \A d \in Bus!Clients : m \notin Bus!Elements(taken[d])
      /\ \A s \in BusSubscribers :
           Bus!Rising(s, incoming') /\ Bus!Below(s, {m}, Bus!Elements(incoming'))
  BY <1>1, <1>3, HeadLeaves
<1>5. Bus!PlacesInv /\ Bus!OrderInv /\ taken[c] \in Seq(Bus!Message) /\ Bus!Distinct(taken[c])
  BY <1>2, QueuesTyped
<1>6. Bus!Elements(mine) = Bus!Elements(taken[c]) \cup {m} /\ Bus!Distinct(mine)
  <2>1. PICK q : q = taken[c]
    OBVIOUS
  <2>2. q \in Seq(Bus!Message) /\ Bus!Distinct(q) /\ m \notin Bus!Elements(q) /\ m \in Bus!Message
    BY <1>2, <1>4, <1>5, <2>1
  <2>3. Bus!Elements(Append(q, m)) = Bus!Elements(q) \cup {m} /\ Bus!Distinct(Append(q, m))
    BY <2>2, Appended
  <2>4. QED
    BY <1>1, <2>1, <2>3
<1>7. Bus!PlacesInv'
  <2>1. /\ Bus!Distinct(incoming') /\ Bus!Distinct(inbox') /\ \A d \in Bus!Clients : Bus!Distinct(taken'[d])
    BY <1>3, <1>4, <1>5, <1>6 DEF Bus!PlacesInv
  <2>2. /\ Bus!Elements(incoming') = Bus!Elements(incoming) \ {m} /\ Bus!Elements(inbox') = Bus!Elements(inbox)
        /\ Bus!Elements(taken'[c]) = Bus!Elements(taken[c]) \cup {m}
        /\ \A d \in Bus!Clients \ {c} : Bus!Elements(taken'[d]) = Bus!Elements(taken[d])
    BY <1>3, <1>4, <1>6
  <2>3. /\ Bus!Elements(incoming') \cup Bus!Elements(inbox') \subseteq peerSent'
        /\ Bus!Elements(incoming') \cap Bus!Elements(inbox') = {}
    BY <1>3, <1>5, <2>2 DEF Bus!PlacesInv
  <2>4. ASSUME NEW d \in Bus!Clients
        PROVE  /\ Bus!Elements(taken'[d]) \subseteq peerSent' \ (Bus!Elements(incoming') \cup Bus!Elements(inbox'))
               /\ \A e \in Bus!Clients \ {d} : Bus!Elements(taken'[d]) \cap Bus!Elements(taken'[e]) = {}
    <3>1. Bus!Elements(taken[d]) \subseteq peerSent \ (Bus!Elements(incoming) \cup Bus!Elements(inbox))
      BY <1>5 DEF Bus!PlacesInv
    <3>2. \A e \in Bus!Clients \ {d} : Bus!Elements(taken[d]) \cap Bus!Elements(taken[e]) = {}
      BY <1>5 DEF Bus!PlacesInv
    <3>3. CASE d = c
      BY <1>3, <1>4, <2>2, <3>1, <3>2, <3>3
    <3>4. CASE d # c
      BY <1>3, <1>4, <2>2, <3>1, <3>2, <3>4
    <3>5. QED
      BY <3>3, <3>4
  <2>5. ASSUME NEW n \in peerSent', n.kind # "garbage"
        PROVE  \/ n \in Bus!Elements(incoming') \cup Bus!Elements(inbox')
               \/ \E d \in Bus!Clients : n \in Bus!Elements(taken'[d])
    <3>1. \/ n \in Bus!Elements(incoming) \cup Bus!Elements(inbox)
          \/ \E d \in Bus!Clients : n \in Bus!Elements(taken[d])
      BY <1>3, <1>5, <2>5 DEF Bus!PlacesInv
    <3>2. \A d \in Bus!Clients : Bus!Elements(taken[d]) \subseteq Bus!Elements(taken'[d])
      BY <2>2
    <3>3. QED
      BY <1>2, <2>2, <3>1, <3>2
  <2>6. QED
    BY <2>1, <2>3, <2>4, <2>5 DEF Bus!PlacesInv
<1>8. Bus!OrderInv'
  <2>1. \A s \in BusSubscribers : s \in Bus!Clients \ {c}
    BY <1>2 DEF Bus!Clients
  <2>2. QED
    BY <1>3, <1>4, <1>5, <2>1 DEF Bus!OrderInv, Bus!Below
<1>9. QED
  BY <1>7, <1>8

(* The peer sends what it has not sent, and its events in order.           *)
LEMMA PeerKeeps ==
  ASSUME Bus!TypeOK, Bus!BusInv, Bus!PeerSends
  PROVE  Bus!PlacesInv' /\ Bus!OrderInv'
<1>1. PICK m \in Bus!Message :
        Bus!PeerMay(m) /\ peerSent' = peerSent \cup {m} /\ incoming' = Append(incoming, m)
  BY DEF Bus!PeerSends
<1>2. PICK all : all = Append(incoming, m)
  OBVIOUS
<1>3. incoming' = all /\ inbox' = inbox /\ taken' = taken /\ m \notin peerSent
  BY <1>1, <1>2 DEF Bus!PeerSends, Bus!PeerMay
<1>4. /\ Bus!PlacesInv /\ Bus!OrderInv /\ incoming \in Seq(Bus!Message) /\ Bus!Distinct(incoming)
      /\ peerSent \subseteq Bus!Message
  BY QueuesTyped
<1>5. m \notin Bus!Elements(incoming)
  BY <1>3, <1>4 DEF Bus!PlacesInv
<1>6. /\ Bus!Elements(all) = Bus!Elements(incoming) \cup {m} /\ Bus!Distinct(all)
      /\ \A s : Bus!Rising(s, incoming) /\ Bus!Below(s, Bus!Elements(incoming), {m}) => Bus!Rising(s, all)
  <2>1. /\ Bus!Elements(Append(incoming, m)) = Bus!Elements(incoming) \cup {m}
        /\ Bus!Distinct(Append(incoming, m))
        /\ \A s : Bus!Rising(s, incoming) /\ Bus!Below(s, Bus!Elements(incoming), {m}) =>
             Bus!Rising(s, Append(incoming, m))
    BY <1>4, <1>5, Appended
  <2>2. QED
    BY <1>2, <2>1
<1>7. Bus!PlacesInv'
  BY <1>1, <1>3, <1>4, <1>6 DEF Bus!PlacesInv
<1>8. \A n \in peerSent' : n.kind = "event" =>
        \A e \in 1 .. n.of - 1 : [kind |-> "event", of |-> e] \in peerSent'
  BY <1>1, <1>4 DEF Bus!OrderInv, Bus!PeerMay
<1>9. ASSUME NEW s \in BusSubscribers, NEW n \in peerSent, Bus!Matches(s, n), Bus!Matches(s, m)
      PROVE  n.of < m.of
  <2>1. n.kind = "event" /\ m.kind = "event"
    BY <1>9, BusAssumption DEF Bus!Matches
  <2>2. /\ n = [kind |-> "event", of |-> n.of] /\ n.of \in 1 .. MaxEvents
        /\ m = [kind |-> "event", of |-> m.of] /\ m.of \in 1 .. MaxEvents
    <3>1. n \in Bus!Message
      BY <1>4
    <3>2. n = [kind |-> "event", of |-> n.of] /\ n.of \in 1 .. MaxEvents
      BY <2>1, <3>1, EventShape
    <3>3. m = [kind |-> "event", of |-> m.of] /\ m.of \in 1 .. MaxEvents
      BY <2>1, EventShape
    <3>4. QED
      BY <3>2, <3>3
  <2>3. n.of # m.of
    BY <1>3, <2>2
  <2>4. ~(m.of < n.of)
    <3>1. SUFFICES ASSUME m.of < n.of PROVE FALSE
      OBVIOUS
    <3>2. m.of \in 1 .. n.of - 1
      BY <2>2, <3>1, BusAssumption
    <3>3. m \in peerSent
      BY <1>4, <2>1, <2>2, <3>2 DEF Bus!OrderInv
    <3>4. QED
      BY <1>3, <3>3
  <2>5. QED
    BY <2>2, <2>3, <2>4, BusAssumption
<1>10. ASSUME NEW s \in BusSubscribers
       PROVE  /\ Bus!Rising(s, incoming') /\ Bus!Below(s, Bus!Elements(inbox), Bus!Elements(incoming'))
              /\ Bus!Below(s, Bus!Elements(taken[s]), Bus!Elements(inbox) \cup Bus!Elements(incoming'))
  <2>1. /\ Bus!Rising(s, incoming) /\ Bus!Below(s, Bus!Elements(inbox), Bus!Elements(incoming))
        /\ Bus!Below(s, Bus!Elements(taken[s]), Bus!Elements(inbox) \cup Bus!Elements(incoming))
    BY <1>4 DEF Bus!OrderInv
  <2>2. Bus!Elements(incoming) \cup Bus!Elements(inbox) \cup Bus!Elements(taken[s]) \subseteq peerSent
    BY <1>4 DEF Bus!PlacesInv, Bus!Clients
  <2>3. \A n \in peerSent : Bus!Matches(s, n) /\ Bus!Matches(s, m) => n.of < m.of
    BY <1>9
  <2>4. Bus!Rising(s, incoming')
    <3>1. Bus!Below(s, Bus!Elements(incoming), {m})
      BY <2>2, <2>3 DEF Bus!Below
    <3>2. QED
      BY <1>3, <1>6, <2>1, <3>1
  <2>5. Bus!Elements(incoming') = Bus!Elements(incoming) \cup {m}
    BY <1>3, <1>6
  <2>6. QED
    BY <2>1, <2>2, <2>3, <2>4, <2>5 DEF Bus!Below
<1>11. Bus!OrderInv'
  BY <1>3, <1>4, <1>8, <1>10 DEF Bus!OrderInv
<1>12. QED
  BY <1>7, <1>11

(* All together, with the steps that leave the queues alone.               *)
LEMMA PlacesKept ==
  ASSUME Bus!TypeOK, Bus!BusInv, [Bus!Next]_Bus!vars
  PROVE  Bus!PlacesInv' /\ Bus!OrderInv'
<1>1. ASSUME UNCHANGED <<peerSent, incoming, inbox, taken>> PROVE Bus!PlacesInv' /\ Bus!OrderInv'
  BY <1>1, QueuesTyped, QueuesSame
<1>2. ASSUME \/ Bus!WriterLoop
             \/ \E c \in Bus!Clients : \/ Bus!ConnSend(c) \/ Bus!IpcSend(c) \/ Bus!BeginMatch(c)
                                       \/ Bus!MatchFails(c) \/ Bus!MatchWaits(c)
      PROVE  UNCHANGED <<peerSent, incoming, inbox, taken>>
  BY <1>2 DEF Bus!WriterLoop, Bus!ConnSend, Bus!IpcSend, Bus!BeginMatch, Bus!MatchFails, Bus!MatchWaits,
       Bus!connection, Bus!writing, Bus!reading
<1>3. ASSUME \/ Bus!EnterRecv("reader") \/ \E c \in BusCallers : Bus!EnterRecv(c) \/ Bus!IpcCallEnds(c)
             \/ \E s \in BusSubscribers : Bus!NextOfClosed(s) \/ Bus!Close(s)
             \/ Bus!ConnectionEnds \/ UNCHANGED Bus!vars
      PROVE  UNCHANGED <<peerSent, incoming, inbox, taken>>
  BY <1>3 DEF Bus!EnterRecv, Bus!IpcCallEnds, Bus!NextOfClosed, Bus!Close, Bus!ConnectionEnds,
       Bus!connection, Bus!writing, Bus!reading, Bus!vars
<1>4. QED
  BY <1>1, <1>2, <1>3, TakeKeeps, ReceiveKeeps, EndKeeps, CallKeeps, PeerKeeps
     DEF Bus!Next, Bus!ReaderLoop, Bus!IpcRecv, Bus!RecvMatch

(* What a step does to a caller: its place, what it has and what it holds. *)
CallerKept(k) ==
  /\ holder' = k => place'[k] = "reading"
  /\ place'[k] = "reading" => hasCall
  /\ ~hasCall => taken'[k] = IF place'[k] = "done" THEN <<Bus!Response(k)>> ELSE <<>>
  /\ ~hasCall /\ place'[k] = "failed" /\ delivered'[k] > 0 => Bus!ConnectionFailed'

(* A connection that has failed stays so, and is of one kind.              *)
LEMMA FailureStays ==
  ASSUME Bus!TypeOK, Bus!BusInv, [Bus!Next]_Bus!vars
  PROVE  hasCall' = hasCall /\ (Bus!ConnectionFailed => Bus!ConnectionFailed')
<1>1. /\ hasCall' = hasCall /\ peerSent \subseteq peerSent'
      /\ (readErr' = readErr \/ readErr' = TRUE) /\ (open' = open \/ open' = FALSE)
  BY DEF Bus!Next, Bus!vars, Bus!WriterLoop, Bus!ReaderLoop, Bus!EnterRecv, Bus!ReaderReceives, Bus!ReaderEnds,
     Bus!ConnSend, Bus!IpcSend, Bus!BeginMatch, Bus!RecvMatch, Bus!TakeMatch, Bus!MatchFails, Bus!MatchWaits,
     Bus!IpcRecv, Bus!IpcCallReceives, Bus!IpcCallEnds, Bus!NextOfClosed, Bus!Close, Bus!PeerSends,
     Bus!ConnectionEnds, Bus!connection, Bus!writing, Bus!reading
<1>2. Bus!ConnectionFailed => Bus!ConnectionFailed'
  BY <1>1 DEF Bus!ConnectionFailed
<1>3. QED
  BY <1>1, <1>2

LEMMA CallerFacts ==
  ASSUME Bus!TypeOK, Bus!BusInv, NEW k \in BusCallers
  PROVE  /\ k \in Bus!Clients /\ k \notin BusReceivers \cup BusPublishers \cup BusSubscribers
         /\ k # None /\ k # "reader"
         /\ (holder = k => place[k] = "reading") /\ (place[k] = "reading" => hasCall)
         /\ ~hasCall => taken[k] = IF place[k] = "done" THEN <<Bus!Response(k)>> ELSE <<>>
         /\ ~hasCall /\ place[k] = "failed" /\ delivered[k] > 0 => Bus!ConnectionFailed
         /\ hasCall \in BOOLEAN /\ place \in [Bus!Clients -> Bus!Location]
<1>1. k \in Bus!Clients /\ hasCall \in BOOLEAN /\ place \in [Bus!Clients -> Bus!Location]
  BY DEF Bus!Clients, Bus!TypeOK
<1>2. k \notin BusReceivers \cup BusPublishers \cup BusSubscribers /\ k # None /\ k # "reader"
  BY BusAssumption
<1>3. Bus!CallInv
  BY DEF Bus!BusInv
<1>4. QED
  BY <1>1, <1>2, <1>3 DEF Bus!CallInv, Bus!CallFailsWithConnection

LEMMA CallerFrame ==
  ASSUME Bus!TypeOK, Bus!BusInv, [Bus!Next]_Bus!vars, NEW k \in BusCallers,
         holder' = holder \/ holder' = None, taken'[k] = taken[k], delivered'[k] = delivered[k],
         place'[k] = place[k] \/ (place[k] = "waiting" /\ place'[k] = "checking")
  PROVE  CallerKept(k)
<1>1. Bus!ConnectionFailed => Bus!ConnectionFailed'
  BY FailureStays
<1>2. /\ (holder = k => place[k] = "reading") /\ (place[k] = "reading" => hasCall)
      /\ ~hasCall => taken[k] = IF place[k] = "done" THEN <<Bus!Response(k)>> ELSE <<>>
      /\ ~hasCall /\ place[k] = "failed" /\ delivered[k] > 0 => Bus!ConnectionFailed
      /\ k # None
  BY CallerFacts
<1>3. QED
  BY <1>1, <1>2 DEF CallerKept

LEMMA CallersKept ==
  ASSUME Bus!TypeOK, Bus!BusInv, [Bus!Next]_Bus!vars, NEW k \in BusCallers
  PROVE  CallerKept(k)
<1> USE DEF Bus!connection, Bus!writing, Bus!reading
<1>1. /\ k \in Bus!Clients /\ k \notin BusReceivers \cup BusPublishers \cup BusSubscribers
      /\ k # None /\ k # "reader"
      /\ (holder = k => place[k] = "reading") /\ (place[k] = "reading" => hasCall)
      /\ ~hasCall => taken[k] = IF place[k] = "done" THEN <<Bus!Response(k)>> ELSE <<>>
      /\ ~hasCall /\ place[k] = "failed" /\ delivered[k] > 0 => Bus!ConnectionFailed
      /\ hasCall \in BOOLEAN /\ place \in [Bus!Clients -> Bus!Location]
  BY CallerFacts
<1>2. hasCall' = hasCall /\ (Bus!ConnectionFailed => Bus!ConnectionFailed')
  BY FailureStays
<1>3. ASSUME NEW c \in Bus!Clients, Bus!ConnSend(c) PROVE CallerKept(k)
  <2>1. /\ holder' = holder /\ taken' = taken /\ delivered' = delivered
        /\ place' = [place EXCEPT ![c] = "sending"] /\ place[c] \in {"idle", "received"}
    BY <1>3 DEF Bus!ConnSend, Bus!Sends
  <2>2. CASE c = k
    BY <1>1, <1>2, <2>1, <2>2 DEF CallerKept
  <2>3. CASE c # k
    BY <1>1, <2>1, <2>3, CallerFrame
  <2>4. QED
    BY <2>2, <2>3
<1>4. ASSUME Bus!WriterLoop PROVE CallerKept(k)
  <2> PICK c : c = Head(writeCh)
    OBVIOUS
  <2>1. /\ holder' = holder /\ taken' = taken /\ (Bus!SendKnown(c) \/ Bus!SendProbing(c))
        /\ c \in Bus!Clients /\ c \in Bus!Elements(writeCh)
    BY <1>4 DEF Bus!WriterLoop, Bus!TypeOK, Bus!Elements
  <2>2. place[c] = "sending" /\ delivered[c] = 0
    BY <2>1 DEF Bus!BusInv, Bus!SendInv, Bus!Behind
  <2>3. \/ delivered' = delivered /\ Bus!SendReturns(c, FALSE)
        \/ Bus!Deliver(c) /\ Bus!SendReturns(c, TRUE)
    BY <2>1 DEF Bus!SendKnown, Bus!SendProbing
  <2>4. CASE c = k
    <3>1. place'[k] \in {"failed", "sent"} /\ (place'[k] = "failed" => delivered'[k] = 0)
      BY <1>1, <2>2, <2>3, <2>4 DEF Bus!SendReturns
    <3>2. QED
      BY <1>1, <1>2, <2>1, <2>2, <2>4, <3>1 DEF CallerKept
  <2>5. CASE c # k
    <3>1. place'[k] = place[k] /\ delivered'[k] = delivered[k]
      BY <1>1, <2>3, <2>5 DEF Bus!SendReturns, Bus!Deliver, Bus!TypeOK
    <3>2. QED
      BY <2>1, <3>1, CallerFrame
  <2>6. QED
    BY <2>4, <2>5
<1>5. ASSUME NEW c \in Bus!Clients, Bus!IpcSend(c) PROVE CallerKept(k)
  <2>1. /\ holder' = holder /\ taken' = taken /\ hasCall
        /\ place[c] \in {"idle", "received"}
        /\ \E l \in Bus!Location : place' = [place EXCEPT ![c] = l]
        /\ delivered' = delivered \/ Bus!Deliver(c)
    BY <1>5 DEF Bus!IpcSend, Bus!Location
  <2>2. CASE c = k
    BY <1>1, <1>2, <2>1, <2>2 DEF CallerKept
  <2>3. CASE c # k
    <3>1. place'[k] = place[k] /\ delivered'[k] = delivered[k]
      BY <1>1, <2>1, <2>3 DEF Bus!Deliver, Bus!TypeOK
    <3>2. QED
      BY <2>1, <3>1, CallerFrame
  <2>4. QED
    BY <2>2, <2>3
<1>6. ASSUME NEW c \in Bus!Clients, Bus!BeginMatch(c) \/ Bus!MatchFails(c) \/ Bus!MatchWaits(c)
      PROVE  CallerKept(k)
  <2>1. holder' = holder /\ taken' = taken /\ delivered' = delivered /\ readErr' = readErr
    BY <1>6 DEF Bus!BeginMatch, Bus!MatchFails, Bus!MatchWaits
  <2>2. \/ place' = [place EXCEPT ![c] = "checking"] /\ place[c] \in {"sent", "idle"}
        \/ place' = [place EXCEPT ![c] = "waiting"] /\ place[c] = "checking"
        \/ place' = [place EXCEPT ![c] = "failed"] /\ place[c] = "checking" /\ readErr
    BY <1>6 DEF Bus!BeginMatch, Bus!MatchFails, Bus!MatchWaits
  <2>3. CASE c = k
    <3>1. place'[k] \notin {"reading", "done"} /\ place[k] \notin {"reading", "done"}
          /\ (place'[k] = "failed" => readErr)
      BY <1>1, <2>2, <2>3
    <3>2. readErr => Bus!ConnectionFailed'
      BY <2>1 DEF Bus!ConnectionFailed
    <3>3. QED
      BY <1>1, <1>2, <2>1, <3>1, <3>2 DEF CallerKept
  <2>4. CASE c # k
    <3>1. place'[k] = place[k]
      BY <1>1, <2>2, <2>4
    <3>2. QED
      BY <2>1, <3>1, CallerFrame
  <2>5. QED
    BY <2>3, <2>4
<1>7. ASSUME NEW c \in Bus!Clients, Bus!TakeMatch(c) PROVE CallerKept(k)
  <2>1. /\ holder' = holder /\ delivered' = delivered /\ place[c] = "checking"
        /\ place' = [place EXCEPT ![c] = Bus!AfterMatch(c)]
    BY <1>7 DEF Bus!TakeMatch
  <2>2. PICK i \in Bus!First(Bus!Matching(c)) : taken' = [taken EXCEPT ![c] = Append(taken[c], inbox[i])]
    BY <1>7 DEF Bus!TakeMatch
  <2>3. taken \in [Bus!Clients -> Seq(Bus!Message)]
    BY DEF Bus!TypeOK
  <2>4. CASE c = k
    <3>1. place'[k] = "done"
      BY <1>1, <2>1, <2>4 DEF Bus!AfterMatch
    <3>2. inbox[i] = Bus!Response(k)
      BY <1>1, <2>2, <2>4 DEF Bus!First, Bus!Matching, Bus!Matches, Bus!Response
    <3>3. taken'[k] = Append(taken[k], Bus!Response(k))
      BY <1>1, <2>2, <2>3, <2>4, <3>2
    <3>4. ~hasCall => taken'[k] = <<Bus!Response(k)>>
      <4>1. \A x : Append(<<>>, x) = <<x>>
        OBVIOUS
      <4>2. ~hasCall => taken[k] = <<>>
        BY <1>1, <2>1, <2>4
      <4>3. QED
        BY <3>3, <4>1, <4>2
    <3>5. QED
      BY <1>1, <2>1, <2>4, <3>1, <3>4 DEF CallerKept
  <2>5. CASE c # k
    <3>1. place'[k] = place[k] /\ taken'[k] = taken[k]
      BY <1>1, <2>1, <2>2, <2>3, <2>5
    <3>2. QED
      BY <2>1, <3>1, CallerFrame
  <2>6. QED
    BY <2>4, <2>5
<1>8. ASSUME NEW c \in BusCallers, Bus!EnterRecv(c) \/ Bus!EnterRecv("reader") PROVE CallerKept(k)
  <2>1. UNCHANGED <<place, taken, delivered>> /\ (holder' = k => place[k] = "reading")
    BY <1>1, <1>8 DEF Bus!EnterRecv
  <2>2. QED
    BY <1>1, <1>2, <2>1 DEF CallerKept
<1>9. ASSUME NEW c \in BusCallers, Bus!IpcCallReceives(c) \/ Bus!IpcCallEnds(c) PROVE CallerKept(k)
  <2>1. /\ holder = c /\ holder' = None /\ delivered' = delivered
        /\ \E l \in {"done", "failed"} : place' = [place EXCEPT ![c] = l]
        /\ \E q : taken' = [taken EXCEPT ![c] = q]
    <3>1. holder = c /\ holder' = None /\ delivered' = delivered
      BY <1>9 DEF Bus!IpcCallReceives, Bus!IpcCallEnds
    <3>2. \E l \in {"done", "failed"} : place' = [place EXCEPT ![c] = l]
      BY <1>9 DEF Bus!IpcCallReceives, Bus!IpcCallEnds
    <3>3. taken' = [taken EXCEPT ![c] = Append(taken[c], Head(incoming))] \/ taken' = taken
      BY <1>9 DEF Bus!IpcCallReceives, Bus!IpcCallEnds
    <3>4. taken' = [taken EXCEPT ![c] = taken'[c]]
      BY <3>3 DEF Bus!TypeOK
    <3>5. QED
      BY <3>1, <3>2, <3>4
  <2>2. CASE c = k
    BY <1>1, <1>2, <2>1, <2>2 DEF CallerKept
  <2>3. CASE c # k
    <3>1. place'[k] = place[k] /\ taken'[k] = taken[k]
      BY <1>1, <2>1, <2>3 DEF Bus!TypeOK
    <3>2. QED
      BY <2>1, <3>1, CallerFrame
  <2>4. QED
    BY <2>2, <2>3
<1>10. ASSUME Bus!ReaderReceives \/ Bus!ReaderEnds PROVE CallerKept(k)
  <2>1. holder' = None /\ UNCHANGED <<taken, delivered>> /\ Bus!Broadcast
    BY <1>10 DEF Bus!ReaderReceives, Bus!ReaderEnds
  <2>2. place'[k] = place[k] \/ (place[k] = "waiting" /\ place'[k] = "checking")
    BY <1>1, <2>1 DEF Bus!Broadcast
  <2>3. QED
    BY <2>1, <2>2, CallerFrame
<1>11. ASSUME NEW s \in BusSubscribers, Bus!NextOfClosed(s) PROVE CallerKept(k)
  <2>1. UNCHANGED <<holder, taken, delivered>> /\ place'[k] = place[k]
    BY <1>1, <1>11 DEF Bus!NextOfClosed
  <2>2. QED
    BY <2>1, CallerFrame
<1>12. ASSUME \/ \E s \in BusSubscribers : Bus!Close(s)
              \/ Bus!PeerSends \/ Bus!ConnectionEnds \/ UNCHANGED Bus!vars
       PROVE  CallerKept(k)
  <2>1. UNCHANGED <<holder, taken, delivered, place>>
    BY <1>12 DEF Bus!Close, Bus!PeerSends, Bus!ConnectionEnds, Bus!vars
  <2>2. QED
    BY <2>1, CallerFrame
<1>13. ASSUME Bus!EnterRecv("reader") PROVE CallerKept(k)
  BY <1>8, <1>13
<1>14. QED
  BY <1>3, <1>4, <1>5, <1>6, <1>7, <1>8, <1>9, <1>10, <1>11, <1>12, <1>13
     DEF Bus!Next, Bus!ReaderLoop, Bus!IpcRecv, Bus!RecvMatch

(* The callers, and who waits on the condition variable.                   *)
LEMMA CallsKept ==
  ASSUME Bus!TypeOK, Bus!BusInv, [Bus!Next]_Bus!vars
  PROVE  Bus!CallInv'
<1>1. \A k \in BusCallers : CallerKept(k)
  BY CallersKept
<1>2. hasCall' = hasCall
  BY FailureStays
<1>3. (\A k \in BusCallers : (holder = k => place[k] = "reading") /\ (place[k] = "reading" => hasCall))'
  BY <1>1, <1>2 DEF CallerKept
<1>4. (~hasCall => \A k \in BusCallers : taken[k] = IF place[k] = "done" THEN <<Bus!Response(k)>> ELSE <<>>)'
  BY <1>1, <1>2 DEF CallerKept, Bus!Response
<1>5. (~hasCall => Bus!CallFailsWithConnection)'
  BY <1>1, <1>2 DEF CallerKept, Bus!CallFailsWithConnection
<1>6. QED
  BY <1>3, <1>4, <1>5 DEF Bus!CallInv

LEMMA WakeupsKept ==
  ASSUME Bus!TypeOK, Bus!BusInv, [Bus!Next]_Bus!vars
  PROVE  Bus!NoLostWakeup'
<1> USE DEF Bus!connection, Bus!writing, Bus!reading
<1>1. Bus!NoLostWakeup /\ place \in [Bus!Clients -> Bus!Location] /\ inbox \in Seq(Bus!Message)
  BY QueuesTyped DEF Bus!BusInv, Bus!TypeOK
<1>2. ASSUME inbox' = inbox, readErr' = readErr,
             \A d \in Bus!Clients : place'[d] = "waiting" =>
               place[d] = "waiting" \/ (Bus!Matching(d) = {} /\ ~readErr)
      PROVE  Bus!NoLostWakeup'
  <2>1. \A d \in Bus!Clients : Bus!Matching(d)' = Bus!Matching(d)
    BY <1>2 DEF Bus!Matching
  <2>2. QED
    BY <1>1, <1>2, <2>1 DEF Bus!NoLostWakeup
<1>3. ASSUME Bus!WriterLoop PROVE Bus!NoLostWakeup'
  <2> PICK c : c = Head(writeCh)
    OBVIOUS
  <2>1. /\ Bus!SendReturns(c, TRUE) \/ Bus!SendReturns(c, FALSE)
        /\ inbox' = inbox /\ readErr' = readErr
    BY <1>3 DEF Bus!WriterLoop, Bus!SendKnown, Bus!SendProbing
  <2>2. \A d \in Bus!Clients : place'[d] = "waiting" => place[d] = "waiting"
    BY <1>1, <2>1 DEF Bus!SendReturns
  <2>3. QED
    BY <1>2, <2>1, <2>2
<1>4. ASSUME NEW c \in Bus!Clients,
             \/ Bus!ConnSend(c) \/ Bus!IpcSend(c) \/ Bus!BeginMatch(c) \/ Bus!MatchFails(c) \/ Bus!NextOfClosed(c)
             \/ c \in BusCallers /\ (Bus!IpcCallReceives(c) \/ Bus!IpcCallEnds(c))
      PROVE  Bus!NoLostWakeup'
  <2>1. inbox' = inbox /\ readErr' = readErr
    BY <1>4 DEF Bus!ConnSend, Bus!IpcSend, Bus!BeginMatch, Bus!MatchFails, Bus!NextOfClosed, Bus!IpcCallReceives,
         Bus!IpcCallEnds
  <2>2. \A d \in Bus!Clients : place'[d] = "waiting" => place[d] = "waiting"
    BY <1>1, <1>4 DEF Bus!ConnSend, Bus!IpcSend, Bus!BeginMatch, Bus!MatchFails, Bus!NextOfClosed,
         Bus!IpcCallReceives, Bus!IpcCallEnds
  <2>3. QED
    BY <1>2, <2>1, <2>2
<1>5. ASSUME NEW c \in Bus!Clients, Bus!MatchWaits(c) PROVE Bus!NoLostWakeup'
  <2>1. inbox' = inbox /\ readErr' = readErr /\ Bus!Matching(c) = {} /\ ~readErr
    BY <1>5 DEF Bus!MatchWaits
  <2>2. \A d \in Bus!Clients \ {c} : place'[d] = place[d]
    BY <1>1, <1>5 DEF Bus!MatchWaits
  <2>3. QED
    BY <1>2, <2>1, <2>2
<1>6. ASSUME NEW c \in Bus!Clients, Bus!TakeMatch(c) PROVE Bus!NoLostWakeup'
  <2>1. PICK k \in Bus!First(Bus!Matching(c)) : inbox' = Bus!Without(inbox, k)
    BY <1>6 DEF Bus!TakeMatch
  <2>2. readErr' = readErr /\ \A d \in Bus!Clients : place'[d] = "waiting" => place[d] = "waiting"
    BY <1>1, <1>6 DEF Bus!TakeMatch, Bus!AfterMatch
  <2>3. k \in DOMAIN inbox /\ DOMAIN inbox = 1 .. Len(inbox) /\ Len(inbox) \in Nat
    BY <1>1 DEF Bus!First, Bus!Matching
  <2>4. PICK box : box = Bus!Without(inbox, k)
    OBVIOUS
  <2>5. /\ box \in Seq(Bus!Message) /\ Len(box) = Len(inbox) - 1
        /\ \A i \in DOMAIN box : box[i] = IF i < k THEN inbox[i] ELSE inbox[i + 1]
    <3>1. /\ Bus!Without(inbox, k) \in Seq(Bus!Message) /\ Len(Bus!Without(inbox, k)) = Len(inbox) - 1
          /\ \A i \in DOMAIN Bus!Without(inbox, k) :
               Bus!Without(inbox, k)[i] = IF i < k THEN inbox[i] ELSE inbox[i + 1]
      BY <1>1, <2>3, WithoutShortens
    <3>2. QED
      BY <2>4, <3>1
  <2>6. \A i \in 1 .. Len(box) : \E j \in 1 .. Len(inbox) : box[i] = inbox[j]
    BY <2>3, <2>5
  <2>7. ASSUME NEW d \in Bus!Clients, Bus!Matching(d) = {}
        PROVE  Bus!Matching(d)' = {}
    <3>1. \A j \in 1 .. Len(inbox) : ~Bus!Matches(d, inbox[j])
      BY <2>7 DEF Bus!Matching
    <3>2. \A i \in 1 .. Len(box) : ~Bus!Matches(d, box[i])
      BY <2>6, <3>1
    <3>3. inbox' = box
      BY <2>1, <2>4
    <3>4. QED
      BY <3>2, <3>3 DEF Bus!Matching, Bus!Matches
  <2>8. QED
    BY <1>1, <2>2, <2>7 DEF Bus!NoLostWakeup
<1>7. ASSUME Bus!ReaderReceives \/ Bus!ReaderEnds PROVE Bus!NoLostWakeup'
  <2>1. Bus!Broadcast
    BY <1>7 DEF Bus!ReaderReceives, Bus!ReaderEnds
  <2>2. \A d \in Bus!Clients : place'[d] # "waiting"
    BY <2>1 DEF Bus!Broadcast
  <2>3. QED
    BY <2>2 DEF Bus!NoLostWakeup
<1>8. ASSUME \/ Bus!EnterRecv("reader") \/ \E c \in BusCallers : Bus!EnterRecv(c)
             \/ \E s \in BusSubscribers : Bus!Close(s)
             \/ Bus!PeerSends \/ Bus!ConnectionEnds \/ UNCHANGED Bus!vars
      PROVE  Bus!NoLostWakeup'
  <2>1. UNCHANGED <<inbox, readErr, place>>
    BY <1>8 DEF Bus!EnterRecv, Bus!Close, Bus!PeerSends, Bus!ConnectionEnds, Bus!vars
  <2>2. QED
    BY <1>2, <2>1
<1>9. QED
  BY <1>3, <1>4, <1>5, <1>6, <1>7, <1>8
     DEF Bus!Next, Bus!ReaderLoop, Bus!IpcRecv, Bus!RecvMatch, Bus!Clients

LEMMA BusCardinality == \A S : Bus!Cardinality(S) = Cardinality(S)
BY DEF Bus!Cardinality, Cardinality, Bus!IsFiniteSet, IsFiniteSet

(* In a queue without duplicates, a message is at one index or at none.    *)
LEMMA Placed ==
  ASSUME NEW q, NEW m, Bus!Distinct(q)
  PROVE  /\ m \in Bus!Elements(q) => \E i : Bus!At(q, m) = {i}
         /\ m \notin Bus!Elements(q) => Bus!At(q, m) = {}
BY DEF Bus!Distinct, Bus!Elements, Bus!At

LEMMA Counted == Cardinality({}) = 0 /\ \A x : Cardinality({x}) = 1
BY FS_EmptySet, FS_Singleton

(* What the invariant says of what has arrived.                            *)
LEMMA AllAccounted ==
  ASSUME Bus!TypeOK, Bus!BusInv
  PROVE  Bus!Accounted
<1> SUFFICES ASSUME NEW m \in peerSent, m.kind # "garbage"
             PROVE  Cardinality(Bus!At(incoming, m)) + Cardinality(Bus!At(inbox, m))
                      + Cardinality(UNION {{c} \X Bus!At(taken[c], m) : c \in Bus!Clients}) = 1
  BY BusCardinality DEF Bus!Accounted
<1>1. Bus!PlacesInv
  BY DEF Bus!BusInv
<1>2. PICK held : held = UNION {{c} \X Bus!At(taken[c], m) : c \in Bus!Clients}
  OBVIOUS
<1>3. ASSUME \A c \in Bus!Clients : m \notin Bus!Elements(taken[c])
      PROVE  Cardinality(held) = 0
  <2>1. \A c \in Bus!Clients : Bus!At(taken[c], m) = {}
    BY <1>1, <1>3, Placed DEF Bus!PlacesInv
  <2>2. held = {}
    BY <1>2, <2>1
  <2>3. QED
    BY <2>2, Counted
<1>4. ASSUME m \notin Bus!Elements(incoming) PROVE Cardinality(Bus!At(incoming, m)) = 0
  BY <1>1, <1>4, Placed, Counted DEF Bus!PlacesInv
<1>5. ASSUME m \notin Bus!Elements(inbox) PROVE Cardinality(Bus!At(inbox, m)) = 0
  BY <1>1, <1>5, Placed, Counted DEF Bus!PlacesInv
<1>6. CASE m \in Bus!Elements(incoming)
  <2>1. m \notin Bus!Elements(inbox) /\ \A c \in Bus!Clients : m \notin Bus!Elements(taken[c])
    BY <1>1, <1>6 DEF Bus!PlacesInv
  <2>2. PICK i : Bus!At(incoming, m) = {i}
    BY <1>1, <1>6, Placed DEF Bus!PlacesInv
  <2>3. Cardinality({i}) = 1
    BY Counted
  <2>4. /\ Cardinality(Bus!At(incoming, m)) = 1 /\ Cardinality(Bus!At(inbox, m)) = 0
        /\ Cardinality(held) = 0
    BY <1>3, <1>5, <2>1, <2>2, <2>3
  <2>5. QED
    BY <1>2, <2>4
<1>7. CASE m \in Bus!Elements(inbox)
  <2>1. m \notin Bus!Elements(incoming) /\ \A c \in Bus!Clients : m \notin Bus!Elements(taken[c])
    BY <1>1, <1>7 DEF Bus!PlacesInv
  <2>2. PICK i : Bus!At(inbox, m) = {i}
    BY <1>1, <1>7, Placed DEF Bus!PlacesInv
  <2>3. Cardinality({i}) = 1
    BY Counted
  <2>4. /\ Cardinality(Bus!At(inbox, m)) = 1 /\ Cardinality(Bus!At(incoming, m)) = 0
        /\ Cardinality(held) = 0
    BY <1>3, <1>4, <2>1, <2>2, <2>3
  <2>5. QED
    BY <1>2, <2>4
<1>8. ASSUME NEW c \in Bus!Clients, m \in Bus!Elements(taken[c])
      PROVE  Cardinality(Bus!At(incoming, m)) + Cardinality(Bus!At(inbox, m)) + Cardinality(held) = 1
  <2>1. m \notin Bus!Elements(incoming) /\ m \notin Bus!Elements(inbox)
    BY <1>1, <1>8 DEF Bus!PlacesInv
  <2>2. \A d \in Bus!Clients \ {c} : Bus!At(taken[d], m) = {}
    <3>1. \A d \in Bus!Clients \ {c} : m \notin Bus!Elements(taken[d])
      BY <1>1, <1>8 DEF Bus!PlacesInv
    <3>2. QED
      BY <1>1, <3>1, Placed DEF Bus!PlacesInv
  <2>3. PICK i : Bus!At(taken[c], m) = {i}
    BY <1>1, <1>8, Placed DEF Bus!PlacesInv
  <2>4. held = {<<c, i>>}
    BY <1>2, <2>2, <2>3
  <2>5. Cardinality(held) = 1
    BY <2>4, Counted
  <2>6. QED
    BY <1>4, <1>5, <2>1, <2>5
<1>9. QED
  BY <1>1, <1>2, <1>6, <1>7, <1>8 DEF Bus!PlacesInv

(* Two queues that rise, one after the other.                              *)
LEMMA Joined ==
  ASSUME NEW T, NEW p \in Seq(T), NEW q \in Seq(T)
  PROVE  /\ p \o q \in Seq(T) /\ Bus!Elements(p \o q) = Bus!Elements(p) \cup Bus!Elements(q)
         /\ \A s : Bus!Rising(s, p) /\ Bus!Rising(s, q) /\ Bus!Below(s, Bus!Elements(p), Bus!Elements(q)) =>
              Bus!Rising(s, p \o q)
<1>1. PICK r : r = p \o q
  OBVIOUS
<1>2. /\ r \in Seq(T) /\ DOMAIN r = 1 .. Len(p) + Len(q) /\ Len(p) \in Nat /\ Len(q) \in Nat
      /\ DOMAIN p = 1 .. Len(p) /\ DOMAIN q = 1 .. Len(q)
  BY <1>1
<1>3. \A i \in 1 .. Len(p) + Len(q) : r[i] = IF i <= Len(p) THEN p[i] ELSE q[i - Len(p)]
  BY <1>1, ConcatProperties
<1>4. \A i \in DOMAIN r : \/ i \in DOMAIN p /\ r[i] = p[i]
                          \/ i > Len(p) /\ i - Len(p) \in DOMAIN q /\ r[i] = q[i - Len(p)]
  BY <1>2, <1>3
<1>5. /\ \A i \in DOMAIN p : i \in DOMAIN r /\ r[i] = p[i]
      /\ \A i \in DOMAIN q : i + Len(p) \in DOMAIN r /\ r[i + Len(p)] = q[i]
  <2>1. ASSUME NEW i \in DOMAIN q PROVE i + Len(p) \in DOMAIN r /\ r[i + Len(p)] = q[i]
    <3>1. i + Len(p) \in 1 .. Len(p) + Len(q) /\ ~(i + Len(p) <= Len(p)) /\ (i + Len(p)) - Len(p) = i
      BY <1>2
    <3>2. QED
      BY <1>2, <1>3, <3>1
  <2>2. QED
    BY <1>2, <1>3, <2>1
<1>6. Bus!Elements(r) = Bus!Elements(p) \cup Bus!Elements(q)
  BY <1>4, <1>5 DEF Bus!Elements
<1>7. ASSUME NEW s, Bus!Rising(s, p), Bus!Rising(s, q), Bus!Below(s, Bus!Elements(p), Bus!Elements(q))
      PROVE  Bus!Rising(s, r)
  <2> SUFFICES ASSUME NEW i \in DOMAIN r, NEW j \in DOMAIN r, i < j, Bus!Matches(s, r[i]), Bus!Matches(s, r[j])
               PROVE  r[i].of < r[j].of
    BY DEF Bus!Rising
  <2>1. CASE j \in DOMAIN p /\ r[j] = p[j]
    <3>1. i \in DOMAIN p /\ r[i] = p[i]
      BY <1>2, <1>4, <2>1
    <3>2. QED
      BY <1>7, <2>1, <3>1 DEF Bus!Rising
  <2>2. CASE j > Len(p) /\ j - Len(p) \in DOMAIN q /\ r[j] = q[j - Len(p)]
    <3>1. CASE i \in DOMAIN p /\ r[i] = p[i]
      BY <1>7, <2>2, <3>1 DEF Bus!Below, Bus!Elements
    <3>2. CASE i > Len(p) /\ i - Len(p) \in DOMAIN q /\ r[i] = q[i - Len(p)]
      <4>1. i - Len(p) < j - Len(p)
        BY <1>2
      <4>2. QED
        BY <1>7, <2>2, <3>2, <4>1 DEF Bus!Rising
    <3>3. QED
      BY <1>4, <3>1, <3>2
  <2>3. QED
    BY <1>4, <2>1, <2>2
<1>8. QED
  BY <1>1, <1>2, <1>6, <1>7

LEMMA AllInOrder ==
  ASSUME Bus!TypeOK, Bus!BusInv
  PROVE  Bus!InOrder
<1> SUFFICES ASSUME NEW s \in BusSubscribers
             PROVE  \A i, j \in DOMAIN (taken[s] \o inbox \o incoming) :
                      /\ i < j
                      /\ Bus!Matches(s, (taken[s] \o inbox \o incoming)[i])
                      /\ Bus!Matches(s, (taken[s] \o inbox \o incoming)[j])
                      => (taken[s] \o inbox \o incoming)[i].of < (taken[s] \o inbox \o incoming)[j].of
  BY DEF Bus!InOrder
<1>1. PICK mine, box, rest : mine = taken[s] /\ box = inbox /\ rest = incoming
  OBVIOUS
<1>2. PICK first : first = mine \o box
  OBVIOUS
<1>3. mine \in Seq(Bus!Message) /\ box \in Seq(Bus!Message) /\ rest \in Seq(Bus!Message)
  BY <1>1, QueuesTyped DEF Bus!Clients
<1>4. /\ Bus!Rising(s, mine) /\ Bus!Rising(s, box) /\ Bus!Rising(s, rest)
      /\ Bus!Below(s, Bus!Elements(mine), Bus!Elements(box) \cup Bus!Elements(rest))
      /\ Bus!Below(s, Bus!Elements(box), Bus!Elements(rest))
  BY <1>1 DEF Bus!BusInv, Bus!OrderInv
<1>5. first \in Seq(Bus!Message) /\ Bus!Elements(first) = Bus!Elements(mine) \cup Bus!Elements(box) /\ Bus!Rising(s, first)
  <2>1. Bus!Below(s, Bus!Elements(mine), Bus!Elements(box))
    BY <1>4 DEF Bus!Below
  <2>2. /\ mine \o box \in Seq(Bus!Message) /\ Bus!Elements(mine \o box) = Bus!Elements(mine) \cup Bus!Elements(box)
        /\ \A t : /\ Bus!Rising(t, mine) /\ Bus!Rising(t, box)
                  /\ Bus!Below(t, Bus!Elements(mine), Bus!Elements(box))
                  => Bus!Rising(t, mine \o box)
    BY <1>3, Joined
  <2>3. QED
    BY <1>2, <1>4, <2>1, <2>2
<1>6. Bus!Rising(s, first \o rest)
  <2>1. Bus!Below(s, Bus!Elements(first), Bus!Elements(rest))
    BY <1>4, <1>5 DEF Bus!Below
  <2>2. \A t : /\ Bus!Rising(t, first) /\ Bus!Rising(t, rest)
               /\ Bus!Below(t, Bus!Elements(first), Bus!Elements(rest))
               => Bus!Rising(t, first \o rest)
    BY <1>3, <1>5, Joined
  <2>3. QED
    BY <1>4, <1>5, <2>1, <2>2
<1>7. Bus!Rising(s, taken[s] \o inbox \o incoming)
  BY <1>1, <1>2, <1>6
<1>8. QED
  BY <1>7 DEF Bus!Rising

LEMMA BusStep == Bus!TypeOK /\ Bus!BusInv /\ [Bus!Next]_Bus!vars => Bus!TypeOK' /\ Bus!BusInv'
<1> SUFFICES ASSUME Bus!TypeOK, Bus!BusInv, [Bus!Next]_Bus!vars PROVE Bus!TypeOK' /\ Bus!BusInv'
  OBVIOUS
<1>1. Bus!TypeOK'
  BY BusTyped
<1>2. Bus!SendInv' /\ Bus!PlacesInv' /\ Bus!OrderInv' /\ Bus!CallInv' /\ Bus!NoLostWakeup'
  BY SendKept, PlacesKept, CallsKept, WakeupsKept
<1>3. QED
  BY <1>1, <1>2 DEF Bus!BusInv

LEMMA DeliveredHolds == Bus!TypeOK /\ Bus!BusInv => Delivered
<1> SUFFICES ASSUME Bus!TypeOK, Bus!BusInv PROVE Delivered
  OBVIOUS
<1>1. Bus!Accounted /\ Bus!InOrder
  BY AllAccounted, AllInOrder
<1>2. Bus!NoLostWakeup /\ Bus!CallInv
  BY DEF Bus!BusInv
<1>3. Bus!CallsKeptApart
  BY <1>2 DEF Bus!CallInv, Bus!CallsKeptApart
<1>4. QED
  BY <1>1, <1>2, <1>3 DEF Delivered

(* What arrives at the bus reaches whoever it is for, once and in order,   *)
(* nobody sleeps over it, and calls that share the connection get their    *)
(* own responses (iaxConnTakeInboxMatchLocked, iaxConnRecvMatch).          *)
THEOREM MessagesDelivered == Bus!Spec => []Delivered
<1>1. Bus!Init => Bus!TypeOK /\ Bus!BusInv
  BY BusStarts
<1>2. Bus!TypeOK /\ Bus!BusInv /\ [Bus!Next]_Bus!vars => Bus!TypeOK' /\ Bus!BusInv'
  BY BusStep
<1>3. QED
  BY <1>1, <1>2, DeliveredHolds, PTL DEF Bus!Spec

-----------------------------------------------------------------------------
(* The beginnings of sequences, and elements that go from one to the next. *)

(* The elements of p are the first ones of t.                              *)
IsStart(p, t) == Len(p) <= Len(t) /\ \A i \in 1 .. Len(p) : p[i] = t[i]

LEMMA StartIs ==
  ASSUME NEW T, NEW p \in Seq(T), NEW t \in Seq(T)
  PROVE  /\ Len(p) <= Len(t) /\ SubSeq(p, 1, Len(p)) = SubSeq(t, 1, Len(p)) <=> IsStart(p, t)
<1>1. Len(p) \in Nat /\ Len(t) \in Nat
  OBVIOUS
<1>2. SubSeq(p, 1, Len(p)) = p
  BY SubSeqFull
<1>3. ASSUME Len(p) <= Len(t) PROVE p = SubSeq(t, 1, Len(p)) <=> \A i \in 1 .. Len(p) : p[i] = t[i]
  <2>1. PICK s : s = SubSeq(t, 1, Len(p))
    OBVIOUS
  <2>2. s \in Seq(T) /\ Len(s) = Len(p) /\ \A i \in 1 .. Len(p) : s[i] = t[i]
    <3>1. \A i \in 1 .. Len(p) : t[i] \in T
      BY <1>1, <1>3
    <3>2. /\ SubSeq(t, 1, Len(p)) \in Seq(T)
          /\ Len(SubSeq(t, 1, Len(p))) = IF 1 <= Len(p) THEN Len(p) - 1 + 1 ELSE 0
          /\ \A i \in 1 .. Len(p) - 1 + 1 : SubSeq(t, 1, Len(p))[i] = t[1 + i - 1]
      BY <1>1, <3>1, SubSeqProperties
    <3>3. QED
      BY <1>1, <2>1, <3>2
  <2>3. p = s <=> Len(p) = Len(s) /\ \A i \in 1 .. Len(p) : p[i] = s[i]
    BY <2>2, SeqEqual
  <2>4. QED
    BY <2>1, <2>2, <2>3
<1>4. QED
  BY <1>2, <1>3 DEF IsStart

LEMMA StartOfWhole ==
  ASSUME NEW T, NEW p \in Seq(T), NEW q \in Seq(T), NEW t, t = p \o q
  PROVE  t \in Seq(T) /\ IsStart(p, t)
BY ConcatProperties DEF IsStart

LEMMA StartOfLonger ==
  ASSUME NEW T, NEW p \in Seq(T), NEW t \in Seq(T), NEW x \in T, IsStart(p, t)
  PROVE  IsStart(p, Append(t, x))
<1>1. Len(Append(t, x)) = Len(t) + 1 /\ \A i \in 1 .. Len(t) : Append(t, x)[i] = t[i]
  BY AppendProperties
<1>2. Len(p) \in Nat /\ Len(t) \in Nat
  OBVIOUS
<1>3. QED
  BY <1>1, <1>2 DEF IsStart

LEMMA StartOfShorter ==
  ASSUME NEW T, NEW p \in Seq(T), NEW q \in Seq(T), NEW t \in Seq(T), IsStart(p \o q, t)
  PROVE  IsStart(p, t)
<1>1. /\ Len(p \o q) = Len(p) + Len(q)
      /\ \A i \in 1 .. Len(p) + Len(q) : (p \o q)[i] = IF i <= Len(p) THEN p[i] ELSE q[i - Len(p)]
  BY ConcatProperties
<1>2. Len(p) \in Nat /\ Len(q) \in Nat /\ Len(t) \in Nat
  OBVIOUS
<1>3. QED
  BY <1>1, <1>2 DEF IsStart

LEMMA AppendIs ==
  ASSUME NEW T, NEW p \in Seq(T), NEW x \in T
  PROVE  Append(p, x) = p \o <<x>> /\ <<x>> \in Seq(T) /\ Append(p, x) \in Seq(T)
BY AppendIsConcat, AppendProperties

LEMMA HeadIs ==
  ASSUME NEW T, NEW q \in Seq(T), q # <<>>
  PROVE  /\ Head(q) \in T /\ Tail(q) \in Seq(T) /\ Len(Tail(q)) = Len(q) - 1 /\ q = <<Head(q)>> \o Tail(q)
         /\ <<Head(q)>> \in Seq(T)
<1>1. Head(q) \in T /\ Tail(q) \in Seq(T) /\ Len(Tail(q)) = Len(q) - 1
  BY HeadTailProperties
<1>2. q = <<Head(q)>> \o Tail(q)
  BY HeadTailAppend
<1>3. QED
  BY <1>1, <1>2

(* An element goes from the head of one queue to the end of the next one.  *)
LEMMA HeadMoves ==
  ASSUME NEW T, NEW p \in Seq(T), NEW q \in Seq(T), q # <<>>
  PROVE  Append(p, Head(q)) \o Tail(q) = p \o q /\ (p \o <<Head(q)>>) \o Tail(q) = p \o q
<1>1. PICK h, r : h = Head(q) /\ r = Tail(q)
  OBVIOUS
<1>2. h \in T /\ r \in Seq(T) /\ q = <<h>> \o r /\ <<h>> \in Seq(T)
  BY <1>1, HeadIs
<1>3. Append(p, h) = p \o <<h>>
  BY <1>2, AppendIsConcat
<1>4. (p \o <<h>>) \o r = p \o (<<h>> \o r)
  BY <1>2, ConcatAssociative
<1>5. QED
  BY <1>1, <1>2, <1>3, <1>4

LEMMA AppendLast ==
  ASSUME NEW T, NEW p \in Seq(T), NEW q \in Seq(T), NEW x \in T
  PROVE  p \o Append(q, x) = Append(p \o q, x)
<1>1. p \o q \in Seq(T) /\ <<x>> \in Seq(T)
  BY ConcatProperties
<1>2. Append(q, x) = q \o <<x>> /\ Append(p \o q, x) = (p \o q) \o <<x>>
  BY <1>1, AppendIsConcat
<1>3. (p \o q) \o <<x>> = p \o (q \o <<x>>)
  BY <1>1, ConcatAssociative
<1>4. QED
  BY <1>2, <1>3

-----------------------------------------------------------------------------
(* The hub of a server of events, sse.go: its clients, one by one.         *)

(* What one client of the hub is to the server: what it has read, what is  *)
(* under way to it, being written and in its channel, what was counted for *)
(* it, its connection, its goroutine, whether the hub has it and whether   *)
(* its channel is closed.                                                  *)
Client(h, w, o, q, s, l, v, member, closedNow) ==
  /\ IsStart(h \o w, s)
  /\ l = "open" => h \o w \o o \o q = s
  /\ v # "writing" => o = <<>>
  /\ v \in {"none", "arriving"} => ~member /\ ~closedNow
  /\ v = "none" => h = <<>> /\ w = <<>> /\ q = <<>> /\ s = <<>>
  /\ member => ~closedNow /\ v \in {"loop", "writing", "leaving"}
  /\ v \in {"loop", "writing", "leaving"} => member \/ closedNow

ClientOf(c) ==
  Client(heard[c], wire[c], writing[c], channel[c], sentTo[c], link[c], serving[c], c \in clients, sealed[c])

LEMMA HubTyped ==
  ASSUME Hub!TypeOK
  PROVE  /\ heard \in [HubReaders -> Seq(HubSends)] /\ wire \in [HubReaders -> Seq(HubSends)]
         /\ writing \in [HubReaders -> Seq(HubSends)] /\ channel \in [HubReaders -> Seq(HubSends)]
         /\ sentTo \in [HubReaders -> Seq(HubSends)]
         /\ sealed \in [HubReaders -> BOOLEAN] /\ clients \subseteq HubReaders
         /\ serving \in [HubReaders -> {"none", "arriving", "loop", "writing", "leaving", "ended"}]
         /\ link \in [HubReaders -> {"none", "open", "left", "cut", "ended"}]
BY DEF Hub!TypeOK

LEMMA HubPrefix ==
  ASSUME NEW p \in Seq(HubSends), NEW t \in Seq(HubSends)
  PROVE  Hub!IsPrefix(p, t) <=> IsStart(p, t)
BY StartIs DEF Hub!IsPrefix

LEMMA HubClients ==
  ASSUME Hub!TypeOK
  PROVE  Hub!HubInv <=> /\ \A c \in HubReaders : ClientOf(c)
                        /\ Hub!SentInv /\ Hub!Counted /\ ~panicked
                        /\ hubClosed => clients = {}
<1>1. \A c \in HubReaders :
        /\ Hub!IsPrefix(heard[c] \o wire[c], sentTo[c]) <=> IsStart(heard[c] \o wire[c], sentTo[c])
  <2> SUFFICES ASSUME NEW c \in HubReaders
               PROVE  Hub!IsPrefix(heard[c] \o wire[c], sentTo[c]) <=> IsStart(heard[c] \o wire[c], sentTo[c])
    OBVIOUS
  <2>1. PICK h, w, s : h = heard[c] /\ w = wire[c] /\ s = sentTo[c]
    OBVIOUS
  <2>2. h \in Seq(HubSends) /\ w \in Seq(HubSends) /\ s \in Seq(HubSends)
    BY <2>1, HubTyped
  <2>3. h \o w \in Seq(HubSends)
    BY <2>2, ConcatProperties
  <2>4. Hub!IsPrefix(h \o w, s) <=> IsStart(h \o w, s)
    BY <2>2, <2>3, HubPrefix
  <2>5. QED
    BY <2>1, <2>4
<1>2. clients \subseteq HubReaders
  BY HubTyped
<1>3. Hub!HubInv => /\ \A c \in HubReaders : ClientOf(c)
                    /\ Hub!SentInv /\ Hub!Counted /\ ~panicked
                    /\ hubClosed => clients = {}
  BY <1>1 DEF Hub!HubInv, Hub!StreamInv, Hub!RegisterInv, Hub!ClosedOnce, ClientOf, Client
<1>4. ASSUME \A c \in HubReaders : ClientOf(c), Hub!SentInv, Hub!Counted, ~panicked, hubClosed => clients = {}
      PROVE  Hub!HubInv
  <2>1. Hub!StreamInv
    BY <1>1, <1>4 DEF Hub!StreamInv, ClientOf, Client
  <2>2. Hub!RegisterInv
    BY <1>4 DEF Hub!RegisterInv, ClientOf, Client
  <2>3. Hub!ClosedOnce
    BY <1>2, <1>4 DEF Hub!ClosedOnce, ClientOf, Client
  <2>4. QED
    BY <1>4, <2>1, <2>2, <2>3 DEF Hub!HubInv
<1>5. QED
  BY <1>3, <1>4

LEMMA HubClientsNext ==
  ASSUME Hub!TypeOK', \A c \in HubReaders : ClientOf(c)', Hub!SentInv', Hub!Counted', ~panicked',
         hubClosed' => clients' = {}
  PROVE  Hub!HubInv'
<1>1. (Hub!TypeOK /\ (\A c \in HubReaders : ClientOf(c)) /\ Hub!SentInv /\ Hub!Counted /\ ~panicked
       /\ (hubClosed => clients = {}) => Hub!HubInv)'
  BY HubClients, PTL
<1>2. QED
  BY <1>1

LEMMA SentSame ==
  ASSUME Hub!SentInv, Hub!Counted, sentTo' = sentTo, sending' = sending
  PROVE  Hub!SentInv' /\ Hub!Counted'
<1>1. \A c : Hub!Range(sentTo'[c]) = Hub!Range(sentTo[c]) /\ (Hub!IsInjective(sentTo'[c]) <=> Hub!IsInjective(sentTo[c]))
  OBVIOUS
<1>2. Hub!SentInv'
  BY <1>1 DEF Hub!SentInv, Hub!NotSent
<1>3. Hub!Counted'
  BY <1>1 DEF Hub!Counted, Hub!NotSent
<1>4. QED
  BY <1>2, <1>3

LEMMA HubCardinality == \A S : Hub!Cardinality(S) = Cardinality(S)
BY DEF Hub!Cardinality, Cardinality, Hub!IsFiniteSet, IsFiniteSet

LEMMA HubStarts == Hub!Init => Hub!TypeOK /\ Hub!HubInv
<1> SUFFICES ASSUME Hub!Init PROVE Hub!TypeOK /\ Hub!HubInv
  OBVIOUS
<1>1. /\ channel = [c \in HubReaders |-> <<>>] /\ writing = [c \in HubReaders |-> <<>>]
      /\ wire = [c \in HubReaders |-> <<>>] /\ heard = [c \in HubReaders |-> <<>>]
      /\ sentTo = [c \in HubReaders |-> <<>>] /\ sealed = [c \in HubReaders |-> FALSE]
      /\ serving = [c \in HubReaders |-> "none"] /\ link = [c \in HubReaders |-> "none"]
      /\ clients = {} /\ ~panicked /\ hubClosed = FALSE
      /\ sending = [s \in HubSends |-> Hub!NotSent] /\ shutting = [x \in HubCloses |-> "idle"]
  BY DEF Hub!Init
<1>2. <<>> \in Seq(HubSends) /\ Len(<<>>) = 0
  OBVIOUS
<1>3. Hub!TypeOK
  <2>1. \A f \in {channel, writing, wire, heard, sentTo} : f \in [HubReaders -> Seq(HubSends)]
    BY <1>1, <1>2
  <2>2. \A c \in HubReaders : Len(channel[c]) <= ChannelSize /\ Len(writing[c]) <= 1 /\ Len(wire[c]) <= Window
    BY <1>1, StreamsAssumption
  <2>3. panicked \in BOOLEAN
    BY DEF Hub!Init
  <2>4. QED
    BY <1>1, <2>1, <2>2, <2>3 DEF Hub!TypeOK
<1>4. \A c \in HubReaders : ClientOf(c)
  <2>1. IsStart(<<>> \o <<>>, <<>>)
    BY DEF IsStart
  <2>2. QED
    BY <1>1, <2>1 DEF ClientOf, Client
<1>5. Hub!SentInv /\ Hub!Counted
  BY <1>1 DEF Hub!SentInv, Hub!Counted, Hub!IsInjective, Hub!Range
<1>6. QED
  BY <1>1, <1>3, <1>4, <1>5, HubClients

LEMMA ClientSame ==
  ASSUME NEW d, ClientOf(d),
         NEW h, NEW w, NEW o, NEW q, NEW s, NEW l, NEW v, NEW z,
         heard[d] = h, wire[d] = w, writing[d] = o, channel[d] = q, sentTo[d] = s, link[d] = l, serving[d] = v,
         sealed[d] = z,
         heard'[d] = h, wire'[d] = w, writing'[d] = o, channel'[d] = q, sentTo'[d] = s, link'[d] = l, serving'[d] = v,
         sealed'[d] = z, d \in clients' <=> d \in clients
  PROVE  ClientOf(d)'
<1>1. PICK p : p = h \o w
  OBVIOUS
<1>2. IsStart(p, s)
  BY <1>1 DEF ClientOf, Client
<1>3. (heard[d] \o wire[d])' = p
  BY <1>1
<1>4. IsStart(heard[d] \o wire[d], sentTo[d])'
  BY <1>2, <1>3 DEF IsStart
<1>5. QED
  BY <1>4 DEF ClientOf, Client

(* A step of one client, which gets new parts.                             *)
LEMMA ClientMoves ==
  ASSUME Hub!TypeOK, Hub!HubInv, NEW c \in HubReaders,
         NEW h, NEW w, NEW o, NEW q, NEW l, NEW v, NEW z,
         heard' = [heard EXCEPT ![c] = h], wire' = [wire EXCEPT ![c] = w],
         writing' = [writing EXCEPT ![c] = o], channel' = [channel EXCEPT ![c] = q],
         link' = [link EXCEPT ![c] = l], serving' = [serving EXCEPT ![c] = v],
         sealed' = [sealed EXCEPT ![c] = z],
         sentTo' = sentTo, sending' = sending, ~panicked', hubClosed' = hubClosed, Hub!TypeOK',
         clients' \ {c} = clients \ {c}, hubClosed => c \notin clients',
         Client(h, w, o, q, sentTo[c], l, v, c \in clients', z)
  PROVE  Hub!HubInv'
<1>1. \A d \in HubReaders : ClientOf(d)'
  <2>1. \A d \in HubReaders : ClientOf(d) /\ (d # c => (d \in clients' <=> d \in clients))
    BY HubClients
  <2>2. ASSUME NEW d \in HubReaders, d # c PROVE ClientOf(d)'
    <3>1. /\ heard'[d] = heard[d] /\ wire'[d] = wire[d] /\ writing'[d] = writing[d] /\ channel'[d] = channel[d]
          /\ link'[d] = link[d] /\ serving'[d] = serving[d] /\ sealed'[d] = sealed[d] /\ sentTo'[d] = sentTo[d]
      BY <2>2, HubTyped
    <3>2. d \in clients' <=> d \in clients
      BY <2>1, <2>2
    <3>3. QED
      BY <2>1, <3>1, <3>2, ClientSame
  <2>3. ClientOf(c)'
    <3>1. /\ heard'[c] = h /\ wire'[c] = w /\ writing'[c] = o /\ channel'[c] = q
          /\ link'[c] = l /\ serving'[c] = v /\ sealed'[c] = z
      BY HubTyped
    <3>2. QED
      BY <3>1 DEF ClientOf, Client, IsStart
  <2>4. QED
    BY <2>2, <2>3
<1>2. Hub!SentInv' /\ Hub!Counted'
  BY SentSame DEF Hub!HubInv
<1>3. hubClosed' => clients' = {}
  BY HubClients
<1>4. QED
  BY <1>1, <1>2, <1>3, HubClientsNext

LEMMA ClientTyped ==
  ASSUME Hub!TypeOK, NEW c \in HubReaders,
         NEW h \in Seq(HubSends), NEW w \in Seq(HubSends), NEW o \in Seq(HubSends), NEW q \in Seq(HubSends),
         NEW l \in {"none", "open", "left", "cut", "ended"},
         NEW v \in {"none", "arriving", "loop", "writing", "leaving", "ended"}, NEW z \in BOOLEAN,
         heard' = [heard EXCEPT ![c] = h], wire' = [wire EXCEPT ![c] = w],
         writing' = [writing EXCEPT ![c] = o], channel' = [channel EXCEPT ![c] = q],
         link' = [link EXCEPT ![c] = l], serving' = [serving EXCEPT ![c] = v],
         sealed' = [sealed EXCEPT ![c] = z],
         UNCHANGED <<sentTo, sending, shutting, hubClosed>>, panicked' \in BOOLEAN, clients' \subseteq HubReaders,
         Len(q) <= ChannelSize, Len(o) <= 1, Len(w) <= Window
  PROVE  Hub!TypeOK'
<1>1. /\ heard' \in [HubReaders -> Seq(HubSends)] /\ wire' \in [HubReaders -> Seq(HubSends)]
      /\ writing' \in [HubReaders -> Seq(HubSends)] /\ channel' \in [HubReaders -> Seq(HubSends)]
      /\ sentTo' \in [HubReaders -> Seq(HubSends)]
  <2>1. PICK T : T = Seq(HubSends)
    OBVIOUS
  <2>2. /\ heard \in [HubReaders -> T] /\ wire \in [HubReaders -> T] /\ writing \in [HubReaders -> T]
        /\ channel \in [HubReaders -> T] /\ sentTo \in [HubReaders -> T] /\ {h, w, o, q} \subseteq T
    BY <2>1, HubTyped
  <2>3. /\ heard' \in [HubReaders -> T] /\ wire' \in [HubReaders -> T] /\ writing' \in [HubReaders -> T]
        /\ channel' \in [HubReaders -> T] /\ sentTo' \in [HubReaders -> T]
    BY <2>2
  <2>4. QED
    BY <2>1, <2>3
<1>2. \A f \in {channel', writing', wire', heard', sentTo'} : f \in [HubReaders -> Seq(HubSends)]
  BY <1>1
<1>3. /\ sealed' \in [HubReaders -> BOOLEAN]
      /\ serving' \in [HubReaders -> {"none", "arriving", "loop", "writing", "leaving", "ended"}]
      /\ link' \in [HubReaders -> {"none", "open", "left", "cut", "ended"}]
  BY HubTyped
<1>4. \A d \in HubReaders : Len(channel'[d]) <= ChannelSize /\ Len(writing'[d]) <= 1 /\ Len(wire'[d]) <= Window
  <2> SUFFICES ASSUME NEW d \in HubReaders
               PROVE  Len(channel'[d]) <= ChannelSize /\ Len(writing'[d]) <= 1 /\ Len(wire'[d]) <= Window
    OBVIOUS
  <2>1. CASE d = c
    <3>1. channel'[d] = q /\ writing'[d] = o /\ wire'[d] = w
      BY <2>1, HubTyped
    <3>2. QED
      BY <3>1
  <2>2. CASE d # c
    <3>1. channel'[d] = channel[d] /\ writing'[d] = writing[d] /\ wire'[d] = wire[d]
      BY <2>2, HubTyped
    <3>2. Len(channel[d]) <= ChannelSize /\ Len(writing[d]) <= 1 /\ Len(wire[d]) <= Window
      BY DEF Hub!TypeOK
    <3>3. QED
      BY <3>1, <3>2
  <2>3. QED
    BY <2>1, <2>2
<1>5. sending' \in [HubSends -> {Hub!NotSent} \cup 0 .. Hub!Cardinality(HubReaders)]
  BY DEF Hub!TypeOK
<1>6. hubClosed' \in BOOLEAN /\ shutting' \in [HubCloses -> {"idle", "closing", "done"}]
  BY DEF Hub!TypeOK
<1>7. QED
  BY <1>2, <1>3, <1>4, <1>5, <1>6 DEF Hub!TypeOK

(* A step of one client: how its parts may change.                         *)
ClientNow(c, h, w, o, q, l, v, z) ==
  /\ h \in Seq(HubSends) /\ w \in Seq(HubSends) /\ o \in Seq(HubSends) /\ q \in Seq(HubSends)
  /\ l \in {"none", "open", "left", "cut", "ended"}
  /\ v \in {"none", "arriving", "loop", "writing", "leaving", "ended"} /\ z \in BOOLEAN
  /\ Len(q) <= ChannelSize /\ Len(o) <= 1 /\ Len(w) <= Window
  /\ heard = [heard EXCEPT ![c] = h] /\ wire = [wire EXCEPT ![c] = w]
  /\ writing = [writing EXCEPT ![c] = o] /\ channel = [channel EXCEPT ![c] = q]
  /\ link = [link EXCEPT ![c] = l] /\ serving = [serving EXCEPT ![c] = v] /\ sealed = [sealed EXCEPT ![c] = z]
  /\ heard[c] = h /\ wire[c] = w /\ writing[c] = o /\ channel[c] = q /\ link[c] = l /\ serving[c] = v /\ sealed[c] = z

LEMMA ClientIs ==
  ASSUME Hub!TypeOK, Hub!HubInv, NEW c \in HubReaders,
         NEW h, h = heard[c], NEW w, w = wire[c], NEW o, o = writing[c], NEW q, q = channel[c],
         NEW l, l = link[c], NEW v, v = serving[c], NEW z, z = sealed[c]
  PROVE  /\ ClientNow(c, h, w, o, q, l, v, z) /\ sentTo[c] \in Seq(HubSends)
         /\ Client(h, w, o, q, sentTo[c], l, v, c \in clients, z)
<1>1. ClientOf(c)
  BY HubClients
<1>2. Client(h, w, o, q, sentTo[c], l, v, c \in clients, z)
  BY <1>1 DEF ClientOf
<1>3. Len(q) <= ChannelSize /\ Len(o) <= 1 /\ Len(w) <= Window
  BY DEF Hub!TypeOK
<1>4. /\ heard = [heard EXCEPT ![c] = h] /\ wire = [wire EXCEPT ![c] = w]
      /\ writing = [writing EXCEPT ![c] = o] /\ channel = [channel EXCEPT ![c] = q]
      /\ link = [link EXCEPT ![c] = l] /\ serving = [serving EXCEPT ![c] = v] /\ sealed = [sealed EXCEPT ![c] = z]
  BY HubTyped
<1>5. /\ h \in Seq(HubSends) /\ w \in Seq(HubSends) /\ o \in Seq(HubSends) /\ q \in Seq(HubSends)
      /\ sentTo[c] \in Seq(HubSends)
  BY HubTyped
<1>6. /\ l \in {"none", "open", "left", "cut", "ended"}
      /\ v \in {"none", "arriving", "loop", "writing", "leaving", "ended"} /\ z \in BOOLEAN
  BY HubTyped
<1>7. QED
  BY <1>2, <1>3, <1>4, <1>5, <1>6 DEF ClientNow

(* A step of client c, and what its parts are after it.                    *)
Becomes(c, h, w, o, q, l, v, z) ==
  /\ heard' = [heard EXCEPT ![c] = h] /\ wire' = [wire EXCEPT ![c] = w]
  /\ writing' = [writing EXCEPT ![c] = o] /\ channel' = [channel EXCEPT ![c] = q]
  /\ link' = [link EXCEPT ![c] = l] /\ serving' = [serving EXCEPT ![c] = v]
  /\ sealed' = [sealed EXCEPT ![c] = z]
  /\ UNCHANGED <<sentTo, sending, shutting, hubClosed>>

ClientGoes(c, h, w, o, q, l, v, z) ==
  /\ Becomes(c, h, w, o, q, l, v, z)
  /\ h \in Seq(HubSends) /\ w \in Seq(HubSends) /\ o \in Seq(HubSends) /\ q \in Seq(HubSends)
  /\ l \in {"none", "open", "left", "cut", "ended"}
  /\ v \in {"none", "arriving", "loop", "writing", "leaving", "ended"} /\ z \in BOOLEAN
  /\ Len(q) <= ChannelSize /\ Len(o) <= 1 /\ Len(w) <= Window
  /\ panicked' = FALSE /\ clients' \subseteq HubReaders
  /\ clients' \ {c} = clients \ {c} /\ (hubClosed => c \notin clients')
  /\ Client(h, w, o, q, sentTo[c], l, v, c \in clients', z)

LEMMA ClientSteps ==
  ASSUME Hub!TypeOK, Hub!HubInv, NEW c \in HubReaders,
         NEW h, NEW w, NEW o, NEW q, NEW l, NEW v, NEW z, ClientGoes(c, h, w, o, q, l, v, z)
  PROVE  Hub!TypeOK' /\ Hub!HubInv'
<1>1. Becomes(c, h, w, o, q, l, v, z)
  BY DEF ClientGoes
<1>2. /\ h \in Seq(HubSends) /\ w \in Seq(HubSends) /\ o \in Seq(HubSends) /\ q \in Seq(HubSends)
      /\ l \in {"none", "open", "left", "cut", "ended"}
      /\ v \in {"none", "arriving", "loop", "writing", "leaving", "ended"} /\ z \in BOOLEAN
      /\ Len(q) <= ChannelSize /\ Len(o) <= 1 /\ Len(w) <= Window
  BY DEF ClientGoes
<1>3. /\ panicked' = FALSE /\ clients' \subseteq HubReaders
      /\ clients' \ {c} = clients \ {c} /\ (hubClosed => c \notin clients')
  BY DEF ClientGoes
<1>4. Client(h, w, o, q, sentTo[c], l, v, c \in clients', z)
  BY DEF ClientGoes
<1>5. Hub!TypeOK'
  BY <1>1, <1>2, <1>3, ClientTyped DEF Becomes
<1>6. Hub!HubInv'
  BY <1>1, <1>3, <1>4, <1>5, ClientMoves DEF Becomes
<1>7. QED
  BY <1>5, <1>6

(* The parts of a client before a step of it.                              *)
LEMMA HubQuiet ==
  ASSUME Hub!TypeOK, Hub!HubInv
  PROVE  panicked = FALSE /\ clients \subseteq HubReaders /\ (hubClosed => clients = {})
BY HubClients, HubTyped DEF Hub!TypeOK

LEMMA HubConnects ==
  ASSUME Hub!TypeOK, Hub!HubInv, NEW c \in HubReaders, Hub!Connect(c)
  PROVE  Hub!TypeOK' /\ Hub!HubInv'
<1>1. PICK h, w, o, q, l, v, z, s :
        /\ h = heard[c] /\ w = wire[c] /\ o = writing[c] /\ q = channel[c]
        /\ l = link[c] /\ v = serving[c] /\ z = sealed[c] /\ s = sentTo[c]
  OBVIOUS
<1>2. ClientNow(c, h, w, o, q, l, v, z) /\ Client(h, w, o, q, s, l, v, c \in clients, z)
  BY <1>1, ClientIs
<1>3. v = "none" /\ clients' = clients /\ panicked' = panicked
  BY <1>1 DEF Hub!Connect, Hub!Goes, Hub!hubVars
<1>4. Becomes(c, h, w, o, q, "open", "arriving", z)
  BY <1>2 DEF Becomes, ClientNow, Hub!Connect, Hub!Goes, Hub!hubVars
<1>5. h = <<>> /\ w = <<>> /\ o = <<>> /\ q = <<>> /\ s = <<>>
  BY <1>2, <1>3 DEF Client
<1>6. <<>> \o <<>> = <<>> /\ <<>> \o <<>> \o <<>> \o <<>> = <<>>
  OBVIOUS
<1>7. Client(h, w, o, q, s, "open", "arriving", c \in clients', z)
  BY <1>2, <1>3, <1>5, <1>6 DEF Client
<1>8. ClientGoes(c, h, w, o, q, "open", "arriving", z)
  BY <1>1, <1>2, <1>3, <1>4, <1>7, HubQuiet DEF ClientGoes, ClientNow
<1>9. QED
  BY <1>8, ClientSteps

LEMMA HubRegisters ==
  ASSUME Hub!TypeOK, Hub!HubInv, NEW c \in HubReaders, Hub!register(c)
  PROVE  Hub!TypeOK' /\ Hub!HubInv'
<1>1. PICK h, w, o, q, l, v, z, s :
        /\ h = heard[c] /\ w = wire[c] /\ o = writing[c] /\ q = channel[c]
        /\ l = link[c] /\ v = serving[c] /\ z = sealed[c] /\ s = sentTo[c]
  OBVIOUS
<1>2. ClientNow(c, h, w, o, q, l, v, z) /\ Client(h, w, o, q, s, l, v, c \in clients, z)
  BY <1>1, ClientIs
<1>3. v = "arriving" /\ panicked' = panicked
  BY <1>1 DEF Hub!register, Hub!Goes
<1>4. CASE hubClosed
  <2>1. Becomes(c, h, w, o, q, l, "ended", z) /\ clients' = clients
    BY <1>2, <1>4 DEF Becomes, ClientNow, Hub!register, Hub!Goes, Hub!linkVars
  <2>2. Client(h, w, o, q, s, l, "ended", c \in clients', z)
    BY <1>2, <1>3, <2>1 DEF Client
  <2>3. /\ h \in Seq(HubSends) /\ w \in Seq(HubSends) /\ o \in Seq(HubSends) /\ q \in Seq(HubSends)
        /\ l \in {"none", "open", "left", "cut", "ended"} /\ z \in BOOLEAN
        /\ Len(q) <= ChannelSize /\ Len(o) <= 1 /\ Len(w) <= Window
    BY <1>2 DEF ClientNow
  <2>4. clients' \ {c} = clients \ {c} /\ (hubClosed => c \notin clients') /\ panicked' = FALSE /\ clients' \subseteq HubReaders
    BY <1>3, <2>1, HubQuiet
  <2>5. ClientGoes(c, h, w, o, q, l, "ended", z)
    BY <1>1, <2>1, <2>2, <2>3, <2>4 DEF ClientGoes
  <2>6. QED
    BY <2>5, ClientSteps
<1>5. CASE ~hubClosed
  <2>1. Becomes(c, h, w, o, q, l, "loop", z) /\ clients' = clients \cup {c}
    BY <1>2, <1>5 DEF Becomes, ClientNow, Hub!register, Hub!Goes, Hub!linkVars
  <2>2. Client(h, w, o, q, s, l, "loop", c \in clients', z)
    BY <1>2, <1>3, <2>1 DEF Client
  <2>3. /\ h \in Seq(HubSends) /\ w \in Seq(HubSends) /\ o \in Seq(HubSends) /\ q \in Seq(HubSends)
        /\ l \in {"none", "open", "left", "cut", "ended"} /\ z \in BOOLEAN
        /\ Len(q) <= ChannelSize /\ Len(o) <= 1 /\ Len(w) <= Window
    BY <1>2 DEF ClientNow
  <2>4. clients' \ {c} = clients \ {c} /\ (hubClosed => c \notin clients') /\ panicked' = FALSE /\ clients' \subseteq HubReaders
    BY <1>3, <1>5, <2>1, HubQuiet
  <2>5. ClientGoes(c, h, w, o, q, l, "loop", z)
    BY <1>1, <2>1, <2>2, <2>3, <2>4 DEF ClientGoes
  <2>6. QED
    BY <2>5, ClientSteps
<1>6. QED
  BY <1>4, <1>5

LEMMA HubContextDone ==
  ASSUME Hub!TypeOK, Hub!HubInv, NEW c \in HubReaders, Hub!ContextDone(c) \/ Hub!ChannelEnds(c)
  PROVE  Hub!TypeOK' /\ Hub!HubInv'
<1>1. PICK h, w, o, q, l, v, z, s :
        /\ h = heard[c] /\ w = wire[c] /\ o = writing[c] /\ q = channel[c]
        /\ l = link[c] /\ v = serving[c] /\ z = sealed[c] /\ s = sentTo[c]
  OBVIOUS
<1>2. ClientNow(c, h, w, o, q, l, v, z) /\ Client(h, w, o, q, s, l, v, c \in clients, z)
  BY <1>1, ClientIs
<1>3. v = "loop" /\ clients' = clients /\ panicked' = panicked
  BY <1>1 DEF Hub!ContextDone, Hub!ChannelEnds, Hub!Goes, Hub!hubVars
<1>4. Becomes(c, h, w, o, q, l, "leaving", z)
  BY <1>2 DEF Becomes, ClientNow, Hub!ContextDone, Hub!ChannelEnds, Hub!Goes, Hub!hubVars, Hub!linkVars
<1>5. Client(h, w, o, q, s, l, "leaving", c \in clients', z)
  BY <1>2, <1>3 DEF Client
<1>6. /\ h \in Seq(HubSends) /\ w \in Seq(HubSends) /\ o \in Seq(HubSends) /\ q \in Seq(HubSends)
      /\ l \in {"none", "open", "left", "cut", "ended"} /\ z \in BOOLEAN
      /\ Len(q) <= ChannelSize /\ Len(o) <= 1 /\ Len(w) <= Window
  BY <1>2 DEF ClientNow
<1>7. clients' \ {c} = clients \ {c} /\ (hubClosed => c \notin clients') /\ panicked' = FALSE /\ clients' \subseteq HubReaders
  BY <1>3, HubQuiet
<1>8. ClientGoes(c, h, w, o, q, l, "leaving", z)
  BY <1>1, <1>4, <1>5, <1>6, <1>7 DEF ClientGoes
<1>9. QED
  BY <1>8, ClientSteps

LEMMA HubTakes ==
  ASSUME Hub!TypeOK, Hub!HubInv, NEW c \in HubReaders, Hub!Take(c)
  PROVE  Hub!TypeOK' /\ Hub!HubInv'
<1>1. PICK h, w, o, q, l, v, z, s :
        /\ h = heard[c] /\ w = wire[c] /\ o = writing[c] /\ q = channel[c]
        /\ l = link[c] /\ v = serving[c] /\ z = sealed[c] /\ s = sentTo[c]
  OBVIOUS
<1>2. ClientNow(c, h, w, o, q, l, v, z) /\ Client(h, w, o, q, s, l, v, c \in clients, z)
  BY <1>1, ClientIs
<1>3. v = "loop" /\ clients' = clients /\ panicked' = panicked /\ q # <<>>
  BY <1>1 DEF Hub!Take, Hub!Goes
<1>4. PICK a, r : a = Head(q) /\ r = Tail(q)
  OBVIOUS
<1>5. Becomes(c, h, w, <<a>>, r, l, "writing", z)
  <2>1. channel' = [channel EXCEPT ![c] = r] /\ writing' = [writing EXCEPT ![c] = <<a>>]
    BY <1>1, <1>4 DEF Hub!Take
  <2>2. QED
    BY <1>2, <2>1 DEF Becomes, ClientNow, Hub!Take, Hub!Goes, Hub!linkVars
<1>6. /\ h \in Seq(HubSends) /\ w \in Seq(HubSends) /\ q \in Seq(HubSends) /\ o = <<>>
      /\ l \in {"none", "open", "left", "cut", "ended"} /\ z \in BOOLEAN
      /\ Len(q) <= ChannelSize /\ Len(w) <= Window
  BY <1>2, <1>3 DEF ClientNow, Client
<1>7. /\ a \in HubSends /\ r \in Seq(HubSends) /\ Len(r) = Len(q) - 1 /\ q = <<a>> \o r /\ <<a>> \in Seq(HubSends)
      /\ Len(<<a>>) <= 1
  BY <1>3, <1>4, <1>6, HeadIs
<1>8. h \o w \o <<>> \o q = h \o w \o <<a>> \o r
  <2>1. PICK p : p = h \o w
    OBVIOUS
  <2>2. p \in Seq(HubSends)
    BY <1>6, <2>1, ConcatProperties
  <2>3. p \o <<>> = p
    BY <2>2, ConcatEmptySeq
  <2>4. (p \o <<a>>) \o r = p \o q
    BY <1>3, <1>4, <1>6, <2>2, HeadMoves
  <2>5. QED
    BY <2>1, <2>3, <2>4
<1>9. Client(h, w, <<a>>, r, s, l, "writing", c \in clients', z)
  BY <1>2, <1>3, <1>6, <1>8 DEF Client
<1>10. Len(r) <= ChannelSize
  BY <1>6, <1>7, StreamsAssumption
<1>11. clients' \ {c} = clients \ {c} /\ (hubClosed => c \notin clients') /\ panicked' = FALSE /\ clients' \subseteq HubReaders
  BY <1>3, HubQuiet
<1>12. ClientGoes(c, h, w, <<a>>, r, l, "writing", z)
  BY <1>1, <1>5, <1>6, <1>7, <1>9, <1>10, <1>11 DEF ClientGoes
<1>13. QED
  BY <1>12, ClientSteps

LEMMA HubWrites ==
  ASSUME Hub!TypeOK, Hub!HubInv, NEW c \in HubReaders, Hub!Write(c)
  PROVE  Hub!TypeOK' /\ Hub!HubInv'
<1>1. PICK h, w, o, q, l, v, z, s :
        /\ h = heard[c] /\ w = wire[c] /\ o = writing[c] /\ q = channel[c]
        /\ l = link[c] /\ v = serving[c] /\ z = sealed[c] /\ s = sentTo[c]
  OBVIOUS
<1>2. ClientNow(c, h, w, o, q, l, v, z) /\ s \in Seq(HubSends) /\ Client(h, w, o, q, s, l, v, c \in clients, z)
  BY <1>1, ClientIs
<1>3. /\ h \in Seq(HubSends) /\ w \in Seq(HubSends) /\ o \in Seq(HubSends) /\ q \in Seq(HubSends)
      /\ l \in {"none", "open", "left", "cut", "ended"} /\ z \in BOOLEAN
      /\ v \in {"none", "arriving", "loop", "writing", "leaving", "ended"}
      /\ Len(q) <= ChannelSize /\ Len(o) <= 1 /\ Len(w) <= Window
  BY <1>2 DEF ClientNow
<1>4. v = "writing" /\ clients' = clients /\ panicked' = panicked
  BY <1>1 DEF Hub!Write, Hub!Goes, Hub!hubVars
<1>5. clients' \ {c} = clients \ {c} /\ (hubClosed => c \notin clients') /\ panicked' = FALSE /\ clients' \subseteq HubReaders
  BY <1>4, HubQuiet
<1>6. CASE l = "open"
  <2>1. PICK u : u = w \o o
    OBVIOUS
  <2>2. Becomes(c, h, u, <<>>, q, l, "loop", z) /\ Len(w) < Window
    <3>1. wire' = [wire EXCEPT ![c] = u] /\ writing' = [writing EXCEPT ![c] = <<>>] /\ Len(w) < Window
      BY <1>1, <1>6, <2>1 DEF Hub!Write
    <3>2. serving' = [serving EXCEPT ![c] = "loop"]
      BY <1>1, <1>6 DEF Hub!Write, Hub!Goes
    <3>3. QED
      BY <1>2, <3>1, <3>2 DEF Becomes, ClientNow, Hub!Write, Hub!hubVars
  <2>3. u \in Seq(HubSends) /\ Len(u) = Len(w) + Len(o)
    BY <1>3, <2>1, ConcatProperties
  <2>4. Len(u) <= Window
    BY <1>3, <2>2, <2>3, StreamsAssumption
  <2>5. PICK p : p = h \o u
    OBVIOUS
  <2>6. p \in Seq(HubSends) /\ p = h \o w \o o /\ p \o <<>> = p
    <3>1. p \in Seq(HubSends)
      BY <1>3, <2>3, <2>5, ConcatProperties
    <3>2. p = (h \o w) \o o
      BY <1>3, <2>1, <2>5, ConcatAssociative
    <3>3. QED
      BY <3>1, <3>2, ConcatEmptySeq
  <2>7. p \o q = s
    BY <1>2, <1>6, <2>6 DEF Client
  <2>8. IsStart(p, s)
    BY <1>3, <2>6, <2>7, StartOfWhole
  <2>9. h \o u \o <<>> \o q = s
    BY <2>5, <2>6, <2>7
  <2>10. Client(h, u, <<>>, q, s, l, "loop", c \in clients', z)
    BY <1>2, <1>4, <2>5, <2>8, <2>9 DEF Client
  <2>11. /\ <<>> \in Seq(HubSends) /\ Len(<<>>) <= 1
         /\ "loop" \in {"none", "arriving", "loop", "writing", "leaving", "ended"}
    OBVIOUS
  <2>12. ClientGoes(c, h, u, <<>>, q, l, "loop", z)
    BY <1>1, <1>3, <1>5, <2>2, <2>3, <2>4, <2>10, <2>11, Zenon DEF ClientGoes
  <2>13. QED
    BY <2>12, ClientSteps
<1>7. CASE l # "open"
  <2>1. PICK n \in {"loop", "leaving"} : serving' = [serving EXCEPT ![c] = n]
    BY <1>1, <1>7 DEF Hub!Write, Hub!Goes
  <2>2. Becomes(c, h, w, <<>>, q, l, n, z)
    <3>1. wire' = wire /\ writing' = [writing EXCEPT ![c] = <<>>]
      BY <1>1, <1>7 DEF Hub!Write
    <3>2. QED
      BY <1>2, <2>1, <3>1 DEF Becomes, ClientNow, Hub!Write, Hub!hubVars
  <2>3. Client(h, w, <<>>, q, s, l, n, c \in clients', z)
    BY <1>2, <1>4, <1>7, <2>1 DEF Client
  <2>4. ClientGoes(c, h, w, <<>>, q, l, n, z)
    BY <1>1, <1>3, <1>5, <2>1, <2>2, <2>3 DEF ClientGoes
  <2>5. QED
    BY <2>4, ClientSteps
<1>8. QED
  BY <1>6, <1>7

LEMMA HubUnregisters ==
  ASSUME Hub!TypeOK, Hub!HubInv, NEW c \in HubReaders, Hub!unregister(c)
  PROVE  Hub!TypeOK' /\ Hub!HubInv'
<1>1. PICK h, w, o, q, l, v, z, s :
        /\ h = heard[c] /\ w = wire[c] /\ o = writing[c] /\ q = channel[c]
        /\ l = link[c] /\ v = serving[c] /\ z = sealed[c] /\ s = sentTo[c]
  OBVIOUS
<1>2. ClientNow(c, h, w, o, q, l, v, z) /\ s \in Seq(HubSends) /\ Client(h, w, o, q, s, l, v, c \in clients, z)
  BY <1>1, ClientIs
<1>3. /\ h \in Seq(HubSends) /\ w \in Seq(HubSends) /\ o \in Seq(HubSends) /\ q \in Seq(HubSends)
      /\ l \in {"none", "open", "left", "cut", "ended"} /\ z \in BOOLEAN
      /\ v \in {"none", "arriving", "loop", "writing", "leaving", "ended"}
      /\ Len(q) <= ChannelSize /\ Len(o) <= 1 /\ Len(w) <= Window
  BY <1>2 DEF ClientNow
<1>4. v = "leaving" /\ clients' = clients \ {c}
  BY <1>1 DEF Hub!unregister, Hub!Goes
<1>5. panicked' = FALSE
  <2>1. c \in clients => ~sealed[c]
    BY <1>1, <1>2 DEF Client
  <2>2. panicked = FALSE
    BY HubQuiet
  <2>3. QED
    BY <2>1, <2>2 DEF Hub!unregister
<1>6. clients' \ {c} = clients \ {c} /\ (hubClosed => c \notin clients') /\ clients' \subseteq HubReaders
  BY <1>4, HubQuiet
<1>7. PICK m, k : m = (IF l = "open" THEN "ended" ELSE l) /\ k = (z \/ c \in clients)
  OBVIOUS
<1>8. Becomes(c, h, w, o, q, m, "ended", k)
  <2>1. link' = [link EXCEPT ![c] = m]
    BY <1>1, <1>7 DEF Hub!unregister
  <2>2. sealed' = [sealed EXCEPT ![c] = k]
    BY <1>1, <1>7 DEF Hub!unregister
  <2>3. QED
    BY <1>2, <2>1, <2>2 DEF Becomes, ClientNow, Hub!unregister, Hub!Goes
<1>9. m \in {"none", "open", "left", "cut", "ended"} /\ m # "open" /\ k \in BOOLEAN
  BY <1>3, <1>7
<1>10. Client(h, w, o, q, s, m, "ended", c \in clients', k)
  BY <1>2, <1>4, <1>9 DEF Client
<1>11. ClientGoes(c, h, w, o, q, m, "ended", k)
  BY <1>1, <1>3, <1>5, <1>6, <1>8, <1>9, <1>10 DEF ClientGoes
<1>12. QED
  BY <1>11, ClientSteps

LEMMA HubReceives ==
  ASSUME Hub!TypeOK, Hub!HubInv, NEW c \in HubReaders, Hub!Recv(c)
  PROVE  Hub!TypeOK' /\ Hub!HubInv'
<1>1. PICK h, w, o, q, l, v, z, s :
        /\ h = heard[c] /\ w = wire[c] /\ o = writing[c] /\ q = channel[c]
        /\ l = link[c] /\ v = serving[c] /\ z = sealed[c] /\ s = sentTo[c]
  OBVIOUS
<1>2. ClientNow(c, h, w, o, q, l, v, z) /\ s \in Seq(HubSends) /\ Client(h, w, o, q, s, l, v, c \in clients, z)
  BY <1>1, ClientIs
<1>3. /\ h \in Seq(HubSends) /\ w \in Seq(HubSends) /\ o \in Seq(HubSends) /\ q \in Seq(HubSends)
      /\ l \in {"none", "open", "left", "cut", "ended"} /\ z \in BOOLEAN
      /\ v \in {"none", "arriving", "loop", "writing", "leaving", "ended"}
      /\ Len(q) <= ChannelSize /\ Len(o) <= 1 /\ Len(w) <= Window
  BY <1>2 DEF ClientNow
<1>4. clients' = clients /\ panicked' = panicked /\ w # <<>>
  BY <1>1 DEF Hub!Recv, Hub!hubVars
<1>5. clients' \ {c} = clients \ {c} /\ (hubClosed => c \notin clients') /\ panicked' = FALSE /\ clients' \subseteq HubReaders
  BY <1>4, HubQuiet
<1>6. PICK g, r : g = Append(h, Head(w)) /\ r = Tail(w)
  OBVIOUS
<1>7. g \in Seq(HubSends) /\ r \in Seq(HubSends) /\ Len(r) = Len(w) - 1
  BY <1>3, <1>4, <1>6, HeadIs, AppendIs
<1>8. g \o r = h \o w
  BY <1>3, <1>4, <1>6, HeadMoves
<1>9. Becomes(c, g, r, o, q, l, v, z)
  <2>1. heard' = [heard EXCEPT ![c] = g] /\ wire' = [wire EXCEPT ![c] = r]
    BY <1>1, <1>6 DEF Hub!Recv
  <2>2. QED
    BY <1>2, <2>1 DEF Becomes, ClientNow, Hub!Recv, Hub!hubVars
<1>10. Len(r) <= Window
  BY <1>3, <1>7, StreamsAssumption
<1>11. Client(g, r, o, q, s, l, v, c \in clients', z)
  BY <1>2, <1>4, <1>8 DEF Client
<1>12. ClientGoes(c, g, r, o, q, l, v, z)
  BY <1>1, <1>3, <1>5, <1>7, <1>9, <1>10, <1>11 DEF ClientGoes
<1>13. QED
  BY <1>12, ClientSteps

LEMMA HubLeft ==
  ASSUME Hub!TypeOK, Hub!HubInv, NEW c \in HubReaders, Hub!Leave(c)
  PROVE  Hub!TypeOK' /\ Hub!HubInv'
<1>1. PICK h, w, o, q, l, v, z, s :
        /\ h = heard[c] /\ w = wire[c] /\ o = writing[c] /\ q = channel[c]
        /\ l = link[c] /\ v = serving[c] /\ z = sealed[c] /\ s = sentTo[c]
  OBVIOUS
<1>2. ClientNow(c, h, w, o, q, l, v, z) /\ s \in Seq(HubSends) /\ Client(h, w, o, q, s, l, v, c \in clients, z)
  BY <1>1, ClientIs
<1>3. /\ h \in Seq(HubSends) /\ w \in Seq(HubSends) /\ o \in Seq(HubSends) /\ q \in Seq(HubSends)
      /\ l \in {"none", "open", "left", "cut", "ended"} /\ z \in BOOLEAN
      /\ v \in {"none", "arriving", "loop", "writing", "leaving", "ended"}
      /\ Len(q) <= ChannelSize /\ Len(o) <= 1 /\ Len(w) <= Window
  BY <1>2 DEF ClientNow
<1>4. clients' = clients /\ panicked' = panicked
  BY DEF Hub!Leave, Hub!hubVars
<1>5. clients' \ {c} = clients \ {c} /\ (hubClosed => c \notin clients') /\ panicked' = FALSE /\ clients' \subseteq HubReaders
  BY <1>4, HubQuiet
<1>6. Becomes(c, h, w, o, q, "left", v, z)
  BY <1>2 DEF Becomes, ClientNow, Hub!Leave, Hub!hubVars
<1>7. Client(h, w, o, q, s, "left", v, c \in clients', z)
  BY <1>2, <1>4 DEF Client
<1>8. ClientGoes(c, h, w, o, q, "left", v, z)
  BY <1>1, <1>3, <1>5, <1>6, <1>7 DEF ClientGoes
<1>9. QED
  BY <1>8, ClientSteps

-----------------------------------------------------------------------------
(* The hub: what happens to all clients at once.                           *)

LEMMA ClientParts ==
  ASSUME NEW d, NEW h, NEW w, NEW o, NEW q, NEW s, NEW l, NEW v, NEW z,
         Client(h, w, o, q, s, l, v, d \in clients', z),
         heard'[d] = h, wire'[d] = w, writing'[d] = o, channel'[d] = q, sentTo'[d] = s, link'[d] = l,
         serving'[d] = v, sealed'[d] = z
  PROVE  ClientOf(d)'
BY DEF ClientOf, Client, IsStart

LEMMA HubShuts ==
  ASSUME Hub!TypeOK, Hub!HubInv, NEW x \in HubCloses, Hub!closeAll(x)
  PROVE  Hub!TypeOK' /\ Hub!HubInv'
<1>1. /\ UNCHANGED <<channel, serving, writing, wire, link, heard, sending, sentTo>>
      /\ hubClosed' = TRUE /\ shutting' = [shutting EXCEPT ![x] = "closing"]
      /\ sealed' = [d \in HubReaders |-> sealed[d] \/ (~hubClosed /\ d \in clients)]
      /\ clients' = {}
  BY HubQuiet DEF Hub!closeAll, Hub!linkVars
<1>2. panicked' = FALSE
  <2>1. \A d \in clients : ~sealed[d]
    BY DEF Hub!HubInv, Hub!ClosedOnce
  <2>2. QED
    BY <2>1, HubQuiet DEF Hub!closeAll
<1>3. Hub!TypeOK'
  <2>1. sealed' \in [HubReaders -> BOOLEAN]
    BY <1>1, HubTyped
  <2>2. shutting' \in [HubCloses -> {"idle", "closing", "done"}]
    BY <1>1 DEF Hub!TypeOK
  <2>3. /\ \A f \in {channel', writing', wire', heard', sentTo'} : f \in [HubReaders -> Seq(HubSends)]
        /\ \A d \in HubReaders : Len(channel'[d]) <= ChannelSize /\ Len(writing'[d]) <= 1 /\ Len(wire'[d]) <= Window
        /\ serving' \in [HubReaders -> {"none", "arriving", "loop", "writing", "leaving", "ended"}]
        /\ link' \in [HubReaders -> {"none", "open", "left", "cut", "ended"}]
        /\ sending' \in [HubSends -> {Hub!NotSent} \cup 0 .. Hub!Cardinality(HubReaders)]
    BY <1>1 DEF Hub!TypeOK
  <2>4. hubClosed' \in BOOLEAN /\ panicked' \in BOOLEAN /\ clients' \subseteq HubReaders
    BY <1>1, <1>2
  <2>5. QED
    BY <2>1, <2>2, <2>3, <2>4 DEF Hub!TypeOK
<1>4. ASSUME NEW d \in HubReaders PROVE ClientOf(d)'
  <2>1. PICK h, w, o, q, l, v, z, s :
          /\ h = heard[d] /\ w = wire[d] /\ o = writing[d] /\ q = channel[d]
          /\ l = link[d] /\ v = serving[d] /\ z = sealed[d] /\ s = sentTo[d]
    OBVIOUS
  <2>2. Client(h, w, o, q, s, l, v, d \in clients, z)
    BY <2>1, ClientIs
  <2>3. PICK k : k = sealed'[d]
    OBVIOUS
  <2>4. k = (z \/ (~hubClosed /\ d \in clients)) /\ (hubClosed => d \notin clients)
    BY <1>1, <2>1, <2>3, HubQuiet
  <2>5. Client(h, w, o, q, s, l, v, d \in clients', k)
    BY <1>1, <2>2, <2>4 DEF Client
  <2>6. /\ heard'[d] = h /\ wire'[d] = w /\ writing'[d] = o /\ channel'[d] = q /\ sentTo'[d] = s /\ link'[d] = l
        /\ serving'[d] = v /\ sealed'[d] = k
    BY <1>1, <2>1, <2>3
  <2>7. QED
    BY <2>5, <2>6, ClientParts
<1>5. Hub!SentInv' /\ Hub!Counted'
  BY <1>1, SentSame DEF Hub!HubInv
<1>6. QED
  BY <1>1, <1>2, <1>3, <1>4, <1>5, HubClientsNext

LEMMA HubCuts ==
  ASSUME Hub!TypeOK, Hub!HubInv, NEW x \in HubCloses, Hub!ServerClose(x)
  PROVE  Hub!TypeOK' /\ Hub!HubInv'
<1>1. /\ UNCHANGED <<hubClosed, clients, channel, sealed, serving, writing, wire, heard, sending, sentTo, panicked>>
      /\ shutting' = [shutting EXCEPT ![x] = "done"]
      /\ link' = [d \in HubReaders |-> IF link[d] = "open" THEN "cut" ELSE link[d]]
  BY DEF Hub!ServerClose, Hub!hubVars
<1>2. Hub!TypeOK'
  <2>1. link' \in [HubReaders -> {"none", "open", "left", "cut", "ended"}]
    BY <1>1, HubTyped
  <2>2. shutting' \in [HubCloses -> {"idle", "closing", "done"}]
    BY <1>1 DEF Hub!TypeOK
  <2>3. /\ \A f \in {channel', writing', wire', heard', sentTo'} : f \in [HubReaders -> Seq(HubSends)]
        /\ \A d \in HubReaders : Len(channel'[d]) <= ChannelSize /\ Len(writing'[d]) <= 1 /\ Len(wire'[d]) <= Window
        /\ serving' \in [HubReaders -> {"none", "arriving", "loop", "writing", "leaving", "ended"}]
        /\ sending' \in [HubSends -> {Hub!NotSent} \cup 0 .. Hub!Cardinality(HubReaders)]
    BY <1>1 DEF Hub!TypeOK
  <2>4. hubClosed' \in BOOLEAN /\ panicked' \in BOOLEAN /\ clients' \subseteq HubReaders
        /\ sealed' \in [HubReaders -> BOOLEAN]
    BY <1>1 DEF Hub!TypeOK
  <2>5. QED
    BY <2>1, <2>2, <2>3, <2>4 DEF Hub!TypeOK
<1>3. ASSUME NEW d \in HubReaders PROVE ClientOf(d)'
  <2>1. PICK h, w, o, q, l, v, z, s :
          /\ h = heard[d] /\ w = wire[d] /\ o = writing[d] /\ q = channel[d]
          /\ l = link[d] /\ v = serving[d] /\ z = sealed[d] /\ s = sentTo[d]
    OBVIOUS
  <2>2. Client(h, w, o, q, s, l, v, d \in clients, z)
    BY <2>1, ClientIs
  <2>3. PICK m : m = link'[d]
    OBVIOUS
  <2>4. m # "open" /\ clients' = clients
    BY <1>1, <2>1, <2>3
  <2>5. Client(h, w, o, q, s, m, v, d \in clients', z)
    BY <2>2, <2>4 DEF Client
  <2>6. /\ heard'[d] = h /\ wire'[d] = w /\ writing'[d] = o /\ channel'[d] = q /\ sentTo'[d] = s /\ link'[d] = m
        /\ serving'[d] = v /\ sealed'[d] = z
    BY <1>1, <2>1, <2>3
  <2>7. QED
    BY <2>5, <2>6, ClientParts
<1>4. Hub!SentInv' /\ Hub!Counted'
  BY <1>1, SentSame DEF Hub!HubInv
<1>5. ~panicked' /\ (hubClosed' => clients' = {})
  BY <1>1, HubQuiet
<1>6. QED
  BY <1>2, <1>3, <1>4, <1>5, HubClientsNext

(* A list of calls that has got one more.                                  *)
LEMMA RangeLonger ==
  ASSUME NEW T, NEW s \in Seq(T), NEW x \in T, NEW t, t = Append(s, x)
  PROVE  /\ Hub!Range(t) = Hub!Range(s) \cup {x}
         /\ Hub!IsInjective(s) /\ x \notin Hub!Range(s) => Hub!IsInjective(t)
<1>1. Len(s) \in Nat /\ DOMAIN s = 1 .. Len(s)
  OBVIOUS
<1>2. /\ t \in Seq(T) /\ Len(t) = Len(s) + 1 /\ t[Len(s) + 1] = x
      /\ \A i \in 1 .. Len(s) : t[i] = s[i]
  BY AppendProperties
<1>3. DOMAIN t = 1 .. Len(s) + 1
  BY <1>1, <1>2
<1>4. \A i \in 1 .. Len(s) + 1 : i \in 1 .. Len(s) \/ i = Len(s) + 1
  BY <1>1
<1>5. 1 .. Len(s) \subseteq 1 .. Len(s) + 1 /\ Len(s) + 1 \in 1 .. Len(s) + 1
  BY <1>1
<1>6. Hub!Range(t) = Hub!Range(s) \cup {x}
  BY <1>1, <1>2, <1>3, <1>4, <1>5 DEF Hub!Range
<1>7. ASSUME Hub!IsInjective(s), x \notin Hub!Range(s) PROVE Hub!IsInjective(t)
  BY <1>1, <1>2, <1>3, <1>4, <1>7 DEF Hub!IsInjective, Hub!Range
<1>8. QED
  BY <1>6, <1>7

(* The clients that get the event of a send.                               *)
HubTakers == IF hubClosed THEN {} ELSE Hub!Takers

LEMMA HubBroadcasts ==
  ASSUME Hub!TypeOK, Hub!HubInv, NEW x \in HubSends, Hub!broadcast(x)
  PROVE  Hub!TypeOK' /\ Hub!HubInv'
<1>1. PICK takers : takers = HubTakers
  OBVIOUS
<1>2. /\ UNCHANGED <<hubClosed, clients, sealed, serving, writing, wire, link, heard, shutting>>
      /\ sending[x] = Hub!NotSent /\ sending' = [sending EXCEPT ![x] = Hub!Cardinality(takers)]
      /\ channel' = [d \in HubReaders |-> IF d \in takers THEN Append(channel[d], x) ELSE channel[d]]
      /\ sentTo' = [d \in HubReaders |-> IF d \in takers THEN Append(sentTo[d], x) ELSE sentTo[d]]
  BY <1>1 DEF Hub!broadcast, HubTakers, Hub!linkVars
<1>3. panicked' = FALSE
  <2>1. \A d \in clients : ~sealed[d]
    BY DEF Hub!HubInv, Hub!ClosedOnce
  <2>2. QED
    BY <2>1, HubQuiet DEF Hub!broadcast
<1>4. /\ takers \subseteq clients /\ takers \subseteq HubReaders /\ \A d \in takers : Len(channel[d]) < ChannelSize
  BY <1>1, HubQuiet DEF HubTakers, Hub!Takers
<1>5. /\ Cardinality(takers) \in Nat /\ Cardinality(HubReaders) \in Nat
      /\ Cardinality(takers) <= Cardinality(HubReaders)
  BY <1>4, StreamsAssumption, FS_Subset, FS_CardinalityType
<1>6. ASSUME NEW d \in HubReaders
      PROVE  /\ channel'[d] \in Seq(HubSends) /\ sentTo'[d] \in Seq(HubSends)
             /\ Len(channel'[d]) <= ChannelSize /\ ClientOf(d)'
             /\ Hub!Range(sentTo'[d]) = Hub!Range(sentTo[d]) \cup (IF d \in takers THEN {x} ELSE {})
             /\ Hub!IsInjective(sentTo'[d]) /\ x \notin Hub!Range(sentTo[d])
  <2>1. PICK h, w, o, q, l, v, z, s :
          /\ h = heard[d] /\ w = wire[d] /\ o = writing[d] /\ q = channel[d]
          /\ l = link[d] /\ v = serving[d] /\ z = sealed[d] /\ s = sentTo[d]
    OBVIOUS
  <2>2. ClientNow(d, h, w, o, q, l, v, z) /\ s \in Seq(HubSends) /\ Client(h, w, o, q, s, l, v, d \in clients, z)
    BY <2>1, ClientIs
  <2>3. /\ h \in Seq(HubSends) /\ w \in Seq(HubSends) /\ o \in Seq(HubSends) /\ q \in Seq(HubSends)
        /\ Len(q) <= ChannelSize
    BY <2>2 DEF ClientNow
  <2>4. Hub!IsInjective(s) /\ x \notin Hub!Range(s)
    BY <1>2, <2>1 DEF Hub!HubInv, Hub!SentInv
  <2>5. CASE d \notin takers
    <3>1. channel'[d] = q /\ sentTo'[d] = s
      BY <1>2, <2>1, <2>5
    <3>2. /\ heard'[d] = h /\ wire'[d] = w /\ writing'[d] = o /\ link'[d] = l
          /\ serving'[d] = v /\ sealed'[d] = z /\ clients' = clients
      BY <1>2, <2>1
    <3>3. Client(h, w, o, q, s, l, v, d \in clients', z)
      BY <2>2, <3>2
    <3>4. ClientOf(d)'
      BY <3>1, <3>2, <3>3, ClientParts
    <3>5. QED
      BY <2>1, <2>2, <2>3, <2>4, <2>5, <3>1, <3>4
  <2>6. CASE d \in takers
    <3>1. PICK r, t : r = Append(q, x) /\ t = Append(s, x)
      OBVIOUS
    <3>2. channel'[d] = r /\ sentTo'[d] = t
      BY <1>2, <2>1, <2>6, <3>1
    <3>3. /\ heard'[d] = h /\ wire'[d] = w /\ writing'[d] = o /\ link'[d] = l
          /\ serving'[d] = v /\ sealed'[d] = z /\ clients' = clients /\ d \in clients
      BY <1>2, <1>4, <2>1, <2>6
    <3>4. /\ r \in Seq(HubSends) /\ Len(r) = Len(q) + 1 /\ t \in Seq(HubSends)
      BY <2>2, <2>3, <3>1, AppendProperties
    <3>5. Len(r) <= ChannelSize
      <4>1. Len(q) < ChannelSize /\ Len(q) \in Nat
        BY <1>4, <2>1, <2>3, <2>6
      <4>2. QED
        BY <3>4, <4>1, StreamsAssumption
    <3>6. PICK p : p = h \o w
      OBVIOUS
    <3>7. p \in Seq(HubSends) /\ IsStart(p, s)
      BY <2>2, <2>3, <3>6, ConcatProperties DEF Client
    <3>8. IsStart(p, t)
      BY <2>2, <3>1, <3>7, StartOfLonger
    <3>9. PICK y : y = p \o o
      OBVIOUS
    <3>10. y \in Seq(HubSends)
      BY <2>3, <3>7, <3>9, ConcatProperties
    <3>11. y \o r = Append(y \o q, x)
      BY <2>3, <3>1, <3>10, AppendLast
    <3>12. l = "open" => y \o q = s
      BY <2>2, <3>6, <3>9 DEF Client
    <3>13. l = "open" => h \o w \o o \o r = t
      BY <3>1, <3>6, <3>9, <3>11, <3>12
    <3>14. v \in {"loop", "writing", "leaving"} /\ ~z
      BY <2>2, <3>3 DEF Client
    <3>15. v \notin {"none", "arriving"}
      BY <3>14
    <3>16. Client(h, w, o, r, t, l, v, d \in clients', z)
      BY <2>2, <3>3, <3>6, <3>8, <3>13, <3>14, <3>15 DEF Client
    <3>17. ClientOf(d)'
      BY <3>2, <3>3, <3>16, ClientParts
    <3>18. Hub!Range(t) = Hub!Range(s) \cup {x} /\ Hub!IsInjective(t)
      BY <2>2, <2>4, <3>1, RangeLonger
    <3>19. QED
      BY <2>1, <2>4, <2>6, <3>2, <3>4, <3>5, <3>17, <3>18
  <2>7. QED
    BY <2>5, <2>6
<1>7. Hub!TypeOK'
  <2>1. channel' \in [HubReaders -> Seq(HubSends)] /\ sentTo' \in [HubReaders -> Seq(HubSends)]
    <3>1. DOMAIN channel' = HubReaders /\ channel' = [d \in HubReaders |-> channel'[d]]
      BY <1>2
    <3>2. DOMAIN sentTo' = HubReaders /\ sentTo' = [d \in HubReaders |-> sentTo'[d]]
      BY <1>2
    <3>3. QED
      BY <1>6, <3>1, <3>2
  <2>2. \A f \in {channel', writing', wire', heard', sentTo'} : f \in [HubReaders -> Seq(HubSends)]
    BY <1>2, <2>1, HubTyped
  <2>3. \A d \in HubReaders : Len(channel'[d]) <= ChannelSize /\ Len(writing'[d]) <= 1 /\ Len(wire'[d]) <= Window
    BY <1>2, <1>6 DEF Hub!TypeOK
  <2>4. sending' \in [HubSends -> {Hub!NotSent} \cup 0 .. Hub!Cardinality(HubReaders)]
    <3>1. Hub!Cardinality(takers) \in 0 .. Hub!Cardinality(HubReaders)
      BY <1>5, HubCardinality
    <3>2. QED
      BY <1>2, <3>1 DEF Hub!TypeOK
  <2>5. /\ hubClosed' \in BOOLEAN /\ panicked' \in BOOLEAN /\ clients' \subseteq HubReaders
        /\ sealed' \in [HubReaders -> BOOLEAN]
        /\ serving' \in [HubReaders -> {"none", "arriving", "loop", "writing", "leaving", "ended"}]
        /\ link' \in [HubReaders -> {"none", "open", "left", "cut", "ended"}]
        /\ shutting' \in [HubCloses -> {"idle", "closing", "done"}]
    BY <1>2, <1>3 DEF Hub!TypeOK
  <2>6. QED
    BY <2>2, <2>3, <2>4, <2>5 DEF Hub!TypeOK
<1>8. sending'[x] = Cardinality(takers) /\ \A t \in HubSends : t # x => sending'[t] = sending[t]
  BY <1>2, HubCardinality DEF Hub!TypeOK
<1>9. sending'[x] # Hub!NotSent
  BY <1>5, <1>8 DEF Hub!NotSent
<1>10. \A d \in HubReaders : Hub!Range(sentTo[d]) \subseteq HubSends
  <2> SUFFICES ASSUME NEW d \in HubReaders PROVE Hub!Range(sentTo[d]) \subseteq HubSends
    OBVIOUS
  <2>1. PICK s : s = sentTo[d]
    OBVIOUS
  <2>2. s \in Seq(HubSends)
    BY <2>1, HubTyped
  <2>3. Hub!Range(s) \subseteq HubSends
    BY <2>2 DEF Hub!Range
  <2>4. QED
    BY <2>1, <2>3
<1>11. Hub!SentInv'
  <2> SUFFICES ASSUME NEW d \in HubReaders
               PROVE  Hub!IsInjective(sentTo'[d]) /\ \A t \in Hub!Range(sentTo'[d]) : sending'[t] # Hub!NotSent
    BY DEF Hub!SentInv, Hub!NotSent
  <2>1. \A t \in Hub!Range(sentTo[d]) : sending[t] # Hub!NotSent
    BY DEF Hub!HubInv, Hub!SentInv
  <2>2. QED
    BY <1>6, <1>8, <1>9, <1>10, <2>1
<1>12. Hub!Counted'
  <2> SUFFICES ASSUME NEW t \in HubSends, sending'[t] # Hub!NotSent
               PROVE  sending'[t] = Hub!Cardinality({d \in HubReaders : t \in Hub!Range(sentTo'[d])})
    BY DEF Hub!Counted, Hub!NotSent
  <2>1. CASE t = x
    <3>1. {d \in HubReaders : t \in Hub!Range(sentTo'[d])} = takers
      BY <1>4, <1>6, <2>1
    <3>2. QED
      BY <1>8, <2>1, <3>1, HubCardinality
  <2>2. CASE t # x
    <3>1. {d \in HubReaders : t \in Hub!Range(sentTo'[d])} = {d \in HubReaders : t \in Hub!Range(sentTo[d])}
      BY <1>6, <2>2
    <3>2. sending[t] = Hub!Cardinality({d \in HubReaders : t \in Hub!Range(sentTo[d])})
      BY <1>8, <2>2 DEF Hub!HubInv, Hub!Counted
    <3>3. QED
      BY <1>8, <2>2, <3>1, <3>2
  <2>3. QED
    BY <2>1, <2>2
<1>13. ~panicked' /\ (hubClosed' => clients' = {})
  BY <1>2, <1>3, HubQuiet
<1>14. QED
  BY <1>6, <1>7, <1>11, <1>12, <1>13, HubClientsNext

(* A step of the hub, and of nothing else.                                 *)
LEMMA HubStep == Hub!TypeOK /\ Hub!HubInv /\ [Hub!Next]_Hub!vars => Hub!TypeOK' /\ Hub!HubInv'
<1> SUFFICES ASSUME Hub!TypeOK, Hub!HubInv, [Hub!Next]_Hub!vars PROVE Hub!TypeOK' /\ Hub!HubInv'
  OBVIOUS
<1>1. CASE Hub!Next
  BY <1>1, HubConnects, HubRegisters, HubContextDone, HubTakes, HubWrites, HubUnregisters, HubReceives, HubLeft,
     HubShuts, HubCuts, HubBroadcasts DEF Hub!Next, Hub!Run, Hub!HandleRequest
<1>2. CASE UNCHANGED Hub!vars
  <2>1. UNCHANGED <<hubClosed, clients, channel, sealed, serving, writing, wire, link, heard, sending, shutting, sentTo, panicked>>
    BY <1>2 DEF Hub!vars, Hub!hubVars, Hub!linkVars
  <2>2. Hub!TypeOK'
    BY <2>1 DEF Hub!TypeOK, Hub!NotSent
  <2>3. \A d \in HubReaders : ClientOf(d)'
    <3>1. \A d \in HubReaders : ClientOf(d)
      BY HubClients
    <3>2. QED
      BY <2>1, <3>1, ClientSame
  <2>4. Hub!SentInv' /\ Hub!Counted'
    BY <2>1, SentSame DEF Hub!HubInv
  <2>5. ~panicked' /\ (hubClosed' => clients' = {})
    BY <2>1, HubQuiet
  <2>6. QED
    BY <2>2, <2>3, <2>4, <2>5, HubClientsNext
<1>3. QED
  BY <1>1, <1>2

LEMMA HubOrdered == Hub!TypeOK /\ Hub!HubInv => Hub!InOrder /\ Hub!Counted /\ Hub!ClosedOnce
<1> SUFFICES ASSUME Hub!TypeOK, Hub!HubInv PROVE Hub!InOrder
  BY DEF Hub!HubInv
<1> SUFFICES ASSUME NEW c \in HubReaders PROVE Hub!IsPrefix(heard[c], sentTo[c])
  BY DEF Hub!InOrder, Hub!HubInv, Hub!SentInv, Hub!StreamInv
<1>1. PICK h, w, s : h = heard[c] /\ w = wire[c] /\ s = sentTo[c]
  OBVIOUS
<1>2. h \in Seq(HubSends) /\ w \in Seq(HubSends) /\ s \in Seq(HubSends)
  BY <1>1, HubTyped
<1>3. IsStart(h \o w, s)
  BY <1>1, HubClients DEF ClientOf, Client
<1>4. IsStart(h, s)
  BY <1>2, <1>3, StartOfShorter
<1>5. QED
  BY <1>1, <1>2, <1>4, HubPrefix

-----------------------------------------------------------------------------
(* A client of a server of WebSockets, websocket.go.                       *)

Said == SendCalls \cup {Welcome}
DueOf(g, e, m) == (IF g THEN <<Welcome>> ELSE <<>>) \o (IF e THEN m ELSE <<>>)

(* What a client of a server of WebSockets has been told, and what is      *)
(* under way, being echoed, to be read by the server, and sent, when the   *)
(* server's goroutine is at p and the connection is n.                     *)
Lists(a, c, o, s, m) ==
  /\ a \in Seq(Said) /\ c \in Seq(Said) /\ o \in Seq(Said) /\ s \in Seq(Said) /\ m \in Seq(Said)
  /\ Len(s) <= Capacity /\ Len(c) <= Capacity /\ Len(o) <= 1

Talk(e, g, a, c, o, s, m, p, n) ==
  /\ IsStart(a, DueOf(g, e, m))
  /\ p # "writing" => o = <<>>
  /\ p = "writing" => e
  /\ p = "greeting" => a = <<>> /\ c = <<>>
  /\ n = "open" => /\ p # "ended" /\ (p = "greeting" => s = m)
                   /\ p # "greeting" /\ e => a \o c \o o \o s = DueOf(g, e, m)
                   /\ p # "greeting" /\ ~e => a \o c = DueOf(g, e, m)

Conversation(e, g, a, c, o, s, m, p, n) ==
  /\ e \in BOOLEAN /\ g \in BOOLEAN /\ Lists(a, c, o, s, m)
  /\ p \in {"greeting", "reading", "writing", "ended"} /\ n \in {"open", "closed"}
  /\ Talk(e, g, a, c, o, s, m, p, n)

CallsTyped == ioMu \in Socket!Calls \cup {NoOne} /\ task \in [Socket!Calls -> {"idle", "locking", "busy", "done", "failed"}]
SocketState == Conversation(echo, greets, answers, toClient, echoing, toServer, messages, peer, connection)

LEMMA DueTyped ==
  ASSUME NEW g \in BOOLEAN, NEW e \in BOOLEAN, NEW m \in Seq(Said)
  PROVE  DueOf(g, e, m) \in Seq(Said)
<1>1. Welcome \in Said
  BY DEF Said
<1>2. <<Welcome>> \in Seq(Said) /\ <<>> \in Seq(Said)
  BY <1>1
<1>3. PICK u, v : u = (IF g THEN <<Welcome>> ELSE <<>>) /\ v = (IF e THEN m ELSE <<>>)
  OBVIOUS
<1>4. u \in Seq(Said) /\ v \in Seq(Said)
  BY <1>2, <1>3
<1>5. u \o v \in Seq(Said)
  BY <1>4, ConcatProperties
<1>6. QED
  BY <1>3, <1>5 DEF DueOf

LEMMA SocketPrefix ==
  ASSUME NEW p \in Seq(Said), NEW t \in Seq(Said)
  PROVE  Socket!IsPrefix(p, t) <=> IsStart(p, t)
BY StartIs DEF Socket!IsPrefix

LEMMA SocketIs == Socket!TypeOK /\ Socket!SocketInv <=> CallsTyped /\ SocketState
<1>1. Socket!TypeOK <=>
        /\ CallsTyped /\ echo \in BOOLEAN /\ greets \in BOOLEAN
        /\ Lists(answers, toClient, echoing, toServer, messages)
        /\ peer \in {"greeting", "reading", "writing", "ended"} /\ connection \in {"open", "closed"}
  BY DEF Socket!TypeOK, CallsTyped, Lists, Said
<1>2. ASSUME echo \in BOOLEAN, greets \in BOOLEAN, Lists(answers, toClient, echoing, toServer, messages)
      PROVE  Socket!SocketInv <=> Talk(echo, greets, answers, toClient, echoing, toServer, messages, peer, connection)
  <2>1. answers \in Seq(Said) /\ messages \in Seq(Said)
    BY <1>2 DEF Lists
  <2>2. Socket!Due = DueOf(greets, echo, messages)
    BY DEF Socket!Due, DueOf
  <2>3. PICK t : t = DueOf(greets, echo, messages)
    OBVIOUS
  <2>4. t \in Seq(Said)
    BY <1>2, <2>1, <2>3, DueTyped
  <2>5. Socket!IsPrefix(answers, t) <=> IsStart(answers, t)
    BY <2>1, <2>4, SocketPrefix
  <2>6. QED
    BY <2>2, <2>3, <2>5 DEF Socket!SocketInv, Talk
<1>3. QED
  BY <1>1, <1>2 DEF SocketState, Conversation

LEMMA SocketNext ==
  ASSUME CallsTyped',
         NEW e, NEW g, NEW a, NEW c, NEW o, NEW s, NEW m, NEW p, NEW n,
         Conversation(e, g, a, c, o, s, m, p, n),
         echo' = e, greets' = g, answers' = a, toClient' = c, echoing' = o, toServer' = s, messages' = m,
         peer' = p, connection' = n
  PROVE  Socket!TypeOK' /\ Socket!SocketInv'
<1>1. (CallsTyped /\ SocketState => Socket!TypeOK /\ Socket!SocketInv)'
  BY SocketIs, PTL
<1>2. SocketState'
  BY DEF SocketState, Conversation, Lists, Talk, DueOf, IsStart, Said
<1>3. QED
  BY <1>1, <1>2

LEMMA SocketStarts == Socket!Init => Socket!TypeOK /\ Socket!SocketInv
<1> SUFFICES ASSUME Socket!Init PROVE Socket!TypeOK /\ Socket!SocketInv
  OBVIOUS
<1>1. CallsTyped
  BY DEF Socket!Init, CallsTyped
<1>2. Lists(<<>>, <<>>, <<>>, <<>>, <<>>)
  <2>1. <<>> \in Seq(Said) /\ Len(<<>>) = 0
    OBVIOUS
  <2>2. QED
    BY <2>1, StreamsAssumption DEF Lists
<1>3. IsStart(<<>>, DueOf(greets, echo, <<>>))
  <2>1. PICK t : t = DueOf(greets, echo, <<>>)
    OBVIOUS
  <2>2. t \in Seq(Said)
    <3>1. <<>> \in Seq(Said)
      OBVIOUS
    <3>2. greets \in BOOLEAN /\ echo \in BOOLEAN
      BY DEF Socket!Init
    <3>3. QED
      BY <2>1, <3>1, <3>2, DueTyped
  <2>3. IsStart(<<>>, t)
    BY <2>2 DEF IsStart
  <2>4. QED
    BY <2>1, <2>3
<1>4. Conversation(echo, greets, <<>>, <<>>, <<>>, <<>>, <<>>, "greeting", "open")
  BY <1>2, <1>3 DEF Socket!Init, Conversation, Talk
<1>5. SocketState
  BY <1>4 DEF Socket!Init, SocketState
<1>6. QED
  BY <1>1, <1>5, SocketIs

LEMMA TaskMoves ==
  ASSUME CallsTyped, NEW k \in Socket!Calls, NEW u \in {"idle", "locking", "busy", "done", "failed"},
         task' = [task EXCEPT ![k] = u], ioMu' \in {ioMu, k, NoOne}
  PROVE  CallsTyped'
BY DEF CallsTyped

(* What a call waits for changes, and nothing of what is said.             *)
LEMMA SocketSilent ==
  ASSUME SocketState, CallsTyped',
         UNCHANGED <<echo, greets, answers, toClient, echoing, toServer, messages, peer, connection>>
  PROVE  Socket!TypeOK' /\ Socket!SocketInv'
<1>1. PICK e, g, a, c, o, s, m, p, n :
        /\ e = echo /\ g = greets /\ a = answers /\ c = toClient /\ o = echoing /\ s = toServer /\ m = messages
        /\ p = peer /\ n = connection
  OBVIOUS
<1>2. Conversation(e, g, a, c, o, s, m, p, n)
  BY <1>1 DEF SocketState
<1>3. /\ echo' = e /\ greets' = g /\ answers' = a /\ toClient' = c /\ echoing' = o /\ toServer' = s /\ messages' = m
      /\ peer' = p /\ connection' = n
  BY <1>1
<1>4. QED
  BY <1>2, <1>3, SocketNext

LEMMA SocketBegins ==
  ASSUME CallsTyped, SocketState, NEW k \in Socket!Calls, Socket!Begin(k) \/ Socket!Lock(k)
  PROVE  Socket!TypeOK' /\ Socket!SocketInv'
<1>1. CallsTyped'
  <2>1. ASSUME Socket!Begin(k) PROVE CallsTyped'
    BY <2>1, TaskMoves DEF Socket!Begin, Socket!Moves
  <2>2. ASSUME Socket!Lock(k) PROVE CallsTyped'
    BY <2>2, TaskMoves DEF Socket!Lock, Socket!Moves
  <2>3. QED
    BY <2>1, <2>2
<1>2. UNCHANGED <<echo, greets, answers, toClient, echoing, toServer, messages, peer, connection>>
  BY DEF Socket!Begin, Socket!Lock, Socket!serverVars
<1>3. QED
  BY <1>1, <1>2, SocketSilent

LEMMA DueLonger ==
  ASSUME NEW g \in BOOLEAN, NEW e \in BOOLEAN, NEW m \in Seq(Said), NEW k \in Said
  PROVE  DueOf(g, e, Append(m, k)) = IF e THEN Append(DueOf(g, e, m), k) ELSE DueOf(g, e, m)
<1>1. PICK u : u = IF g THEN <<Welcome>> ELSE <<>>
  OBVIOUS
<1>2. u \in Seq(Said)
  <2>1. Welcome \in Said
    BY DEF Said
  <2>2. <<Welcome>> \in Seq(Said) /\ <<>> \in Seq(Said)
    BY <2>1
  <2>3. QED
    BY <1>1, <2>2
<1>3. u \o Append(m, k) = Append(u \o m, k)
  BY <1>2, AppendLast
<1>4. QED
  BY <1>1, <1>3 DEF DueOf

LEMMA SocketSends ==
  ASSUME CallsTyped, SocketState, NEW k \in Socket!Calls, Socket!Send(k)
  PROVE  Socket!TypeOK' /\ Socket!SocketInv'
<1>1. PICK e, g, a, c, o, s, m, p, n :
        /\ e = echo /\ g = greets /\ a = answers /\ c = toClient /\ o = echoing /\ s = toServer /\ m = messages
        /\ p = peer /\ n = connection
  OBVIOUS
<1>2. Conversation(e, g, a, c, o, s, m, p, n)
  BY <1>1 DEF SocketState
<1>3. /\ echo' = e /\ greets' = g /\ answers' = a /\ toClient' = c /\ echoing' = o
      /\ peer' = p /\ connection' = n /\ k \in SendCalls
  BY <1>1 DEF Socket!Send, Socket!serverVars
<1>4. CASE n # "open"
  <2>1. toServer' = s /\ messages' = m /\ task' = [task EXCEPT ![k] = "failed"] /\ ioMu' = NoOne
    BY <1>1, <1>4 DEF Socket!Send, Socket!Moves
  <2>2. CallsTyped'
    BY <2>1, TaskMoves
  <2>3. QED
    BY <1>2, <1>3, <2>1, <2>2, SocketNext
<1>5. CASE n = "open"
  <2>1. PICK r, t : r = Append(s, k) /\ t = Append(m, k)
    OBVIOUS
  <2>2. /\ toServer' = r /\ messages' = t /\ task' = [task EXCEPT ![k] = "done"] /\ ioMu' = NoOne /\ Len(s) < Capacity
    BY <1>1, <1>5, <2>1 DEF Socket!Send, Socket!Moves
  <2>3. CallsTyped'
    BY <2>2, TaskMoves
  <2>4. /\ e \in BOOLEAN /\ g \in BOOLEAN /\ Lists(a, c, o, s, m) /\ Talk(e, g, a, c, o, s, m, p, n)
        /\ p \in {"greeting", "reading", "writing", "ended"} /\ n \in {"open", "closed"}
    BY <1>2 DEF Conversation
  <2>5. /\ a \in Seq(Said) /\ c \in Seq(Said) /\ o \in Seq(Said) /\ s \in Seq(Said) /\ m \in Seq(Said) /\ k \in Said
    BY <1>3, <2>4 DEF Lists, Said
  <2>6. Lists(a, c, o, r, t)
    <3>1. r \in Seq(Said) /\ t \in Seq(Said) /\ Len(r) = Len(s) + 1
      BY <2>1, <2>5, AppendProperties
    <3>2. Len(s) \in Nat
      BY <2>5
    <3>3. Len(r) <= Capacity
      BY <2>2, <3>1, <3>2, StreamsAssumption
    <3>4. QED
      BY <2>4, <3>1, <3>3 DEF Lists
  <2>7. PICK d, f : d = DueOf(g, e, m) /\ f = DueOf(g, e, t)
    OBVIOUS
  <2>8. d \in Seq(Said)
    BY <2>4, <2>5, <2>7, DueTyped
  <2>9. f = IF e THEN Append(d, k) ELSE d
    BY <2>1, <2>4, <2>5, <2>7, DueLonger
  <2>10. IsStart(a, f)
    <3>1. IsStart(a, d)
      BY <2>4, <2>7 DEF Talk
    <3>2. IsStart(a, Append(d, k))
      BY <2>5, <2>8, <3>1, StartOfLonger
    <3>3. QED
      BY <2>9, <3>1, <3>2
  <2>11. a \o c \o o \o r = Append(a \o c \o o \o s, k)
    <3>1. PICK x : x = a \o c \o o
      OBVIOUS
    <3>2. x \in Seq(Said)
      <4>1. PICK y : y = a \o c
        OBVIOUS
      <4>2. y \in Seq(Said)
        BY <2>5, <4>1, ConcatProperties
      <4>3. y \o o \in Seq(Said)
        BY <2>5, <4>2, ConcatProperties
      <4>4. QED
        BY <3>1, <4>1, <4>3
    <3>3. x \o r = Append(x \o s, k)
      BY <2>1, <2>5, <3>2, AppendLast
    <3>4. QED
      BY <3>1, <3>3
  <2>12. Talk(e, g, a, c, o, r, t, p, n)
    <3>1. p # "greeting" /\ e => a \o c \o o \o r = f
      BY <1>5, <2>4, <2>7, <2>9, <2>11 DEF Talk
    <3>2. p # "greeting" /\ ~e => a \o c = f
      BY <1>5, <2>4, <2>7, <2>9 DEF Talk
    <3>3. p # "ended" /\ (p = "greeting" => r = t)
      BY <1>5, <2>1, <2>4 DEF Talk
    <3>4. /\ p # "writing" => o = <<>>
          /\ p = "writing" => e
          /\ p = "greeting" => a = <<>> /\ c = <<>>
      BY <2>4 DEF Talk
    <3>5. QED
      BY <2>7, <2>10, <3>1, <3>2, <3>3, <3>4 DEF Talk
  <2>13. Conversation(e, g, a, c, o, r, t, p, n)
    BY <2>4, <2>6, <2>12 DEF Conversation
  <2>14. QED
    BY <1>3, <2>2, <2>3, <2>13, SocketNext
<1>6. QED
  BY <1>4, <1>5

LEMMA SocketReceives ==
  ASSUME CallsTyped, SocketState, NEW k \in Socket!Calls, Socket!Recv(k)
  PROVE  Socket!TypeOK' /\ Socket!SocketInv'
<1>1. PICK e, g, a, c, o, s, m, p, n :
        /\ e = echo /\ g = greets /\ a = answers /\ c = toClient /\ o = echoing /\ s = toServer /\ m = messages
        /\ p = peer /\ n = connection
  OBVIOUS
<1>2. Conversation(e, g, a, c, o, s, m, p, n)
  BY <1>1 DEF SocketState
<1>3. /\ echo' = e /\ greets' = g /\ echoing' = o /\ toServer' = s /\ messages' = m
      /\ peer' = p /\ connection' = n
  BY <1>1 DEF Socket!Recv, Socket!serverVars
<1>4. CASE ~(n = "open" /\ p # "ended")
  <2>1. toClient' = c /\ answers' = a /\ task' = [task EXCEPT ![k] = "failed"] /\ ioMu' = NoOne
    BY <1>1, <1>4 DEF Socket!Recv, Socket!Moves
  <2>2. CallsTyped'
    BY <2>1, TaskMoves
  <2>3. QED
    BY <1>2, <1>3, <2>1, <2>2, SocketNext
<1>5. CASE n = "open" /\ p # "ended"
  <2>1. PICK b, r : b = Append(a, Head(c)) /\ r = Tail(c)
    OBVIOUS
  <2>2. /\ answers' = b /\ toClient' = r /\ task' = [task EXCEPT ![k] = "done"] /\ ioMu' = NoOne /\ c # <<>>
    BY <1>1, <1>5, <2>1 DEF Socket!Recv, Socket!Moves
  <2>3. CallsTyped'
    BY <2>2, TaskMoves
  <2>4. /\ e \in BOOLEAN /\ g \in BOOLEAN /\ Lists(a, c, o, s, m) /\ Talk(e, g, a, c, o, s, m, p, n)
        /\ p \in {"greeting", "reading", "writing", "ended"} /\ n \in {"open", "closed"}
    BY <1>2 DEF Conversation
  <2>5. /\ a \in Seq(Said) /\ c \in Seq(Said) /\ o \in Seq(Said) /\ s \in Seq(Said) /\ m \in Seq(Said)
    BY <2>4 DEF Lists
  <2>6. b \in Seq(Said) /\ r \in Seq(Said) /\ Len(r) = Len(c) - 1
    BY <2>1, <2>2, <2>5, HeadIs, AppendIs
  <2>7. Lists(b, r, o, s, m)
    <3>1. Len(c) \in Nat /\ Len(c) <= Capacity
      BY <2>4, <2>5 DEF Lists
    <3>2. Len(r) <= Capacity
      BY <2>6, <3>1, StreamsAssumption
    <3>3. QED
      BY <2>4, <2>6, <3>2 DEF Lists
  <2>8. b \o r = a \o c
    BY <2>1, <2>2, <2>5, HeadMoves
  <2>9. p # "greeting"
    BY <2>2, <2>4 DEF Talk
  <2>10. PICK d : d = DueOf(g, e, m)
    OBVIOUS
  <2>11. d \in Seq(Said)
    BY <2>4, <2>5, <2>10, DueTyped
  <2>12. /\ e => b \o r \o o \o s = d
         /\ ~e => b \o r = d
    BY <1>5, <2>4, <2>8, <2>9, <2>10 DEF Talk
  <2>13. IsStart(b, d)
    <3>1. PICK x : x = b \o r
      OBVIOUS
    <3>2. x \in Seq(Said)
      BY <2>6, <3>1, ConcatProperties
    <3>3. CASE e
      <4>1. PICK y : y = x \o o
        OBVIOUS
      <4>2. y \in Seq(Said)
        BY <2>5, <3>2, <4>1, ConcatProperties
      <4>3. d = y \o s
        BY <2>12, <3>1, <3>3, <4>1
      <4>4. IsStart(y, d)
        BY <2>5, <4>2, <4>3, StartOfWhole
      <4>5. IsStart(x, d)
        BY <2>5, <2>11, <3>2, <4>1, <4>4, StartOfShorter
      <4>6. QED
        BY <2>6, <2>11, <3>1, <4>5, StartOfShorter
    <3>4. CASE ~e
      <4>1. d = b \o r
        BY <2>12, <3>4
      <4>2. QED
        BY <2>6, <4>1, StartOfWhole
    <3>5. QED
      BY <2>4, <3>3, <3>4
  <2>14. Talk(e, g, b, r, o, s, m, p, n)
    BY <1>5, <2>4, <2>9, <2>10, <2>12, <2>13 DEF Talk
  <2>15. Conversation(e, g, b, r, o, s, m, p, n)
    BY <2>4, <2>7, <2>14 DEF Conversation
  <2>16. QED
    BY <1>3, <2>2, <2>3, <2>15, SocketNext
<1>6. QED
  BY <1>4, <1>5

LEMMA SocketCloses ==
  ASSUME CallsTyped, SocketState, Socket!CloseConn
  PROVE  Socket!TypeOK' /\ Socket!SocketInv'
<1>1. PICK e, g, a, c, o, s, m, p, n :
        /\ e = echo /\ g = greets /\ a = answers /\ c = toClient /\ o = echoing /\ s = toServer /\ m = messages
        /\ p = peer /\ n = connection
  OBVIOUS
<1>2. Conversation(e, g, a, c, o, s, m, p, n)
  BY <1>1 DEF SocketState
<1>3. /\ e \in BOOLEAN /\ g \in BOOLEAN /\ Lists(a, c, o, s, m) /\ Talk(e, g, a, c, o, s, m, p, n)
      /\ p \in {"greeting", "reading", "writing", "ended"} /\ n \in {"open", "closed"}
  BY <1>2 DEF Conversation
<1>4. /\ a \in Seq(Said) /\ c \in Seq(Said) /\ o \in Seq(Said) /\ s \in Seq(Said) /\ m \in Seq(Said)
      /\ Len(s) <= Capacity /\ Len(c) <= Capacity /\ Len(o) <= 1
  BY <1>3 DEF Lists
<1>5. CallsTyped' /\ echo' = e /\ greets' = g /\ answers' = a /\ toClient' = c /\ echoing' = o /\ toServer' = s /\ messages' = m
      /\ peer' = p /\ connection' = "closed"
  BY <1>1 DEF CallsTyped, Socket!CloseConn, Socket!clientVars, Socket!serverVars
<1>6. Talk(e, g, a, c, o, s, m, p, "closed")
  BY <1>3 DEF Talk
<1>7. Conversation(e, g, a, c, o, s, m, p, "closed")
  BY <1>3, <1>6 DEF Conversation
<1>8. QED
  BY <1>5, <1>7, SocketNext

LEMMA SocketWelcomes ==
  ASSUME CallsTyped, SocketState, Socket!WriteWelcome
  PROVE  Socket!TypeOK' /\ Socket!SocketInv'
<1>1. PICK e, g, a, c, o, s, m, p, n :
        /\ e = echo /\ g = greets /\ a = answers /\ c = toClient /\ o = echoing /\ s = toServer /\ m = messages
        /\ p = peer /\ n = connection
  OBVIOUS
<1>2. Conversation(e, g, a, c, o, s, m, p, n)
  BY <1>1 DEF SocketState
<1>3. /\ e \in BOOLEAN /\ g \in BOOLEAN /\ Lists(a, c, o, s, m) /\ Talk(e, g, a, c, o, s, m, p, n)
      /\ p \in {"greeting", "reading", "writing", "ended"} /\ n \in {"open", "closed"}
  BY <1>2 DEF Conversation
<1>4. /\ a \in Seq(Said) /\ c \in Seq(Said) /\ o \in Seq(Said) /\ s \in Seq(Said) /\ m \in Seq(Said)
      /\ Len(s) <= Capacity /\ Len(c) <= Capacity /\ Len(o) <= 1
  BY <1>3 DEF Lists
<1>5. CallsTyped' /\ echo' = e /\ greets' = g /\ answers' = a /\ echoing' = o /\ toServer' = s /\ messages' = m
      /\ connection' = n /\ p = "greeting"
  BY <1>1 DEF CallsTyped, Socket!WriteWelcome, Socket!clientVars
<1>6. a = <<>> /\ c = <<>> /\ o = <<>> /\ (n = "open" => s = m)
  BY <1>3, <1>5 DEF Talk
<1>7. PICK d, u, y : d = DueOf(g, e, m) /\ u = (IF g THEN <<Welcome>> ELSE <<>>) /\ y = (IF e THEN m ELSE <<>>)
  OBVIOUS
<1>8. /\ d = u \o y /\ u \in Seq(Said) /\ y \in Seq(Said) /\ d \in Seq(Said)
      /\ <<>> \in Seq(Said) /\ Len(<<>>) = 0
  <2>1. <<>> \in Seq(Said) /\ Len(<<>>) = 0
    OBVIOUS
  <2>2. Welcome \in Said
    BY DEF Said
  <2>3. <<Welcome>> \in Seq(Said)
    BY <2>2
  <2>4. u \in Seq(Said) /\ y \in Seq(Said)
    BY <1>4, <1>7, <2>1, <2>3
  <2>5. d \in Seq(Said)
    BY <1>3, <1>4, <1>7, DueTyped
  <2>6. QED
    BY <1>7, <2>1, <2>4, <2>5 DEF DueOf
<1>9. IsStart(a, d)
  BY <1>3, <1>7 DEF Talk
<1>10. CASE g /\ n # "open"
  <2>1. peer' = "ended" /\ toClient' = c
    BY <1>1, <1>10 DEF Socket!WriteWelcome
  <2>2. Talk(e, g, a, c, o, s, m, "ended", n)
    BY <1>6, <1>7, <1>9, <1>10 DEF Talk
  <2>3. Conversation(e, g, a, c, o, s, m, "ended", n)
    BY <1>3, <2>2 DEF Conversation
  <2>4. QED
    BY <1>5, <2>1, <2>3, SocketNext
<1>11. CASE ~(g /\ n # "open")
  <2>1. peer' = "reading" /\ toClient' = u
    <3>1. CASE g
      <4>1. Append(<<>>, Welcome) = <<Welcome>>
        OBVIOUS
      <4>2. n = "open"
        BY <1>11, <3>1
      <4>3. peer' = "reading" /\ toClient' = Append(c, Welcome)
        BY <1>1, <3>1, <4>2 DEF Socket!WriteWelcome
      <4>4. QED
        BY <1>6, <1>7, <3>1, <4>1, <4>3
    <3>2. CASE ~g
      BY <1>1, <1>6, <1>7, <3>2 DEF Socket!WriteWelcome
    <3>3. QED
      BY <3>1, <3>2
  <2>2. Len(u) <= Capacity
    <3>1. Len(<<Welcome>>) = 1
      OBVIOUS
    <3>2. Len(u) \in {0, 1}
      BY <1>7, <1>8, <3>1
    <3>3. QED
      BY <3>2, StreamsAssumption
  <2>3. Lists(a, u, o, s, m)
    BY <1>4, <1>8, <2>2 DEF Lists
  <2>4. /\ n = "open" /\ e => a \o u \o o \o s = d
        /\ n = "open" /\ ~e => a \o u = d
    <3>1. <<>> \o u = u /\ u \o <<>> = u
      BY <1>8, ConcatEmptySeq
    <3>2. a \o u \o o \o s = u \o s /\ a \o u = u
      BY <1>6, <3>1
    <3>3. QED
      BY <1>6, <1>7, <1>8, <3>1, <3>2
  <2>5. Talk(e, g, a, u, o, s, m, "reading", n)
    BY <1>6, <1>7, <1>9, <2>4 DEF Talk
  <2>6. Conversation(e, g, a, u, o, s, m, "reading", n)
    BY <1>3, <2>3, <2>5 DEF Conversation
  <2>7. QED
    BY <1>5, <2>1, <2>6, SocketNext
<1>12. QED
  BY <1>10, <1>11

LEMMA SocketReads ==
  ASSUME CallsTyped, SocketState, Socket!ReadMessage
  PROVE  Socket!TypeOK' /\ Socket!SocketInv'
<1>1. PICK e, g, a, c, o, s, m, p, n :
        /\ e = echo /\ g = greets /\ a = answers /\ c = toClient /\ o = echoing /\ s = toServer /\ m = messages
        /\ p = peer /\ n = connection
  OBVIOUS
<1>2. Conversation(e, g, a, c, o, s, m, p, n)
  BY <1>1 DEF SocketState
<1>3. /\ e \in BOOLEAN /\ g \in BOOLEAN /\ Lists(a, c, o, s, m) /\ Talk(e, g, a, c, o, s, m, p, n)
      /\ p \in {"greeting", "reading", "writing", "ended"} /\ n \in {"open", "closed"}
  BY <1>2 DEF Conversation
<1>4. /\ a \in Seq(Said) /\ c \in Seq(Said) /\ o \in Seq(Said) /\ s \in Seq(Said) /\ m \in Seq(Said)
      /\ Len(s) <= Capacity /\ Len(c) <= Capacity /\ Len(o) <= 1
  BY <1>3 DEF Lists
<1>5. CallsTyped' /\ echo' = e /\ greets' = g /\ answers' = a /\ toClient' = c /\ messages' = m
      /\ connection' = n /\ p = "reading" /\ s # <<>>
  BY <1>1 DEF CallsTyped, Socket!ReadMessage, Socket!clientVars
<1>6. PICK h, r : h = Head(s) /\ r = Tail(s)
  OBVIOUS
<1>7. toServer' = r /\ o = <<>>
  BY <1>1, <1>3, <1>5, <1>6 DEF Socket!ReadMessage, Talk
<1>8. h \in Said /\ r \in Seq(Said) /\ Len(r) = Len(s) - 1 /\ <<h>> \in Seq(Said)
  BY <1>4, <1>5, <1>6, HeadIs
<1>9. Len(r) <= Capacity
  <2>1. Len(s) \in Nat
    BY <1>4
  <2>2. QED
    BY <1>4, <1>8, <2>1, StreamsAssumption
<1>10. CASE e
  <2>1. peer' = "writing" /\ echoing' = <<h>>
    BY <1>1, <1>6, <1>10 DEF Socket!ReadMessage
  <2>2. Lists(a, c, <<h>>, r, m)
    <3>1. Len(<<h>>) <= 1
      OBVIOUS
    <3>2. QED
      BY <1>4, <1>8, <1>9, <3>1 DEF Lists
  <2>3. PICK x : x = a \o c
    OBVIOUS
  <2>4. x \in Seq(Said)
    BY <1>4, <2>3, ConcatProperties
  <2>5. (x \o <<h>>) \o r = x \o s /\ x \o <<>> = x
    <3>1. (x \o <<Head(s)>>) \o Tail(s) = x \o s
      BY <1>4, <1>5, <2>4, HeadMoves
    <3>2. x \o <<>> = x
      BY <2>4, ConcatEmptySeq
    <3>3. QED
      BY <1>6, <3>1, <3>2
  <2>6. a \o c \o <<h>> \o r = a \o c \o o \o s
    BY <1>7, <2>3, <2>5
  <2>7. Talk(e, g, a, c, <<h>>, r, m, "writing", n)
    BY <1>3, <1>5, <1>10, <2>6 DEF Talk
  <2>8. Conversation(e, g, a, c, <<h>>, r, m, "writing", n)
    BY <1>3, <2>2, <2>7 DEF Conversation
  <2>9. QED
    BY <1>5, <1>7, <2>1, <2>8, SocketNext
<1>11. CASE ~e
  <2>1. peer' = p /\ echoing' = o
    BY <1>1, <1>11 DEF Socket!ReadMessage, Socket!serverVars
  <2>2. Lists(a, c, o, r, m)
    BY <1>4, <1>8, <1>9 DEF Lists
  <2>3. Talk(e, g, a, c, o, r, m, p, n)
    BY <1>3, <1>5, <1>11 DEF Talk
  <2>4. Conversation(e, g, a, c, o, r, m, p, n)
    BY <1>3, <2>2, <2>3 DEF Conversation
  <2>5. QED
    BY <1>5, <1>7, <2>1, <2>4, SocketNext
<1>12. QED
  BY <1>10, <1>11

LEMMA SocketWrites ==
  ASSUME CallsTyped, SocketState, Socket!WriteMessage
  PROVE  Socket!TypeOK' /\ Socket!SocketInv'
<1>1. PICK e, g, a, c, o, s, m, p, n :
        /\ e = echo /\ g = greets /\ a = answers /\ c = toClient /\ o = echoing /\ s = toServer /\ m = messages
        /\ p = peer /\ n = connection
  OBVIOUS
<1>2. Conversation(e, g, a, c, o, s, m, p, n)
  BY <1>1 DEF SocketState
<1>3. /\ e \in BOOLEAN /\ g \in BOOLEAN /\ Lists(a, c, o, s, m) /\ Talk(e, g, a, c, o, s, m, p, n)
      /\ p \in {"greeting", "reading", "writing", "ended"} /\ n \in {"open", "closed"}
  BY <1>2 DEF Conversation
<1>4. /\ a \in Seq(Said) /\ c \in Seq(Said) /\ o \in Seq(Said) /\ s \in Seq(Said) /\ m \in Seq(Said)
      /\ Len(s) <= Capacity /\ Len(c) <= Capacity /\ Len(o) <= 1
  BY <1>3 DEF Lists
<1>5. CallsTyped' /\ echo' = e /\ greets' = g /\ answers' = a /\ toClient' = c \o o /\ echoing' = <<>> /\ toServer' = s /\ messages' = m
      /\ peer' = "reading" /\ connection' = n /\ p = "writing" /\ n = "open" /\ Len(c) < Capacity
  BY <1>1 DEF CallsTyped, Socket!WriteMessage, Socket!clientVars
<1>6. PICK u : u = c \o o
  OBVIOUS
<1>7. u \in Seq(Said) /\ Len(u) = Len(c) + Len(o) /\ Len(c) \in Nat /\ Len(o) \in Nat
  BY <1>4, <1>6, ConcatProperties
<1>8. Len(u) <= Capacity
  BY <1>4, <1>5, <1>7, StreamsAssumption
<1>9. Lists(a, u, <<>>, s, m)
  <2>1. <<>> \in Seq(Said) /\ Len(<<>>) <= 1
    OBVIOUS
  <2>2. QED
    BY <1>4, <1>7, <1>8, <2>1 DEF Lists
<1>10. a \o u \o <<>> \o s = a \o c \o o \o s
  <2>1. a \o u = (a \o c) \o o
    <3>1. a \in Seq(Said) /\ c \in Seq(Said) /\ o \in Seq(Said)
      BY <1>4
    <3>2. a \o (c \o o) = (a \o c) \o o
      BY <3>1, ConcatAssociative
    <3>3. QED
      BY <1>6, <3>2
  <2>2. PICK x : x = a \o u
    OBVIOUS
  <2>3. x \in Seq(Said)
    BY <1>4, <1>7, <2>2, ConcatProperties
  <2>4. x \o <<>> = x
    BY <2>3, ConcatEmptySeq
  <2>5. QED
    BY <2>1, <2>2, <2>4
<1>11. Talk(e, g, a, u, <<>>, s, m, "reading", n)
  BY <1>3, <1>5, <1>10 DEF Talk
<1>12. Conversation(e, g, a, u, <<>>, s, m, "reading", n)
  BY <1>3, <1>9, <1>11 DEF Conversation
<1>13. QED
  BY <1>5, <1>6, <1>12, SocketNext

LEMMA SocketFails ==
  ASSUME CallsTyped, SocketState, Socket!ServerFails
  PROVE  Socket!TypeOK' /\ Socket!SocketInv'
<1>1. PICK e, g, a, c, o, s, m, p, n :
        /\ e = echo /\ g = greets /\ a = answers /\ c = toClient /\ o = echoing /\ s = toServer /\ m = messages
        /\ p = peer /\ n = connection
  OBVIOUS
<1>2. Conversation(e, g, a, c, o, s, m, p, n)
  BY <1>1 DEF SocketState
<1>3. /\ e \in BOOLEAN /\ g \in BOOLEAN /\ Lists(a, c, o, s, m) /\ Talk(e, g, a, c, o, s, m, p, n)
      /\ p \in {"greeting", "reading", "writing", "ended"} /\ n \in {"open", "closed"}
  BY <1>2 DEF Conversation
<1>4. /\ a \in Seq(Said) /\ c \in Seq(Said) /\ o \in Seq(Said) /\ s \in Seq(Said) /\ m \in Seq(Said)
      /\ Len(s) <= Capacity /\ Len(c) <= Capacity /\ Len(o) <= 1
  BY <1>3 DEF Lists
<1>5. CallsTyped' /\ echo' = e /\ greets' = g /\ answers' = a /\ toClient' = c /\ echoing' = <<>> /\ toServer' = s /\ messages' = m
      /\ peer' = "ended" /\ connection' = n /\ n = "closed"
  BY <1>1 DEF CallsTyped, Socket!ServerFails, Socket!clientVars
<1>6. Lists(a, c, <<>>, s, m)
  <2>1. <<>> \in Seq(Said) /\ Len(<<>>) <= 1
    OBVIOUS
  <2>2. QED
    BY <1>4, <2>1 DEF Lists
<1>7. Talk(e, g, a, c, <<>>, s, m, "ended", n)
  BY <1>3, <1>5 DEF Talk
<1>8. Conversation(e, g, a, c, <<>>, s, m, "ended", n)
  BY <1>3, <1>6, <1>7 DEF Conversation
<1>9. QED
  BY <1>5, <1>8, SocketNext

LEMMA SocketStep ==
  Socket!TypeOK /\ Socket!SocketInv /\ [Socket!Next]_Socket!vars => Socket!TypeOK' /\ Socket!SocketInv'
<1> SUFFICES ASSUME Socket!TypeOK, Socket!SocketInv, [Socket!Next]_Socket!vars
             PROVE  Socket!TypeOK' /\ Socket!SocketInv'
  OBVIOUS
<1>1. CallsTyped /\ SocketState
  BY SocketIs
<1>2. CASE Socket!Next
  BY <1>1, <1>2, SocketBegins, SocketSends, SocketReceives, SocketCloses, SocketWelcomes, SocketReads, SocketWrites,
     SocketFails DEF Socket!Next, Socket!Run, Socket!Serve
<1>3. CASE UNCHANGED Socket!vars
  <2>1. CallsTyped'
    BY <1>1, <1>3 DEF Socket!vars, CallsTyped
  <2>2. UNCHANGED <<echo, greets, answers, toClient, echoing, toServer, messages, peer, connection>>
    BY <1>3 DEF Socket!vars
  <2>3. QED
    BY <1>1, <2>1, <2>2, SocketSilent
<1>4. QED
  BY <1>2, <1>3

LEMMA SocketOrdered == Socket!SocketInv => Socket!EchoedInOrder
BY DEF Socket!SocketInv, Socket!EchoedInOrder

(* What a client of a server of events has read is the beginning of what   *)
(* was counted for it, a send counts those who get it, and a stream is     *)
(* closed once (builtin/sse.go:181-246); what a client of a server of      *)
(* WebSockets has read is the beginning of what is due to it               *)
(* (builtin/websocket.go): for any number of clients, calls and closes,    *)
(* and channels and connections of any size.                               *)
THEOREM StreamsInOrder == Hub!Spec /\ Socket!Spec => []Streamed
<1>1. Hub!Spec => [](Hub!InOrder /\ Hub!Counted /\ Hub!ClosedOnce)
  BY HubStarts, HubStep, HubOrdered, PTL DEF Hub!Spec
<1>2. Socket!Spec => []Socket!EchoedInOrder
  BY SocketStarts, SocketStep, SocketOrdered, PTL DEF Socket!Spec
<1>3. (Hub!InOrder /\ Hub!Counted /\ Hub!ClosedOnce) /\ Socket!EchoedInOrder => Streamed
  BY DEF Streamed
<1>4. QED
  BY <1>1, <1>2, <1>3, PTL
-----------------------------------------------------------------------------
(* The router: ExpressProofs has the proofs, for any setups.               *)

(* Served, of Router.ServeHTTP, Router.Match and Group (router.go): routes *)
(* keep their handlers, the middleware that was installed runs first and   *)
(* in order, the first route that fits gets the request with parameters    *)
(* that fill it, and the status is that of the first handler that speaks.  *)
THEOREM RequestsServed == Router!Spec => []Served
BY Router!RequestsServed, RouterAssumption DEF Served
-----------------------------------------------------------------------------
(* Topics and events: IaxTopicsProofs and SseFramingProofs have the        *)
(* proofs, for texts of any length.                                        *)

(* TextsRead, of iaxTopicMatch (iax.go) and of writeSSEEvent and           *)
(* readSSEEvents (sse.go): a pattern takes the topics it stands for, and   *)
(* one event is read where one was written, in its words.                  *)
THEOREM TextsAreRead == Match!Spec /\ Framing!Spec => []TextsRead
<1>1. Match!TopicMatched /\ Framing!Framed => TextsRead
  BY DEF TextsRead
<1>2. QED
  BY <1>1, Match!TopicsMatched, Framing!EventsFramed, PTL
-----------------------------------------------------------------------------
(* The run puts these parts and the pool manager side by side: a step of   *)
(* the suite is a step of one of them and leaves the variables of the      *)
(* others alone, so that the invariants of all hold in it.                 *)

ServicesInv ==
  /\ TypeOK /\ ManagerInv
  /\ Bus!TypeOK /\ Bus!BusInv
  /\ Store!TypeOK /\ Store!StoreInv
  /\ Match!TextsTyped /\ Framing!SentTyped
  /\ Router!RouterHolds
  /\ Hub!TypeOK /\ Hub!HubInv
  /\ Socket!TypeOK /\ Socket!SocketInv

LEMMA ServicesMove ==
  [SuiteNext]_suiteVars =>
    /\ [Next]_vars /\ [Bus!Next]_(Bus!vars) /\ [Store!Next]_(Store!vars)
    /\ [Router!Next]_(Router!vars) /\ [Hub!Next]_(Hub!vars) /\ [Socket!Next]_(Socket!vars)
    /\ UNCHANGED topicVars /\ UNCHANGED sent
<1>1. /\ UNCHANGED busVars => UNCHANGED Bus!vars
      /\ UNCHANGED storeVars => UNCHANGED Store!vars
      /\ UNCHANGED routerVars => UNCHANGED Router!vars
      /\ UNCHANGED hubVars => UNCHANGED Hub!vars
      /\ UNCHANGED socketVars => UNCHANGED Socket!vars
  BY DEF busVars, storeVars, routerVars, hubVars, socketVars, Bus!vars, Bus!connection, Bus!writing, Bus!reading,
         Store!vars, Store!config, Store!files, Store!users, Router!vars, Router!scriptVars, Router!requestVars,
         Hub!vars, Hub!hubVars, Hub!linkVars, Socket!vars
<1> SUFFICES ASSUME [SuiteNext]_suiteVars
             PROVE  /\ Next \/ UNCHANGED vars
                    /\ Bus!Next \/ UNCHANGED busVars
                    /\ Store!Next \/ UNCHANGED storeVars
                    /\ Router!Next \/ UNCHANGED routerVars
                    /\ Hub!Next \/ UNCHANGED hubVars
                    /\ Socket!Next \/ UNCHANGED socketVars
                    /\ UNCHANGED topicVars /\ UNCHANGED sent
  BY <1>1, Zenon
<1>2. CASE Steps(Next, Bus!Next, Store!Next)
  <2>1. UNCHANGED webVars
    BY <1>2, Zenon DEF Steps
  <2>2. UNCHANGED routerVars /\ UNCHANGED hubVars /\ UNCHANGED socketVars /\ UNCHANGED sent
    BY <2>1 DEF webVars
  <2>3. /\ Next \/ UNCHANGED vars
        /\ Bus!Next \/ UNCHANGED busVars
        /\ Store!Next \/ UNCHANGED storeVars
        /\ UNCHANGED topicVars
    BY <1>2, Zenon DEF Steps
  <2>4. QED
    BY <2>2, <2>3, Zenon
<1>3. CASE WebSteps(Router!Next, Listening!Next, Hub!Next, Socket!Next)
  <2>1. UNCHANGED vars /\ UNCHANGED busVars /\ UNCHANGED storeVars /\ UNCHANGED topicVars /\ UNCHANGED sent
    BY <1>3, Zenon DEF WebSteps
  <2>2. /\ Router!Next \/ UNCHANGED routerVars
        /\ Hub!Next \/ UNCHANGED hubVars
        /\ Socket!Next \/ UNCHANGED socketVars
    BY <1>3, Zenon DEF WebSteps
  <2>3. QED
    BY <2>1, <2>2, Zenon
<1>4. CASE UNCHANGED suiteVars
  BY <1>4 DEF suiteVars, webVars
<1>5. QED
  BY <1>2, <1>3, <1>4 DEF SuiteNext

LEMMA ServicesHold == SuiteSpec => []ServicesInv
<1>1. SuiteInit => ServicesInv
  <2> SUFFICES ASSUME SuiteInit PROVE ServicesInv
    OBVIOUS
  <2>1. Init /\ Bus!Init /\ Store!Init /\ Hub!Init /\ Socket!Init
    BY DEF SuiteInit
  <2>2. Router!Init
    BY DEF SuiteInit, Router!Init, RouterSetups
  <2>3. Router!RouterHolds
    BY <2>2, Router!RouterStarts, RouterAssumption
  <2>4. Match!TextsTyped
    <3>1. focus = "topic" => Match!Init
      BY DEF SuiteInit
    <3>2. focus # "topic" => pattern = <<>> /\ topic = <<>>
      BY DEF SuiteInit
    <3>3. <<>> \in Seq(Letters \cup {Star})
      BY EmptySeq
    <3>4. QED
      BY <3>1, <3>2, <3>3, Match!TopicsStart DEF Match!TextsTyped
  <2>5. Framing!SentTyped
    <3>1. focus = "framing" => Framing!Init
      BY DEF SuiteInit
    <3>2. focus # "framing" => sent = [event |-> <<>>, data |-> <<>>]
      BY DEF SuiteInit
    <3>3. <<>> \in Seq(Framing!Chars) /\ Len(<<>>) = 0
      BY EmptySeq
    <3>4. Framing!Unbroken(<<>>)
      BY <3>3 DEF Framing!Unbroken
    <3>5. CASE focus = "framing"
      BY <3>1, <3>5, Framing!SentStarts
    <3>6. CASE focus # "framing"
      <4>1. sent.event = <<>> /\ sent.data = <<>>
        BY <3>2, <3>6
      <4>2. QED
        BY <3>3, <3>4, <4>1, Zenon DEF Framing!SentTyped
    <3>7. QED
      BY <3>5, <3>6
  <2>6. QED
    BY <2>1, <2>3, <2>4, <2>5, ManagerStarts, BusStarts, StoreInit, HubStarts, SocketStarts DEF ServicesInv
<1>2. ServicesInv /\ [SuiteNext]_suiteVars => ServicesInv'
  <2> SUFFICES ASSUME ServicesInv, [SuiteNext]_suiteVars PROVE ServicesInv'
    OBVIOUS
  <2>1. /\ [Next]_vars /\ [Bus!Next]_(Bus!vars) /\ [Store!Next]_(Store!vars)
        /\ [Router!Next]_(Router!vars) /\ [Hub!Next]_(Hub!vars) /\ [Socket!Next]_(Socket!vars)
        /\ UNCHANGED topicVars /\ UNCHANGED sent
    BY ServicesMove
  <2>2. TypeOK' /\ ManagerInv'
    BY <2>1, ManagerStep DEF ServicesInv
  <2>3. Bus!TypeOK' /\ Bus!BusInv'
    BY <2>1, BusStep DEF ServicesInv
  <2>4. Store!TypeOK' /\ Store!StoreInv'
    BY <2>1, StoreTyped, StoreStep DEF ServicesInv
  <2>5. Hub!TypeOK' /\ Hub!HubInv'
    BY <2>1, HubStep DEF ServicesInv
  <2>6. Socket!TypeOK' /\ Socket!SocketInv'
    BY <2>1, SocketStep DEF ServicesInv
  <2>7. Router!RouterHolds'
    BY <2>1, Router!RouterSteps, RouterAssumption DEF ServicesInv
  <2>8. Match!TextsTyped' /\ Framing!SentTyped'
    BY <2>1 DEF ServicesInv, topicVars, Match!TextsTyped, Framing!SentTyped
  <2>9. QED
    BY <2>2, <2>3, <2>4, <2>5, <2>6, <2>7, <2>8 DEF ServicesInv
<1>3. QED
  BY <1>1, <1>2, PTL DEF SuiteSpec

(* In the specification of the run the manager, the bus, its event store,  *)
(* the router and the two servers keep their declared types: queues stay   *)
(* within their sizes, and a caller, a handle, a request or a client is    *)
(* where the code can be.                                                  *)
THEOREM ServicesTyped == SuiteSpec => []SuiteTypeOK
<1>1. ServicesInv => SuiteTypeOK
  BY Router!RouterTyped DEF ServicesInv, SuiteTypeOK
<1>2. QED
  BY <1>1, ServicesHold, PTL

(* And in it all keep what they promise: every invariant of the run holds  *)
(* of every behaviour of the suite.                                        *)
THEOREM ServicesKept ==
  SuiteSpec => [](PoolsKept /\ Delivered /\ Durable /\ TextsRead /\ Served /\ Streamed)
<1>1. ServicesInv => PoolsKept
  BY DEF ServicesInv, ManagerInv
<1>2. ServicesInv => Delivered
  BY DeliveredHolds DEF ServicesInv
<1>3. ServicesInv => Durable
  BY DurableHolds DEF ServicesInv
<1>4. ServicesInv => TextsRead
  BY Match!TopicsAreMatched, Framing!SentFramed DEF ServicesInv, TextsRead
<1>5. ServicesInv => Served
  BY Router!RouterServes DEF ServicesInv, Served
<1>6. ServicesInv => Streamed
  BY HubOrdered, SocketOrdered DEF ServicesInv, Streamed
<1>7. QED
  BY <1>1, <1>2, <1>3, <1>4, <1>5, <1>6, ServicesHold, PTL
=============================================================================
