--------------------------- MODULE RuntimeProofs ---------------------------
(***************************************************************************)
(* Proofs about the parts of the runtime that MCRuntime puts side by side, *)
(* each under its own specification: the handles of the host for any       *)
(* clients and calls, the promise combinators for arrays of any length,    *)
(* async calls for any number of them and any timeouts, timers for any     *)
(* number of timers and firings, the suspension of the iavm machine for    *)
(* any programs, handles and retries, imports for any projects, and calls  *)
(* of the functions of arrays.  The parts together type the whole suite.   *)
(***************************************************************************)
EXTENDS MCRuntime, FiniteSetTheorems, SequenceTheorems, WellFoundedInduction, TLAPS

-----------------------------------------------------------------------------
(* The handles of the default host, for any set of clients and any number  *)
(* of calls, capabilities and objects.                                     *)

(* Where a client is says what object it has: none, one that exists, and   *)
(* for an accept a listener.                                               *)
TypeInv ==
  /\ TypeOK
  /\ \A c \in Clients : pc[c] \in {"opened", "closing"} => object[c] # 0

(* The initial state. *)
LEMMA InitTypeInv == Init => TypeInv
BY DEF Init, TypeInv, TypeOK, Location, Opening, Kinds

(* Every step of every call keeps the types. *)
LEMMA NextTypeInv == TypeInv /\ [Next]_vars => TypeInv'
<1> SUFFICES ASSUME TypeInv, [Next]_vars PROVE TypeInv'
  OBVIOUS
<1> USE DEF TypeInv, TypeOK, Location, Opening, Kinds
<1>1. CASE UNCHANGED vars
  BY <1>1 DEF vars
<1>2. ASSUME NEW c \in Clients, NEW kind \in Kinds, CallOpens(c, kind) PROVE TypeInv'
  BY <1>2 DEF CallOpens, Goto, Count
<1>3. ASSUME NEW c \in Clients, NEW id \in Ids, CallAccepts(c, id) PROVE TypeInv'
  BY <1>3 DEF CallAccepts, Goto, Count, Ids
<1>4. ASSUME NEW c \in Clients, NEW id \in Ids, NEW kind \in Kinds, CallUses(c, id, kind) PROVE TypeInv'
  BY <1>4 DEF CallUses, Goto, Count, Ids
<1>5. ASSUME NEW c \in Clients, NEW id \in Ids, NEW group, CallCloses(c, id, group) PROVE TypeInv'
  BY <1>5 DEF CallCloses, Goto, Count, Ids, Found
<1>6. ASSUME NEW c \in Clients, ProviderOpens(c) PROVE TypeInv'
  BY <1>6 DEF ProviderOpens, Goto
<1>7. ASSUME NEW c \in Clients, ProviderReturns(c) PROVE TypeInv'
  BY <1>7 DEF ProviderReturns, Goto
<1>8. ASSUME NEW c \in Clients, StoreHandle(c) PROVE TypeInv'
  BY <1>8 DEF StoreHandle, Goto
<1>9. ASSUME NEW c \in Clients, CloseReturns(c) PROVE TypeInv'
  <2>1. PICK s \in {"closed", "abandoned"} :
               objects' = [objects EXCEPT ![object[c]] = [kind |-> @.kind, state |-> s]]
    BY <1>9 DEF CloseReturns
  <2>2. object[c] \in DOMAIN objects
    BY <1>9 DEF CloseReturns
  <2>3. /\ objects' \in Seq([kind : Kinds, state : {"open", "closed", "abandoned"}])
        /\ Len(objects') = Len(objects)
    <3> PICK O : O = [kind : Kinds, state : {"open", "closed", "abandoned"}]
      OBVIOUS
    <3> PICK r : r = [kind |-> objects[object[c]].kind, state |-> s]
      OBVIOUS
    <3>1. objects \in Seq(O)
      OBVIOUS
    <3>2. objects[object[c]] \in O
      BY ONLY <2>2, <3>1
    <3>3. r \in O
      BY <3>2
    <3>4. objects' = [objects EXCEPT ![object[c]] = r]
      BY <2>1
    <3>5. objects' \in Seq(O) /\ Len(objects') = Len(objects)
      BY ONLY <2>2, <3>1, <3>3, <3>4
    <3> QED
      BY <3>5
  <2>4. pc' = [pc EXCEPT ![c] = "idle"] /\ object' = [object EXCEPT ![c] = 0]
    BY <1>9 DEF CloseReturns, Goto
  <2>5. UNCHANGED <<capabilities, lastCap, table, calls>>
    BY <1>9 DEF CloseReturns
  <2> QED
    BY <2>3, <2>4, <2>5
<1>10. ASSUME NEW c \in Clients, NEW group \in {"fs", "network"}, AcquireCapability(c, group) PROVE TypeInv'
  BY <1>10 DEF AcquireCapability
<1>11. ASSUME NEW cap \in DOMAIN capabilities, ReleaseCapability(cap) PROVE TypeInv'
  BY <1>11 DEF ReleaseCapability
<1> QED
  BY <1>1, <1>2, <1>3, <1>4, <1>5, <1>6, <1>7, <1>8, <1>9, <1>10, <1>11 DEF Next, Call, Provider

(* Types and ranges of all state. *)
THEOREM HandlesTyped == Spec => []TypeOK
<1>1. TypeInv => TypeOK
  BY DEF TypeInv
<1> QED
  BY <1>1, InitTypeInv, NextTypeInv, PTL DEF Spec

-----------------------------------------------------------------------------
(* Accounted is inductive with the types: storing, taking out and closing  *)
(* move an object between its entry and one holder. *)

(* The initial state has no object. *)
LEMMA InitAccounted == Init => Accounted
BY DEF Init, Accounted

(* A step that changes neither the objects nor the table, and lets nobody  *)
(* begin or end to hold one, keeps the account.                            *)
LEMMA AccountKept ==
  ASSUME Accounted, objects' = objects, table' = table,
         \A c \in Clients, o \in DOMAIN objects : Holding(c, o)' <=> Holding(c, o)
  PROVE  Accounted'
BY DEF Accounted, Stored, Held, Ids

(* The steps that move an object. *)
LEMMA CallClosesAccounted ==
  ASSUME TypeInv, Accounted, NEW c \in Clients, NEW id \in Ids, NEW group, CallCloses(c, id, group)
  PROVE  Accounted'
<1> PICK p : p = table[id]
  OBVIOUS
<1>1. /\ pc[c] = "idle" /\ p # 0 /\ p \in DOMAIN objects
      /\ pc' = [pc EXCEPT ![c] = "closing"] /\ object' = [object EXCEPT ![c] = p]
      /\ table' = [table EXCEPT ![id] = 0] /\ objects' = objects
  BY DEF CallCloses, Granted, Found, Goto, TypeInv, TypeOK, Ids
<1>2. \A o \in DOMAIN objects, d \in Clients : Holding(d, o)' <=> Holding(d, o) \/ (d = c /\ o = p)
  BY <1>1 DEF Holding, TypeInv, TypeOK
<1>3. \A o \in DOMAIN objects, i \in Ids : table'[i] = o <=> table[i] = o /\ i # id
  BY <1>1 DEF TypeInv, TypeOK, Ids
<1>4. Ids' = Ids
  BY <1>1 DEF TypeInv, TypeOK, Ids
<1>5. \A i \in Ids : table[i] = p => i = id
  BY <1>1 DEF Accounted
<1>6. Stored(p) /\ ~Held(p)
  BY <1>1 DEF Accounted, Stored
<1>7. ~Stored(p)' /\ Held(p)'
  BY <1>1, <1>2, <1>3, <1>4, <1>5 DEF Stored, Held
<1>8. \A o \in DOMAIN objects \ {p} : (Stored(o)' <=> Stored(o)) /\ (Held(o)' <=> Held(o))
  <2> TAKE o \in DOMAIN objects \ {p}
  <2>1. \A i \in Ids : table'[i] = o <=> table[i] = o
    BY <1>3 
  <2>2. Stored(o)' <=> Stored(o)
    BY <2>1, <1>4 DEF Stored
  <2>3. Held(o)' <=> Held(o)
    BY <1>2 DEF Held
  <2> QED
    BY <2>2, <2>3
<1> QED
  BY <1>1, <1>2, <1>3, <1>4, <1>6, <1>7, <1>8 DEF Accounted, Held

LEMMA ProviderOpensAccounted ==
  ASSUME TypeInv, Accounted, NEW c \in Clients, ProviderOpens(c)
  PROVE  Accounted'
<1> PICK n : n = Len(objects) + 1
  OBVIOUS
<1>1. /\ pc[c] \notin {"opened", "closing"}
      /\ pc' = [pc EXCEPT ![c] = "opened"] /\ object' = [object EXCEPT ![c] = n]
      /\ table' = table
  BY DEF ProviderOpens, Goto, Opening, Kinds
<1>2. PICK kind \in Kinds : objects' = Append(objects, [kind |-> kind, state |-> "open"])
  BY DEF ProviderOpens
<1>3. /\ DOMAIN objects' = DOMAIN objects \cup {n} /\ n \notin DOMAIN objects
      /\ objects'[n].state = "open"
      /\ \A o \in DOMAIN objects : objects'[o] = objects[o]
  BY <1>2 DEF TypeInv, TypeOK
<1>4. \A o \in DOMAIN objects, d \in Clients : Holding(d, o)' <=> Holding(d, o)
  BY <1>1, <1>3 DEF Holding, TypeInv, TypeOK
<1>5. \A d \in Clients : Holding(d, n)' <=> d = c
  BY <1>1 DEF Holding, TypeInv, TypeOK
<1>6. \A i \in Ids : table[i] # n
  BY DEF TypeInv, TypeOK, Ids
<1>7. Ids' = Ids
  BY <1>1 DEF Ids
<1>8. \A o \in DOMAIN objects : (Stored(o)' <=> Stored(o)) /\ (Held(o)' <=> Held(o))
  BY <1>1, <1>4, <1>7 DEF Stored, Held
<1>9. ~Stored(n)' /\ Held(n)'
  BY <1>1, <1>5, <1>6, <1>7 DEF Stored, Held
<1> QED
  BY <1>1, <1>3, <1>4, <1>5, <1>6, <1>7, <1>8, <1>9 DEF Accounted

LEMMA StoreHandleAccounted ==
  ASSUME TypeInv, Accounted, NEW c \in Clients, StoreHandle(c)
  PROVE  Accounted'
<1> PICK p : p = object[c]
  OBVIOUS
<1> PICK n : n = Len(table) + 1
  OBVIOUS
<1>1. /\ pc[c] = "opened" /\ p \in DOMAIN objects
      /\ pc' = [pc EXCEPT ![c] = "idle"] /\ objects' = objects
      /\ table' = Append(table, p)
  BY DEF StoreHandle, Goto, TypeInv, TypeOK
<1>2. /\ Ids' = Ids \cup {n} /\ n \notin Ids /\ table'[n] = p
      /\ \A i \in Ids : table'[i] = table[i]
  BY <1>1 DEF TypeInv, TypeOK, Ids
<1>3. Holding(c, p)
  BY <1>1 DEF Holding
<1>4. Held(p) /\ ~Stored(p) /\ objects[p].state = "open"
  BY <1>1, <1>3 DEF Accounted, Held
<1>5. \A o \in DOMAIN objects, d \in Clients : Holding(d, o)' <=> Holding(d, o) /\ o # p
  <2> SUFFICES ASSUME NEW o \in DOMAIN objects, NEW d \in Clients
               PROVE  Holding(d, o)' <=> Holding(d, o) /\ o # p
    OBVIOUS
  <2>1. CASE d = c
    BY <2>1, <1>1 DEF Holding, TypeInv, TypeOK
  <2>2. CASE d # c
    <3>1. Holding(d, o)' <=> Holding(d, o)
      BY <2>2, <1>1 DEF Holding, StoreHandle, Goto, TypeInv, TypeOK
    <3>2. ~Holding(d, p)
      BY <2>2, <1>1, <1>3 DEF Accounted
    <3> QED
      BY <3>1, <3>2
  <2> QED
    BY <2>1, <2>2
<1>6. Stored(p)' /\ ~Held(p)' /\ \A i \in Ids' : table'[i] = p => i = n
  BY <1>1, <1>2, <1>4, <1>5 DEF Stored, Held
<1>7. \A o \in DOMAIN objects \ {p} : (Stored(o)' <=> Stored(o)) /\ (Held(o)' <=> Held(o))
  BY <1>2, <1>5 DEF Stored, Held
<1>8. \A o \in DOMAIN objects \ {p} : \A i \in Ids' : table'[i] = o => i \in Ids /\ table[i] = o
  BY <1>2
<1>9. \A o \in DOMAIN objects \ {p} : \A i, j \in Ids' : table'[i] = o /\ table'[j] = o => i = j
  BY <1>8 DEF Accounted
<1>10. \A i, j \in Ids' : table'[i] = p /\ table'[j] = p => i = j
  BY <1>6
<1>11. \A o \in DOMAIN objects : \A d, e \in Clients : Holding(d, o)' /\ Holding(e, o)' => d = e
  BY <1>5 DEF Accounted
<1>12. \A o \in DOMAIN objects :
         /\ objects[o].state = "open" <=> Stored(o)' \/ Held(o)'
         /\ ~(Stored(o)' /\ Held(o)')
  BY <1>4, <1>6, <1>7 DEF Accounted
<1> QED
  BY <1>1, <1>9, <1>10, <1>11, <1>12 DEF Accounted

LEMMA CloseReturnsAccounted ==
  ASSUME TypeInv, Accounted, NEW c \in Clients, CloseReturns(c)
  PROVE  Accounted'
<1> PICK p : p = object[c]
  OBVIOUS
<1>1. /\ pc[c] = "closing" /\ p \in DOMAIN objects
      /\ pc' = [pc EXCEPT ![c] = "idle"] /\ table' = table
  BY DEF CloseReturns, Goto, TypeInv, TypeOK
<1>2. PICK s \in {"closed", "abandoned"} : objects' = [objects EXCEPT ![p] = [kind |-> @.kind, state |-> s]]
  BY DEF CloseReturns
<1>3. /\ DOMAIN objects' = DOMAIN objects /\ objects'[p].state # "open"
      /\ \A o \in DOMAIN objects \ {p} : objects'[o] = objects[o]
  BY <1>1, <1>2 DEF TypeInv, TypeOK
<1>4. Holding(c, p)
  BY <1>1 DEF Holding
<1>5. Held(p) /\ ~Stored(p)
  BY <1>1, <1>4 DEF Accounted, Held
<1>6. \A o \in DOMAIN objects, d \in Clients : Holding(d, o)' <=> Holding(d, o) /\ o # p
  <2> SUFFICES ASSUME NEW o \in DOMAIN objects, NEW d \in Clients
               PROVE  Holding(d, o)' <=> Holding(d, o) /\ o # p
    OBVIOUS
  <2>1. CASE d = c
    BY <2>1, <1>1 DEF Holding, TypeInv, TypeOK
  <2>2. CASE d # c
    <3>1. Holding(d, o)' <=> Holding(d, o)
      BY <2>2, <1>1 DEF Holding, CloseReturns, Goto, TypeInv, TypeOK
    <3>2. ~Holding(d, p)
      BY <2>2, <1>1, <1>4 DEF Accounted
    <3> QED
      BY <3>1, <3>2
  <2> QED
    BY <2>1, <2>2
<1>7. \A o \in DOMAIN objects \ {p} : (Stored(o)' <=> Stored(o)) /\ (Held(o)' <=> Held(o))
  BY <1>1, <1>6 DEF Stored, Held, Ids
<1>8. ~Stored(p)' /\ ~Held(p)'
  BY <1>1, <1>5, <1>6 DEF Stored, Held, Ids
<1>9. Ids' = Ids
  BY <1>1 DEF Ids
<1> QED
  BY <1>1, <1>3, <1>6, <1>7, <1>8, <1>9 DEF Accounted

(* Every step keeps the account. *)
LEMMA NextAccounted == TypeInv /\ Accounted /\ [Next]_vars => Accounted'
<1> SUFFICES ASSUME TypeInv, Accounted, [Next]_vars PROVE Accounted'
  OBVIOUS
<1> USE DEF TypeInv, TypeOK, Opening, Kinds
<1>1. CASE UNCHANGED vars
  BY <1>1, AccountKept DEF vars, Holding
<1>2. ASSUME NEW c \in Clients, NEW kind \in Kinds, CallOpens(c, kind) PROVE Accounted'
  BY <1>2, AccountKept DEF CallOpens, Granted, Goto, Holding
<1>3. ASSUME NEW c \in Clients, NEW id \in Ids, CallAccepts(c, id) PROVE Accounted'
  BY <1>3, AccountKept DEF CallAccepts, Granted, Goto, Holding
<1>4. ASSUME NEW c \in Clients, NEW id \in Ids, NEW kind \in Kinds, CallUses(c, id, kind) PROVE Accounted'
  BY <1>4, AccountKept DEF CallUses, Granted, Goto, Holding
<1>5. ASSUME NEW c \in Clients, ProviderReturns(c) PROVE Accounted'
  BY <1>5, AccountKept DEF ProviderReturns, Goto, Holding, Location
<1>6. ASSUME NEW c \in Clients, NEW group \in {"fs", "network"}, AcquireCapability(c, group) PROVE Accounted'
  BY <1>6, AccountKept DEF AcquireCapability, Holding
<1>7. ASSUME NEW cap \in DOMAIN capabilities, ReleaseCapability(cap) PROVE Accounted'
  BY <1>7, AccountKept DEF ReleaseCapability, Holding
<1> QED
  BY <1>1, <1>2, <1>3, <1>4, <1>5, <1>6, <1>7, CallClosesAccounted, ProviderOpensAccounted,
     StoreHandleAccounted, CloseReturnsAccounted DEF Next, Call, Provider

(* For any number of clients and calls nothing that was opened is lost,    *)
(* closed twice or found after its close.                                  *)
THEOREM ObjectsAccounted == Spec => []Accounted
BY InitTypeInv, NextTypeInv, InitAccounted, NextAccounted, PTL DEF Spec

LEMMA TableSteps == TypeInv /\ [Next]_vars => [\A id \in Ids : table'[id] \in {table[id], 0}]_vars
<1> SUFFICES ASSUME TypeInv, [Next]_vars, NEW id \in Ids PROVE table'[id] \in {table[id], 0}
  OBVIOUS
<1>1. CASE table' = table
  BY <1>1
<1>2. ASSUME NEW c \in Clients, NEW i \in Ids, NEW group, CallCloses(c, i, group)
      PROVE  table'[id] \in {table[id], 0}
  BY <1>2 DEF CallCloses, TypeInv, TypeOK, Ids
<1>3. ASSUME NEW c \in Clients, StoreHandle(c) PROVE table'[id] \in {table[id], 0}
  BY <1>3 DEF StoreHandle, TypeInv, TypeOK, Ids
<1> QED
  BY <1>1, <1>2, <1>3 DEF Next, Call, Provider, vars, CallOpens, CallAccepts, CallUses, ProviderOpens,
     ProviderReturns, CloseReturns, AcquireCapability, ReleaseCapability

(* A handle never comes to name another object. *)
THEOREM HandlesFixed == Spec => HandleFixed
<1>1. TypeInv /\ [Next]_vars => [\A id \in Ids : table'[id] \in {table[id], 0}]_vars
  BY TableSteps
<1> QED
  BY <1>1, InitTypeInv, NextTypeInv, PTL DEF Spec, HandleFixed

-----------------------------------------------------------------------------
(* Promise.all, Promise.allSettled and Promise.race.                       *)

LEMMA CombinatorsInit == Combinators!Init => Combinators!TypeOK /\ Combinators!CombineInv
<1> SUFFICES ASSUME Combinators!Init PROVE Combinators!TypeOK /\ Combinators!CombineInv
  OBVIOUS
<1> USE RuntimeAssumption DEF Combinators!Init, Combinators!Inputs
<1>1. Combinators!TypeOK
  BY DEF Combinators!TypeOK, Combinators!Pending, Combinators!Promises, Combinators!Settled
<1>2. Combinators!AllInv
  BY DEF Combinators!AllInv, Combinators!Pending
<1>3. Combinators!ReportInv
  BY DEF Combinators!ReportInv, Combinators!ReportFaithful
<1>4. QED
  BY <1>1, <1>2, <1>3 DEF Combinators!CombineInv

LEMMA CombinatorsTyped ==
  ASSUME Combinators!TypeOK, Combinators!CombineInv, [Combinators!Next]_(Combinators!vars)
  PROVE  Combinators!TypeOK'
<1> USE RuntimeAssumption
        DEF Combinators!TypeOK, Combinators!Inputs, Combinators!Settled, Combinators!Promises,
            Combinators!allVars, Combinators!settledVars, Combinators!raceVars
<1>1. ASSUME NEW i \in Combinators!Inputs, Combinators!Settle(i) PROVE Combinators!TypeOK'
  BY <1>1 DEF Combinators!Settle
<1>2. CASE Combinators!AllAwaits
  <2>1. allAt' \in 1 .. N + 1
    BY <1>2 DEF Combinators!AllAwaits
  <2>2. all' \in [by : 0 .. N, result : {"value", "error"} \cup {"pending"}]
    BY <1>2 DEF Combinators!AllAwaits
  <2>3. QED
    BY <1>2, <2>1, <2>2 DEF Combinators!AllAwaits
<1>3. CASE Combinators!AllResolves
  BY <1>3 DEF Combinators!AllResolves
<1>4. CASE Combinators!SettledAwaits
  BY <1>4 DEF Combinators!SettledAwaits
<1>5. ASSUME NEW i \in Combinators!Inputs, Combinators!Watch(i) PROVE Combinators!TypeOK'
  <2>1. watcher' \in [1 .. N -> {"waiting", "holding", "gone"}] /\ channel' \in 0 .. N
    BY <1>5 DEF Combinators!Watch, Combinators!WatcherWakes, Combinators!WatcherSends
  <2>2. UNCHANGED <<input, first, allAt, all, settledAt, report, race>>
    BY <1>5 DEF Combinators!Watch, Combinators!WatcherWakes, Combinators!WatcherSends
  <2>3. QED
    BY <2>1, <2>2
<1>6. CASE Combinators!RaceReceives
  <2>1. channel \in 1 .. N /\ input[channel] \in {"value", "error", "pending"}
    BY <1>6 DEF Combinators!RaceReceives
  <2>2. race' \in [by : 0 .. N, result : {"value", "error"} \cup {"pending"}]
    BY <1>6, <2>1 DEF Combinators!RaceReceives
  <2>3. QED
    BY <1>6, <2>2 DEF Combinators!RaceReceives
<1>7. CASE UNCHANGED Combinators!vars
  BY <1>7 DEF Combinators!vars
<1>8. QED
  BY <1>1, <1>2, <1>3, <1>4, <1>5, <1>6, <1>7 DEF Combinators!Next, Combinators!Combine

(* An input settles once: what a combinator has passed stays what it was.  *)
LEMMA CombinatorsStep ==
  ASSUME Combinators!TypeOK, Combinators!CombineInv, [Combinators!Next]_(Combinators!vars)
  PROVE  Combinators!CombineInv'
<1> USE RuntimeAssumption
        DEF Combinators!TypeOK, Combinators!Inputs, Combinators!Settled, Combinators!Promises,
            Combinators!allVars, Combinators!settledVars, Combinators!raceVars,
            Combinators!AllInv, Combinators!ReportInv, Combinators!ReportFaithful
<1>0. Combinators!AllInv /\ Combinators!ReportInv
  BY DEF Combinators!CombineInv
<1>1. ASSUME NEW i \in Combinators!Inputs, Combinators!Settle(i)
      PROVE  Combinators!AllInv' /\ Combinators!ReportInv'
  <2>1. /\ input[i] = "pending" /\ \A j \in Combinators!Inputs : j # i => input'[j] = input[j]
        /\ UNCHANGED <<allAt, all, settledAt, report>>
    BY <1>1 DEF Combinators!Settle
  <2>2. Combinators!AllInv'
    BY <1>0, <2>1
  <2>3. Combinators!ReportInv'
    BY <1>0, <2>1
  <2>4. QED
    BY <2>2, <2>3
<1>2. ASSUME Combinators!AllAwaits PROVE Combinators!AllInv' /\ Combinators!ReportInv'
  <2>1. Combinators!AllInv'
    <3>1. CASE input[allAt] = "value"
      BY <1>0, <1>2, <3>1 DEF Combinators!AllAwaits, Combinators!Pending
    <3>2. CASE input[allAt] = "error"
      BY <1>0, <1>2, <3>2 DEF Combinators!AllAwaits
    <3>3. QED
      BY <1>2, <3>1, <3>2 DEF Combinators!AllAwaits
  <2>2. Combinators!ReportInv'
    BY <1>0, <1>2 DEF Combinators!AllAwaits
  <2>3. QED
    BY <2>1, <2>2
<1>3. ASSUME Combinators!AllResolves PROVE Combinators!AllInv' /\ Combinators!ReportInv'
  <2>1. Combinators!AllInv'
    BY <1>0, <1>3 DEF Combinators!AllResolves
  <2>2. Combinators!ReportInv'
    BY <1>0, <1>3 DEF Combinators!AllResolves
  <2>3. QED
    BY <2>1, <2>2
<1>4. ASSUME Combinators!SettledAwaits PROVE Combinators!AllInv' /\ Combinators!ReportInv'
  <2>1. Combinators!AllInv'
    BY <1>0, <1>4 DEF Combinators!SettledAwaits
  <2>2. Combinators!ReportInv'
    BY <1>0, <1>4 DEF Combinators!SettledAwaits
  <2>3. QED
    BY <2>1, <2>2
<1>5. ASSUME UNCHANGED <<input, allAt, all, settledAt, report>>
      PROVE  Combinators!AllInv' /\ Combinators!ReportInv'
  BY <1>0, <1>5
<1>6. ASSUME NEW i \in Combinators!Inputs, Combinators!Watch(i)
      PROVE  Combinators!AllInv' /\ Combinators!ReportInv'
  BY <1>5, <1>6 DEF Combinators!Watch, Combinators!WatcherWakes, Combinators!WatcherSends
<1>7. ASSUME Combinators!RaceReceives \/ UNCHANGED Combinators!vars
      PROVE  Combinators!AllInv' /\ Combinators!ReportInv'
  BY <1>5, <1>7 DEF Combinators!RaceReceives, Combinators!vars
<1>8. QED
  BY <1>1, <1>2, <1>3, <1>4, <1>6, <1>7
     DEF Combinators!Next, Combinators!Combine, Combinators!CombineInv

LEMMA CombinatorsReport == Combinators!TypeOK /\ Combinators!CombineInv => CombinatorsFaithful
<1> SUFFICES ASSUME Combinators!TypeOK, Combinators!CombineInv PROVE CombinatorsFaithful
  OBVIOUS
<1>1. Combinators!AllFaithful
  BY RuntimeAssumption
     DEF Combinators!AllFaithful, Combinators!CombineInv, Combinators!AllInv,
         Combinators!Inputs, Combinators!TypeOK
<1>2. Combinators!ReportFaithful
  BY DEF Combinators!CombineInv, Combinators!ReportInv
<1>3. QED
  BY <1>1, <1>2 DEF CombinatorsFaithful, Combinators!CombinatorsFaithful

(* Promise.all resolves only when every input has, and rejects with the    *)
(* error of an input before which every other one resolved; allSettled     *)
(* reports of each input what became of it; for arrays of every length and *)
(* inputs that settle in any order or never.                               *)
THEOREM CombinatorsReportInputs == Combinators!Spec => []CombinatorsFaithful
<1>1. Combinators!TypeOK /\ Combinators!CombineInv => CombinatorsFaithful
  BY CombinatorsReport
<1>2. /\ Combinators!TypeOK /\ Combinators!CombineInv
      /\ [Combinators!Next]_(Combinators!vars)
      => (Combinators!TypeOK /\ Combinators!CombineInv)'
  BY CombinatorsTyped, CombinatorsStep
<1>3. QED
  BY <1>1, <1>2, CombinatorsInit, PTL DEF Combinators!Spec
-----------------------------------------------------------------------------
(* Async calls.                                                            *)

LEMMA AsyncInit == Async!Init => Async!TypeOK /\ Async!AsyncInv
<1> SUFFICES ASSUME Async!Init PROVE Async!TypeOK /\ Async!AsyncInv
  OBVIOUS
<1> USE RuntimeAssumption DEF Async!Init
<1>1. Async!TypeOK
  <2>1. /\ usePool \in [Tasks -> BOOLEAN] /\ where \in [Tasks -> Async!Where]
        /\ outcome \in [Tasks -> Async!Outcome \cup {"none"}]
        /\ promise \in [Tasks -> Async!Answer \cup {"pending"}]
        /\ awaiting \in [Tasks -> BOOLEAN]
    BY DEF Async!Where, Async!Outcome, Async!Answer
  <2>2. runs \in [Tasks -> 0 .. MaxRetries + 1] /\ awaits \in [Tasks -> 0 .. MaxAwaits]
    OBVIOUS
  <2>3. answers \in [Tasks -> SUBSET (Async!Answer \cup {"awaitTimeout"})]
    OBVIOUS
  <2>4. /\ isInitialized \in BOOLEAN /\ isShutdown \in BOOLEAN
        /\ ioPool \in {"absent", "open", "closed", "unregistered"}
    OBVIOUS
  <2>5. QED
    BY <2>1, <2>2, <2>3, <2>4 DEF Async!TypeOK
<1>2. Async!AsyncInv
  BY DEF Async!AsyncInv, Async!AnsweredOnce, Async!Executed, Async!Outcome
<1>3. QED
  BY <1>1, <1>2

(* A step of the call t, in what the invariants look at.                   *)
OthersAsync(t) ==
  \A u \in Tasks \ {t} : /\ where'[u] = where[u] /\ runs'[u] = runs[u] /\ outcome'[u] = outcome[u]
                         /\ promise'[u] = promise[u] /\ answers'[u] = answers[u]

AsyncSame(t) ==
  /\ where'[t] = where[t] /\ runs'[t] = runs[t] /\ outcome'[t] = outcome[t]
  /\ promise'[t] = promise[t] /\ answers'[t] = answers[t]

LEMMA AsyncFrame ==
  ASSUME Async!AsyncInv, NEW u \in Tasks, AsyncSame(u)
  PROVE  Async!AnsweredOnce(u)' /\ Async!Executed(u)'
BY DEF Async!AsyncInv, Async!AnsweredOnce, Async!Executed, AsyncSame

LEMMA AsyncTyped ==
  ASSUME Async!TypeOK, Async!AsyncInv, [Async!Next]_(Async!vars)
  PROVE  Async!TypeOK'
<1> USE RuntimeAssumption
        DEF Async!TypeOK, Async!Where, Async!Outcome, Async!Answer, Async!managerVars,
            Async!awaitVars, Async!Begin, Async!Finish
<1>1. CASE Async!EnsureInitialized \/ Async!ManagerShutdown \/ Async!ClosePool \/ Async!ClearRegistry
  BY <1>1 DEF Async!EnsureInitialized, Async!ManagerShutdown, Async!ClosePool, Async!ClearRegistry
<1>2. ASSUME NEW t \in Tasks, Async!SpawnDecides(t) PROVE Async!TypeOK'
  BY <1>2 DEF Async!SpawnDecides
<1>3. ASSUME NEW t \in Tasks, Async!Await(t) PROVE Async!TypeOK'
  BY <1>3 DEF Async!Await
<1>4. ASSUME NEW t \in Tasks, where[t] \in {"decided", "queued"} PROVE runs[t] = 0
  BY <1>4 DEF Async!AsyncInv, Async!Executed
<1>5. ASSUME NEW t \in Tasks, Async!SpawnOnGoroutine(t) PROVE Async!TypeOK'
  BY <1>4, <1>5 DEF Async!SpawnOnGoroutine
<1>6. ASSUME NEW t \in Tasks, Async!SubmitMissesPool(t) PROVE Async!TypeOK'
  BY <1>4, <1>6 DEF Async!SubmitMissesPool
<1>7. ASSUME NEW t \in Tasks, Async!SubmitRefused(t) PROVE Async!TypeOK'
  BY <1>7 DEF Async!SubmitRefused
<1>8. ASSUME NEW t \in Tasks, Async!SubmitSends(t) \/ Async!Enqueue(t) PROVE Async!TypeOK'
  BY <1>8 DEF Async!SubmitSends, Async!Enqueue
<1>9. ASSUME NEW t \in Tasks, Async!WorkerReceives(t) PROVE Async!TypeOK'
  BY <1>4, <1>9 DEF Async!WorkerReceives
<1>10. ASSUME NEW t \in Tasks, Async!GoroutineReturns(t) PROVE Async!TypeOK'
  BY <1>10 DEF Async!GoroutineReturns
<1>11. ASSUME NEW t \in Tasks, Async!WorkerSucceeds(t) PROVE Async!TypeOK'
  BY <1>11 DEF Async!WorkerSucceeds
<1>12. ASSUME NEW t \in Tasks, Async!WorkerFails(t) PROVE Async!TypeOK'
  <2>1. CASE runs[t] <= MaxRetries
    BY <1>12, <2>1 DEF Async!WorkerFails
  <2>2. CASE runs[t] > MaxRetries
    BY <1>12, <2>2 DEF Async!WorkerFails
  <2>3. QED
    BY <2>1, <2>2
<1>13. ASSUME NEW t \in Tasks, Async!Answering(t) PROVE Async!TypeOK'
  <2>1. CASE Async!TimedAnswer(t) \/ Async!TimedOut(t)
    BY <2>1 DEF Async!TimedAnswer, Async!TimedOut
  <2>2. ASSUME Async!AwaitReturns(t) \/ Async!AwaitGivesUp(t) PROVE Async!TypeOK'
    <3>1. PICK got \in Async!Answer \cup {"awaitTimeout"} : answers' = [answers EXCEPT ![t] = @ \cup {got}]
      BY <2>2 DEF Async!AwaitReturns, Async!AwaitGivesUp
    <3>2. answers' \in [Tasks -> SUBSET (Async!Answer \cup {"awaitTimeout"})]
      <4>1. answers[t] \cup {got} \in SUBSET (Async!Answer \cup {"awaitTimeout"})
        OBVIOUS
      <4>2. QED
        BY <3>1, <4>1
    <3>3. awaiting' \in [Tasks -> BOOLEAN]
      BY <2>2 DEF Async!AwaitReturns, Async!AwaitGivesUp
    <3>4. UNCHANGED <<isInitialized, isShutdown, ioPool, usePool, where, runs, outcome, promise, awaits>>
      BY <2>2 DEF Async!AwaitReturns, Async!AwaitGivesUp, Async!managerVars
    <3>5. QED
      BY <3>2, <3>3, <3>4
  <2>3. QED
    BY <1>13, <2>1, <2>2 DEF Async!Answering
<1>14. CASE UNCHANGED Async!vars
  BY <1>14 DEF Async!vars
<1>15. QED
  BY <1>1, <1>2, <1>3, <1>5, <1>6, <1>7, <1>8, <1>9, <1>10, <1>11, <1>12, <1>13, <1>14
     DEF Async!Next, Async!Run, Async!Spawn, Async!Execute

(* A function that ends, with its promise when Spawn had no timeout.       *)
LEMMA AsyncFinish ==
  ASSUME Async!TypeOK, Async!AsyncInv, NEW t \in Tasks, NEW res \in Async!Outcome,
         Async!Finish(t, res), where[t] \in {"decided", "goroutine", "working"},
         UNCHANGED <<runs, answers>>,
         res = "value" => runs[t] >= 1,
         res = "error" => runs[t] \in {1, MaxRetries + 1},
         res = "shutdown" => runs[t] = 0
  PROVE  Async!AsyncInv'
<1>1. /\ where'[t] = "finished" /\ outcome'[t] = res
      /\ promise'[t] = IF t \in TaskTimeout THEN promise[t] ELSE res
  BY DEF Async!Finish, Async!TypeOK
<1>2. OthersAsync(t)
  BY DEF OthersAsync, Async!Finish, Async!TypeOK
<1>3. /\ answers[t] \subseteq {promise[t], "awaitTimeout"} \ {"pending"}
      /\ outcome[t] = "none" /\ promise[t] # "missing"
      /\ promise[t] \in Async!Outcome => outcome[t] = promise[t]
      /\ t \notin TaskTimeout => promise[t] = "pending"
  BY DEF Async!AsyncInv, Async!AnsweredOnce
<1>4. promise[t] \notin Async!Outcome
  BY <1>3 DEF Async!Outcome
<1>5. Async!AnsweredOnce(t)'
  BY <1>1, <1>3, <1>4 DEF Async!AnsweredOnce
<1>6. Async!Executed(t)'
  BY <1>1, <1>3 DEF Async!Executed, Async!Outcome
<1>7. \A u \in Tasks \ {t} : AsyncSame(u)
  BY <1>2 DEF OthersAsync, AsyncSame
<1>8. QED
  BY <1>5, <1>6, <1>7, AsyncFrame DEF Async!AsyncInv

(* A call that goes on, to a place where it has no outcome yet.            *)
LEMMA AsyncMoves ==
  ASSUME Async!TypeOK, Async!AsyncInv, NEW t \in Tasks, NEW to,
         where' = [where EXCEPT ![t] = to],
         where[t] \in {"idle", "decided", "sending", "queued", "working"},
         UNCHANGED <<outcome, promise, answers>>,
         where[t] = "working" => to = "working",
         to = "finished" => FALSE,
         to \in {"idle", "decided", "sending"} => where[t] \in {"idle", "decided", "sending"},
         \A u \in Tasks \ {t} : runs'[u] = runs[u],
         to \in {"idle", "decided", "sending", "queued", "panicked"} => runs'[t] = 0,
         to = "goroutine" => runs'[t] = 1,
         to = "working" => runs'[t] \in 1 .. MaxRetries + 1
  PROVE  Async!AsyncInv'
<1>1. where'[t] = to /\ \A u \in Tasks \ {t} : where'[u] = where[u]
  BY DEF Async!TypeOK
<1>2. /\ outcome[t] = "none" /\ promise[t] # "missing"
      /\ promise[t] # "pending" => where[t] \in {"queued", "working"} /\ t \in TaskTimeout
  BY DEF Async!AsyncInv, Async!AnsweredOnce
<1>3. Async!AnsweredOnce(t)'
  BY <1>1, <1>2 DEF Async!AsyncInv, Async!AnsweredOnce
<1>4. Async!Executed(t)'
  BY <1>1, <1>2 DEF Async!Executed
<1>5. \A u \in Tasks \ {t} : AsyncSame(u)
  BY <1>1 DEF AsyncSame
<1>6. QED
  BY <1>3, <1>4, <1>5, AsyncFrame DEF Async!AsyncInv

LEMMA AsyncStep ==
  ASSUME Async!TypeOK, Async!AsyncInv, [Async!Next]_(Async!vars)
  PROVE  Async!AsyncInv'
<1> USE DEF Async!managerVars, Async!awaitVars
<1>1. ASSUME UNCHANGED <<where, runs, outcome, promise, answers>> PROVE Async!AsyncInv'
  BY <1>1, AsyncFrame DEF Async!AsyncInv, AsyncSame
<1>2. CASE Async!EnsureInitialized \/ Async!ManagerShutdown \/ Async!ClearRegistry
  BY <1>1, <1>2 DEF Async!EnsureInitialized, Async!ManagerShutdown, Async!ClearRegistry
<1>3. CASE Async!ClosePool
  <2>1. SUFFICES ASSUME NEW u \in Tasks PROVE Async!AnsweredOnce(u)' /\ Async!Executed(u)'
    BY DEF Async!AsyncInv
  <2>2. /\ where'[u] = IF where[u] = "sending" THEN "panicked" ELSE where[u]
        /\ UNCHANGED <<runs, outcome, promise, answers>>
    BY <1>3 DEF Async!ClosePool
  <2>3. Async!AnsweredOnce(u)'
    BY <2>2 DEF Async!AsyncInv, Async!AnsweredOnce
  <2>4. Async!Executed(u)'
    BY <2>2 DEF Async!AsyncInv, Async!Executed
  <2>5. QED
    BY <2>3, <2>4
<1>4. ASSUME NEW t \in Tasks
      PROVE  /\ where[t] \in {"idle", "decided", "sending", "queued"} => runs[t] = 0
             /\ where[t] = "goroutine" => runs[t] = 1
             /\ where[t] = "working" => runs[t] \in 1 .. MaxRetries + 1
  BY DEF Async!AsyncInv, Async!Executed
<1>5. ASSUME NEW t \in Tasks, NEW to, Async!Begin(t, to)
      PROVE  /\ where' = [where EXCEPT ![t] = to]
             /\ runs'[t] = runs[t] + 1 /\ \A u \in Tasks \ {t} : runs'[u] = runs[u]
  BY <1>5 DEF Async!Begin, Async!TypeOK
<1>6. ASSUME NEW t \in Tasks, Async!SpawnDecides(t) PROVE Async!AsyncInv'
  BY <1>4, <1>6, AsyncMoves DEF Async!SpawnDecides
<1>7. ASSUME NEW t \in Tasks, Async!Await(t) PROVE Async!AsyncInv'
  BY <1>1, <1>7 DEF Async!Await
<1>8. ASSUME NEW t \in Tasks, where[t] = "decided", Async!Begin(t, "goroutine"),
             UNCHANGED <<outcome, promise, answers>>
      PROVE  Async!AsyncInv'
  <2>1. runs'[t] = 1 /\ \A u \in Tasks \ {t} : runs'[u] = runs[u]
    BY <1>4, <1>5, <1>8
  <2>2. QED
    BY <1>5, <1>8, <2>1, AsyncMoves
<1>9. ASSUME NEW t \in Tasks, Async!SpawnOnGoroutine(t) PROVE Async!AsyncInv'
  BY <1>8, <1>9 DEF Async!SpawnOnGoroutine
<1>10. ASSUME NEW t \in Tasks, Async!SubmitMissesPool(t) PROVE Async!AsyncInv'
  <2>1. CASE t \in TaskTimeout
    <3>1. /\ where[t] = "decided" /\ where'[t] = "finished" /\ promise'[t] = "missing"
          /\ UNCHANGED <<runs, outcome, answers>>
          /\ \A u \in Tasks \ {t} : where'[u] = where[u] /\ promise'[u] = promise[u]
      BY <1>10, <2>1 DEF Async!SubmitMissesPool, Async!TypeOK
    <3>2. answers[t] \subseteq {"awaitTimeout"} /\ outcome[t] = "none" /\ runs[t] = 0
      BY <1>4, <3>1 DEF Async!AsyncInv, Async!AnsweredOnce
    <3>3. Async!AnsweredOnce(t)' /\ Async!Executed(t)'
      BY <2>1, <3>1, <3>2 DEF Async!AnsweredOnce, Async!Executed, Async!Outcome
    <3>4. \A u \in Tasks \ {t} : AsyncSame(u)
      BY <3>1 DEF AsyncSame
    <3>5. QED
      BY <3>3, <3>4, AsyncFrame DEF Async!AsyncInv
  <2>2. CASE t \notin TaskTimeout
    BY <1>8, <1>10, <2>2 DEF Async!SubmitMissesPool
  <2>3. QED
    BY <2>1, <2>2
<1>11. ASSUME NEW t \in Tasks, Async!SubmitRefused(t) PROVE Async!AsyncInv'
  BY <1>4, <1>11, AsyncFinish DEF Async!SubmitRefused, Async!Outcome
<1>12. ASSUME NEW t \in Tasks, Async!SubmitSends(t) PROVE Async!AsyncInv'
  BY <1>4, <1>12, AsyncMoves DEF Async!SubmitSends
<1>13. ASSUME NEW t \in Tasks, Async!Enqueue(t) PROVE Async!AsyncInv'
  BY <1>4, <1>13, AsyncMoves DEF Async!Enqueue
<1>14. ASSUME NEW t \in Tasks, Async!WorkerReceives(t) PROVE Async!AsyncInv'
  <2>1. runs'[t] = 1 /\ \A u \in Tasks \ {t} : runs'[u] = runs[u]
    BY <1>4, <1>5, <1>14 DEF Async!WorkerReceives
  <2>2. runs'[t] \in 1 .. MaxRetries + 1
    BY <2>1, RuntimeAssumption
  <2>3. QED
    BY <1>5, <1>14, <2>1, <2>2, AsyncMoves DEF Async!WorkerReceives
<1>15. ASSUME NEW t \in Tasks, Async!GoroutineReturns(t) PROVE Async!AsyncInv'
  <2>1. runs[t] = 1
    BY <1>4, <1>15 DEF Async!GoroutineReturns
  <2>2. QED
    BY <1>15, <2>1, AsyncFinish DEF Async!GoroutineReturns, Async!Outcome
<1>16. ASSUME NEW t \in Tasks, Async!WorkerSucceeds(t) PROVE Async!AsyncInv'
  <2>1. runs[t] >= 1
    BY <1>4, <1>16, RuntimeAssumption DEF Async!WorkerSucceeds
  <2>2. QED
    BY <1>16, <2>1, AsyncFinish DEF Async!WorkerSucceeds, Async!Outcome
<1>17. ASSUME NEW t \in Tasks, Async!WorkerFails(t) PROVE Async!AsyncInv'
  <2>1. where[t] = "working" /\ runs[t] \in 1 .. MaxRetries + 1 /\ answers' = answers
    BY <1>4, <1>17 DEF Async!WorkerFails
  <2>2. CASE runs[t] <= MaxRetries
    <3>1. Async!Begin(t, "working") /\ UNCHANGED <<outcome, promise>>
      BY <1>17, <2>1, <2>2, RuntimeAssumption DEF Async!WorkerFails
    <3>2. runs'[t] \in 1 .. MaxRetries + 1
      BY <1>5, <2>1, <2>2, <3>1, RuntimeAssumption
    <3>3. QED
      BY <1>5, <2>1, <3>1, <3>2, AsyncMoves
  <2>3. CASE runs[t] > MaxRetries
    <3>1. Async!Finish(t, "error") /\ UNCHANGED runs
      BY <1>17, <2>1, <2>3, RuntimeAssumption DEF Async!WorkerFails
    <3>2. runs[t] = MaxRetries + 1
      BY <2>1, <2>3, RuntimeAssumption
    <3>3. QED
      BY <2>1, <3>1, <3>2, AsyncFinish DEF Async!Outcome
  <2>4. QED
    BY <2>1, <2>2, <2>3, RuntimeAssumption
<1>18. ASSUME NEW t \in Tasks, Async!TimedAnswer(t) \/ Async!TimedOut(t) PROVE Async!AsyncInv'
  <2>1. /\ promise[t] = "pending" /\ t \in TaskTimeout
        /\ promise'[t] \in {outcome[t], "timeout"}
        /\ (outcome[t] = "none" => promise'[t] = "timeout")
        /\ where[t] \in {"queued", "working", "goroutine", "finished"}
        /\ UNCHANGED <<where, runs, outcome, answers>>
        /\ \A u \in Tasks \ {t} : promise'[u] = promise[u]
    BY <1>18 DEF Async!TimedAnswer, Async!TimedOut, Async!TypeOK, Async!AsyncInv, Async!AnsweredOnce
  <2>2. outcome[t] \in {"value", "error", "shutdown", "none"} /\ answers[t] \subseteq {"awaitTimeout"}
    BY <2>1 DEF Async!AsyncInv, Async!AnsweredOnce, Async!TypeOK, Async!Outcome
  <2>3. Async!AnsweredOnce(t)'
    <3>1. /\ promise'[t] # "pending"
          /\ promise'[t] \in {"value", "error", "shutdown"} => outcome[t] = promise'[t]
          /\ promise'[t] # "missing"
      BY <2>1, <2>2
    <3>2. outcome[t] # "none" => where[t] = "finished"
      BY DEF Async!AsyncInv, Async!AnsweredOnce
    <3>3. QED
      BY <2>1, <2>2, <3>1, <3>2 DEF Async!AnsweredOnce, Async!Outcome
  <2>4. Async!Executed(t)'
    <3>1. promise'[t] # "missing"
      BY <2>1, <2>2
    <3>2. QED
      BY <2>1, <3>1 DEF Async!AsyncInv, Async!Executed
  <2>5. \A u \in Tasks \ {t} : AsyncSame(u)
    BY <2>1 DEF AsyncSame
  <2>6. QED
    BY <2>3, <2>4, <2>5, AsyncFrame DEF Async!AsyncInv
<1>19. ASSUME NEW t \in Tasks, Async!AwaitReturns(t) \/ Async!AwaitGivesUp(t) PROVE Async!AsyncInv'
  <2>1. /\ UNCHANGED <<where, runs, outcome, promise>>
        /\ \A u \in Tasks \ {t} : answers'[u] = answers[u]
    BY <1>19 DEF Async!AwaitReturns, Async!AwaitGivesUp, Async!TypeOK
  <2>2. Async!AnsweredOnce(t)' /\ Async!Executed(t)'
    <3>1. answers[t] \subseteq {promise[t], "awaitTimeout"} \ {"pending"}
      BY DEF Async!AsyncInv, Async!AnsweredOnce
    <3>2. CASE Async!AwaitReturns(t)
      <4>1. promise[t] # "pending" /\ answers'[t] = answers[t] \cup {promise[t]}
        BY <3>2 DEF Async!AwaitReturns, Async!TypeOK
      <4>2. answers'[t] \subseteq {promise[t], "awaitTimeout"} \ {"pending"}
        BY <3>1, <4>1
      <4>3. QED
        BY <2>1, <4>2 DEF Async!AsyncInv, Async!AnsweredOnce, Async!Executed
    <3>3. CASE Async!AwaitGivesUp(t)
      <4>1. answers'[t] = answers[t] \cup {"awaitTimeout"}
        BY <3>3 DEF Async!AwaitGivesUp, Async!TypeOK
      <4>2. answers'[t] \subseteq {promise[t], "awaitTimeout"} \ {"pending"}
        BY <3>1, <4>1
      <4>3. QED
        BY <2>1, <4>2 DEF Async!AsyncInv, Async!AnsweredOnce, Async!Executed
    <3>4. QED
      BY <1>19, <3>2, <3>3
  <2>3. \A u \in Tasks \ {t} : AsyncSame(u)
    BY <2>1 DEF AsyncSame
  <2>4. QED
    BY <2>2, <2>3, AsyncFrame DEF Async!AsyncInv
<1>20. CASE UNCHANGED Async!vars
  BY <1>1, <1>20 DEF Async!vars
<1>21. QED
  BY <1>2, <1>3, <1>6, <1>7, <1>9, <1>10, <1>11, <1>12, <1>13, <1>14, <1>15, <1>16, <1>17, <1>18,
     <1>19, <1>20
     DEF Async!Next, Async!Run, Async!Spawn, Async!Execute, Async!Answering

LEMMA AnswersEarned == Async!TypeOK /\ Async!AsyncInv => Answered
<1> SUFFICES ASSUME Async!TypeOK, Async!AsyncInv, NEW t \in Tasks
             PROVE  /\ \A x, y \in answers[t] \ {"awaitTimeout"} : x = y
                    /\ "value" \in answers[t] => outcome[t] = "value" /\ runs[t] >= 1
                    /\ "error" \in answers[t] => outcome[t] = "error" /\ runs[t] \in {1, MaxRetries + 1}
                    /\ answers[t] \cap {"shutdown", "missing"} # {} => runs[t] = 0
  BY DEF Answered, Async!OneAnswer, Async!AnswerEarned
<1>1. /\ answers[t] \subseteq {promise[t], "awaitTimeout"}
      /\ promise[t] \in Async!Outcome => outcome[t] = promise[t]
  BY DEF Async!AsyncInv, Async!AnsweredOnce
<1>2. Async!Executed(t)
  BY DEF Async!AsyncInv
<1>3. QED
  BY <1>1, <1>2 DEF Async!Executed, Async!Outcome

(* Awaits of one promise agree, and an answer is earned: a value by an     *)
(* execution that returned it, an error by as many executions as the place *)
(* of execution allows, a refusal by none; whatever timeouts, retries and  *)
(* shutdowns come between, for any number of calls.                        *)
THEOREM AsyncAnswered == Async!Spec => []Answered
<1>1. Async!TypeOK /\ Async!AsyncInv => Answered
  BY AnswersEarned
<1>2. Async!TypeOK /\ Async!AsyncInv /\ [Async!Next]_(Async!vars) => (Async!TypeOK /\ Async!AsyncInv)'
  BY AsyncTyped, AsyncStep
<1>3. QED
  BY <1>1, <1>2, AsyncInit, PTL DEF Async!Spec

-----------------------------------------------------------------------------
(* Timers.                                                                 *)

LEMMA LoopFiring ==
  ASSUME NEW t \in Timers!Timers
  PROVE  Timers!Loop(t) \in Timers!Firings /\ \A n \in 1 .. MaxTicks : Timers!Loop(t) # <<t, n>>
BY RuntimeAssumption DEF Timers!Loop, Timers!Firings

LEMMA TimersInit == Timers!Init => Timers!TypeOK /\ Timers!TimerInv
<1> SUFFICES ASSUME Timers!Init PROVE Timers!TypeOK /\ Timers!TimerInv
  OBVIOUS
<1> USE RuntimeAssumption DEF Timers!Init
<1>1. Timers!TypeOK
  <2>1. manager \in {"off", "bare", "open", "closing", "closed"}
    OBVIOUS
  <2>2. QED
    BY <2>1 DEF Timers!TypeOK, Timers!Place
<1>2. Timers!FiringInv
  <2>1. ASSUME NEW t \in Timers!Timers, NEW n \in 1 .. MaxTicks PROVE <<t, n>> \in Timers!Firings
    BY DEF Timers!Firings
  <2>2. \A f \in Timers!Firings : place[f] = "none"
    OBVIOUS
  <2>3. QED
    BY <2>1, <2>2, LoopFiring DEF Timers!FiringInv, Timers!Loop
<1>3. Timers!WaitingInv /\ Timers!SilencedInv
  BY DEF Timers!WaitingInv, Timers!SilencedInv
<1>4. QED
  BY <1>1, <1>2, <1>3 DEF Timers!TimerInv

LEMMA LaterFiring ==
  ASSUME Timers!TypeOK, NEW t \in Timers!Timers, ticks[t] < MaxTicks
  PROVE  /\ <<t, ticks[t] + 1>> \in Timers!Firings
         /\ ticks[t] + 1 \in 1 .. MaxTicks
BY RuntimeAssumption DEF Timers!TypeOK, Timers!Firings

(* One firing, which is somewhere, moves on; nothing else changes.         *)
FiringMoves(f) ==
  /\ place[f] # "none"
  /\ UNCHANGED <<state, timerTable, issued, closed, silenced, ticks>>
  /\ place' \in [Timers!Firings -> Timers!Place]
  /\ callbackRuns' \in [Timers!Firings -> 0 .. MaxRetries + 1]
  /\ \A g \in Timers!Firings \ {f} : place'[g] = place[g] /\ callbackRuns'[g] = callbackRuns[g]
  /\ place'[f] \in {"none", "firing", "submitting", "sending", "queued"} => callbackRuns'[f] = 0

LEMMA TimerFrame ==
  ASSUME Timers!TypeOK, Timers!TimerInv, NEW f \in Timers!Firings, FiringMoves(f),
         manager' \in {"off", "bare", "open", "closing", "closed"}
  PROVE  (Timers!TypeOK /\ Timers!TimerInv)'
<1>1. Timers!TypeOK'
  BY DEF FiringMoves, Timers!TypeOK
<1>2. Timers!FiringInv'
  <2>1. ASSUME NEW t \in Timers!Timers, NEW n \in 1 .. MaxTicks, n > ticks'[t]
        PROVE  place'[<<t, n>>] = "none"
    <3>1. n > ticks[t] /\ <<t, n>> \in Timers!Firings
      BY <2>1, RuntimeAssumption DEF FiringMoves, Timers!Firings
    <3>2. place[<<t, n>>] = "none"
      BY <3>1 DEF Timers!TimerInv, Timers!FiringInv
    <3>3. QED
      BY <3>1, <3>2 DEF FiringMoves
  <2>2. ASSUME NEW t \in Timers!Timers, state'[t] = "idle" PROVE place'[Timers!Loop(t)] = "none"
    <3>1. place[Timers!Loop(t)] = "none"
      BY <2>2 DEF FiringMoves, Timers!TimerInv, Timers!FiringInv
    <3>2. QED
      BY <3>1, LoopFiring DEF FiringMoves
  <2>3. QED
    BY <2>1, <2>2 DEF Timers!FiringInv, Timers!Loop
<1>3. Timers!WaitingInv'
  BY DEF FiringMoves, Timers!TimerInv, Timers!WaitingInv
<1>4. Timers!SilencedInv'
  BY DEF FiringMoves, Timers!TimerInv, Timers!SilencedInv
<1>5. QED
  BY <1>1, <1>2, <1>3, <1>4 DEF Timers!TimerInv

LEMMA CallbackSteps ==
  ASSUME Timers!TypeOK, Timers!TimerInv, NEW f \in Timers!Firings,
         Timers!Callback(f) \/ Timers!CallbackReturns(f) \/ Timers!CallbackFails(f)
  PROVE  (Timers!TypeOK /\ Timers!TimerInv)'
<1> USE RuntimeAssumption DEF Timers!TypeOK, Timers!Place
<1>1. place[f] \in {"none", "firing", "submitting", "sending", "queued"} => callbackRuns[f] = 0
  BY DEF Timers!TimerInv, Timers!WaitingInv
<1>2. CASE Timers!ReadManager(f)
  <2>1. CASE Timers!Move(f, "submitting") /\ UNCHANGED callbackRuns
    BY <1>1, <1>2, <2>1, TimerFrame DEF FiringMoves, Timers!ReadManager, Timers!Move, Timers!timerVars
  <2>2. CASE Timers!Begin(f, "goroutine")
    BY <1>1, <1>2, <2>2, TimerFrame
       DEF FiringMoves, Timers!ReadManager, Timers!Begin, Timers!Move, Timers!timerVars
  <2>3. QED
    BY <1>2, <2>1, <2>2 DEF Timers!ReadManager
<1>3. CASE Timers!SubmitCallback(f)
  <2>1. PICK p \in {"sending", "dropped"} : place' = [place EXCEPT ![f] = p]
    BY <1>3 DEF Timers!SubmitCallback, Timers!Move
  <2>2. QED
    BY <1>1, <1>3, <2>1, TimerFrame DEF FiringMoves, Timers!SubmitCallback, Timers!timerVars
<1>4. CASE Timers!Enqueue(f)
  BY <1>1, <1>4, TimerFrame DEF FiringMoves, Timers!Enqueue, Timers!Move, Timers!timerVars
<1>5. CASE Timers!WorkerReceives(f)
  BY <1>1, <1>5, TimerFrame
     DEF FiringMoves, Timers!WorkerReceives, Timers!Begin, Timers!Move, Timers!timerVars
<1>6. CASE Timers!CallbackReturns(f)
  BY <1>6, TimerFrame DEF FiringMoves, Timers!CallbackReturns, Timers!Move, Timers!timerVars
<1>7. CASE Timers!CallbackFails(f)
  BY <1>7, TimerFrame
     DEF FiringMoves, Timers!CallbackFails, Timers!Begin, Timers!Move, Timers!timerVars
<1>8. QED
  BY <1>2, <1>3, <1>4, <1>5, <1>6, <1>7 DEF Timers!Callback

(* A step of the script moves no firing; one that is over stays over, and  *)
(* none becomes idle.                                                      *)
ScriptMoves ==
  /\ UNCHANGED <<ticks, place, callbackRuns, manager>>
  /\ state' \in [Timers!Timers -> {"idle", "armed", "over"}]
  /\ timerTable' \subseteq issued' /\ issued' \subseteq Timers!Timers \ Loops
  /\ closed' \subseteq Intervals /\ silenced' \subseteq issued'
  /\ \A t \in Timers!Timers : /\ state[t] = "over" => state'[t] = "over"
                              /\ state'[t] = "idle" => state[t] = "idle"
  /\ \A t \in silenced' \ (silenced \cup Intervals) : state'[t] = "over" /\ ticks[t] = 0

LEMMA ScriptFrame ==
  ASSUME Timers!TypeOK, Timers!TimerInv, ScriptMoves
  PROVE  (Timers!TypeOK /\ Timers!TimerInv)'
<1>1. Timers!TypeOK'
  BY DEF ScriptMoves, Timers!TypeOK
<1>2. Timers!FiringInv'
  <2>1. ASSUME NEW t \in Timers!Timers, NEW n \in 1 .. MaxTicks, n > ticks'[t] PROVE place'[<<t, n>>] = "none"
    BY <2>1 DEF ScriptMoves, Timers!TimerInv, Timers!FiringInv
  <2>2. ASSUME NEW t \in Timers!Timers, state'[t] = "idle" PROVE place'[Timers!Loop(t)] = "none"
    <3>1. state[t] = "idle" /\ place' = place
      BY <2>2 DEF ScriptMoves
    <3>2. QED
      BY <3>1 DEF Timers!TimerInv, Timers!FiringInv
  <2>3. QED
    BY <2>1, <2>2 DEF Timers!FiringInv, Timers!Loop
<1>3. Timers!WaitingInv'
  BY DEF ScriptMoves, Timers!TimerInv, Timers!WaitingInv
<1>4. Timers!SilencedInv'
  <2> SUFFICES ASSUME NEW t \in silenced' \ Intervals PROVE state'[t] = "over" /\ ticks'[t] = 0
    BY DEF Timers!SilencedInv
  <2>1. CASE t \in silenced
    <3>1. state[t] = "over" /\ ticks[t] = 0
      BY <2>1 DEF Timers!TimerInv, Timers!SilencedInv
    <3>2. t \in Timers!Timers
      BY <2>1 DEF Timers!TypeOK
    <3>3. QED
      BY <3>1, <3>2 DEF ScriptMoves
  <2>2. CASE t \notin silenced
    BY <2>2 DEF ScriptMoves
  <2>3. QED
    BY <2>1, <2>2
<1>5. QED
  BY <1>1, <1>2, <1>3, <1>4 DEF Timers!TimerInv

LEMMA FiringSteps ==
  ASSUME Timers!TypeOK, Timers!TimerInv, NEW t \in Timers!Timers, Timers!Fires(t) \/ Timers!IntervalEnds(t)
  PROVE  (Timers!TypeOK /\ Timers!TimerInv)'
<1>1. CASE Timers!Fires(t)
  <2> DEFINE f == <<t, ticks[t] + 1>>
  <2>1. f \in Timers!Firings /\ ticks[t] + 1 \in 1 .. MaxTicks /\ ticks[t] \in Nat
    BY <1>1, LaterFiring, RuntimeAssumption DEF Timers!Fires, Timers!TypeOK
  <2>2. place[f] = "none" /\ callbackRuns[f] = 0
    <3>1. place[f] = "none"
      BY <2>1 DEF Timers!TimerInv, Timers!FiringInv
    <3>2. QED
      BY <2>1, <3>1 DEF Timers!TimerInv, Timers!WaitingInv
  <2>3. place' = [place EXCEPT ![f] = "firing"] /\ ticks' = [ticks EXCEPT ![t] = ticks[t] + 1]
    BY <1>1 DEF Timers!Fires
  <2>4. UNCHANGED <<timerTable, issued, closed, silenced, callbackRuns, manager>>
    BY <1>1 DEF Timers!Fires
  <2>5. /\ state[t] = "armed" /\ state'[t] # "idle"
        /\ state' \in [Timers!Timers -> {"idle", "armed", "over"}]
        /\ \A u \in Timers!Timers \ {t} : state'[u] = state[u]
    BY <1>1 DEF Timers!Fires, Timers!CanFire, Timers!TypeOK
  <2> HIDE DEF f
  <2>6. Timers!TypeOK'
    <3>1. place' \in [Timers!Firings -> Timers!Place]
      BY <2>3 DEF Timers!TypeOK, Timers!Place
    <3>2. ticks' \in [Timers!Timers -> 0 .. MaxTicks]
      BY <2>1, <2>3, RuntimeAssumption DEF Timers!TypeOK
    <3>3. QED
      BY <2>4, <2>5, <3>1, <3>2 DEF Timers!TypeOK
  <2>7. Timers!FiringInv'
    <3>1. ASSUME NEW u \in Timers!Timers, NEW n \in 1 .. MaxTicks, n > ticks'[u]
          PROVE  place'[<<u, n>>] = "none"
      <4>1. <<u, n>> \in Timers!Firings
        BY RuntimeAssumption DEF Timers!Firings
      <4>2. n > ticks[u] /\ (u = t => n # ticks[t] + 1)
        BY <2>1, <2>3, <3>1, RuntimeAssumption DEF Timers!TypeOK
      <4>3. <<u, n>> # f
        BY <4>2 DEF f
      <4>4. place[<<u, n>>] = "none"
        BY <4>2 DEF Timers!TimerInv, Timers!FiringInv
      <4>5. QED
        BY <2>3, <4>1, <4>3, <4>4 DEF Timers!TypeOK
    <3>2. ASSUME NEW u \in Timers!Timers, state'[u] = "idle" PROVE place'[Timers!Loop(u)] = "none"
      <4>1. Timers!Loop(u) # f
        BY <2>1, RuntimeAssumption DEF f, Timers!Loop
      <4>2. u # t
        BY <2>5, <3>2
      <4>3. place[Timers!Loop(u)] = "none"
        BY <2>5, <3>2, <4>2 DEF Timers!TimerInv, Timers!FiringInv
      <4>4. QED
        BY <2>3, <4>1, <4>3, LoopFiring DEF Timers!TypeOK
    <3>3. QED
      BY <3>1, <3>2 DEF Timers!FiringInv, Timers!Loop
  <2>8. Timers!WaitingInv'
    BY <2>1, <2>2, <2>3, <2>4 DEF Timers!TimerInv, Timers!WaitingInv, Timers!TypeOK
  <2>9. Timers!SilencedInv'
    <3> SUFFICES ASSUME NEW u \in silenced \ Intervals PROVE state'[u] = "over" /\ ticks'[u] = 0
      BY <2>4 DEF Timers!SilencedInv
    <3>1. state[u] = "over" /\ ticks[u] = 0 /\ u \in Timers!Timers
      BY DEF Timers!TimerInv, Timers!SilencedInv, Timers!TypeOK
    <3>2. u # t
      BY <2>5, <3>1
    <3>3. QED
      BY <2>3, <2>5, <3>1, <3>2 DEF Timers!TypeOK
  <2>10. QED
    BY <2>6, <2>7, <2>8, <2>9 DEF Timers!TimerInv
<1>2. CASE Timers!IntervalEnds(t)
  <2>1. ScriptMoves
    BY <1>2 DEF ScriptMoves, Timers!IntervalEnds, Timers!CanFire, Timers!TypeOK
  <2>2. QED
    BY <2>1, ScriptFrame
<1>3. QED
  BY <1>1, <1>2

LEMMA ScriptSteps ==
  ASSUME Timers!TypeOK, Timers!TimerInv, NEW t \in Timers!Timers, Timers!Script(t)
  PROVE  (Timers!TypeOK /\ Timers!TimerInv)'
<1> USE RuntimeAssumption
<1>1. CASE Timers!SetTimeout(t) \/ Timers!SetTimeoutReturns(t) \/ Timers!StartRepeating(t)
  <2>1. /\ UNCHANGED <<closed, silenced, ticks, place, callbackRuns, manager>>
        /\ state' \in [Timers!Timers -> {"idle", "armed", "over"}]
        /\ \A u \in Timers!Timers : /\ state[u] = "over" => state'[u] = "over"
                                    /\ state'[u] = "idle" => state[u] = "idle"
    BY <1>1 DEF Timers!SetTimeout, Timers!SetTimeoutReturns, Timers!StartRepeating, Timers!New, Timers!TypeOK
  <2>2. timerTable' \subseteq issued' /\ issued' \subseteq Timers!Timers \ Loops /\ silenced' \subseteq issued'
    <3>1. CASE Timers!SetTimeout(t)
      BY <3>1 DEF Timers!SetTimeout, Timers!TypeOK
    <3>2. CASE Timers!SetTimeoutReturns(t) \/ Timers!StartRepeating(t)
      <4>1. t \notin Loops
        BY <3>2 DEF Timers!SetTimeoutReturns, Timers!StartRepeating
      <4>2. /\ timerTable' = timerTable \cup {t} /\ issued' = issued \cup {t}
            /\ UNCHANGED silenced
        BY <3>2 DEF Timers!SetTimeoutReturns, Timers!StartRepeating
      <4>3. QED
        BY <4>1, <4>2 DEF Timers!TypeOK
    <3>3. QED
      BY <1>1, <3>1, <3>2
  <2>3. ScriptMoves
    BY <2>1, <2>2 DEF ScriptMoves, Timers!TypeOK
  <2>4. QED
    BY <2>3, ScriptFrame
<1>2. CASE Timers!Every(t)
  <2> DEFINE f == Timers!Loop(t)
  <2>1. f \in Timers!Firings /\ \A n \in 1 .. MaxTicks, u \in Timers!Timers : <<u, n>> # f
    BY LoopFiring DEF Timers!Loop
  <2>2. PICK p \in {"sending", "goroutine"} : place' = [place EXCEPT ![f] = p]
    BY <1>2 DEF Timers!Every
  <2>3. UNCHANGED <<timerTable, issued, closed, silenced, ticks, callbackRuns, manager>>
    BY <1>2 DEF Timers!Every
  <2>4. /\ state[t] = "idle" /\ state' = [state EXCEPT ![t] = "armed"]
        /\ state' \in [Timers!Timers -> {"idle", "armed", "over"}]
    BY <1>2 DEF Timers!Every, Timers!New, Timers!TypeOK
  <2>5. callbackRuns[f] = 0
    <3>1. place[f] = "none"
      BY <2>4 DEF Timers!TimerInv, Timers!FiringInv
    <3>2. QED
      BY <2>1, <3>1 DEF Timers!TimerInv, Timers!WaitingInv
  <2>6. \A u \in Timers!Timers \ {t} : Timers!Loop(u) # f /\ Timers!Loop(u) \in Timers!Firings
    BY LoopFiring DEF Timers!Loop
  <2> HIDE DEF f
  <2>7. Timers!TypeOK'
    BY <2>1, <2>2, <2>3, <2>4 DEF Timers!TypeOK, Timers!Place
  <2>8. Timers!FiringInv'
    <3>1. ASSUME NEW u \in Timers!Timers, NEW n \in 1 .. MaxTicks, n > ticks'[u]
          PROVE  place'[<<u, n>>] = "none"
      <4>1. <<u, n>> \in Timers!Firings
        BY DEF Timers!Firings
      <4>2. place[<<u, n>>] = "none"
        BY <2>3, <3>1 DEF Timers!TimerInv, Timers!FiringInv
      <4>3. QED
        BY <2>1, <2>2, <4>1, <4>2 DEF Timers!TypeOK
    <3>2. ASSUME NEW u \in Timers!Timers, state'[u] = "idle" PROVE place'[Timers!Loop(u)] = "none"
      <4>1. u # t /\ state[u] = "idle"
        BY <2>4, <3>2 DEF Timers!TypeOK
      <4>2. place[Timers!Loop(u)] = "none"
        BY <4>1 DEF Timers!TimerInv, Timers!FiringInv
      <4>3. QED
        BY <2>2, <2>6, <4>1, <4>2 DEF Timers!TypeOK
    <3>3. QED
      BY <3>1, <3>2 DEF Timers!FiringInv, Timers!Loop
  <2>9. Timers!WaitingInv'
    BY <2>1, <2>2, <2>3, <2>5 DEF Timers!TimerInv, Timers!WaitingInv, Timers!TypeOK
  <2>10. Timers!SilencedInv'
    <3> SUFFICES ASSUME NEW u \in silenced \ Intervals PROVE state'[u] = "over" /\ ticks'[u] = 0
      BY <2>3 DEF Timers!SilencedInv
    <3>1. state[u] = "over" /\ ticks[u] = 0 /\ u \in Timers!Timers
      BY DEF Timers!TimerInv, Timers!SilencedInv, Timers!TypeOK
    <3>2. QED
      BY <2>3, <2>4, <3>1 DEF Timers!TypeOK
  <2>11. QED
    BY <2>7, <2>8, <2>9, <2>10 DEF Timers!TimerInv
<1>3. CASE Timers!ClearTimeout(t) \/ Timers!ClearInterval(t) \/ Timers!RemoveJob(t)
  <2>1. /\ t \in timerTable /\ timerTable' = timerTable \ {t}
        /\ silenced' \in {silenced, silenced \cup {t}}
        /\ (silenced' # silenced => ticks[t] = 0)
        /\ UNCHANGED <<issued, ticks, place, callbackRuns, manager>>
    BY <1>3 DEF Timers!ClearTimeout, Timers!ClearInterval, Timers!RemoveJob, Timers!Remove
  <2>2. /\ closed' \subseteq Intervals
        /\ state' \in [Timers!Timers -> {"idle", "armed", "over"}]
        /\ (t \in Intervals \/ state'[t] = "over")
        /\ \A u \in Timers!Timers : state'[u] \in {state[u], "over"}
    BY <1>3 DEF Timers!ClearTimeout, Timers!ClearInterval, Timers!RemoveJob, Timers!TypeOK
  <2>3. ScriptMoves
    BY <2>1, <2>2 DEF ScriptMoves, Timers!TypeOK
  <2>4. QED
    BY <2>3, ScriptFrame
<1>4. QED
  BY <1>1, <1>2, <1>3 DEF Timers!Script

LEMMA PoolCloses ==
  ASSUME Timers!TypeOK, Timers!TimerInv, Timers!ClosePool
  PROVE  (Timers!TypeOK /\ Timers!TimerInv)'
<1>1. /\ UNCHANGED <<state, timerTable, issued, closed, silenced, ticks, callbackRuns>>
      /\ manager' = "closed"
      /\ place' = [f \in Timers!Firings |-> IF place[f] = "sending" THEN "panicked" ELSE place[f]]
  BY DEF Timers!ClosePool, Timers!timerVars
<1>2. Timers!TypeOK'
  BY <1>1 DEF Timers!TypeOK, Timers!Place
<1>3. \A f \in Timers!Firings : place'[f] = place[f] \/ (place'[f] = "panicked" /\ place[f] = "sending")
  BY <1>1
<1>4. Timers!FiringInv'
  <2>1. ASSUME NEW t \in Timers!Timers, NEW n \in 1 .. MaxTicks
        PROVE  <<t, n>> \in Timers!Firings /\ Timers!Loop(t) \in Timers!Firings
    BY RuntimeAssumption, LoopFiring DEF Timers!Firings
  <2>2. QED
    BY <1>1, <1>3, <2>1, LoopFiring DEF Timers!TimerInv, Timers!FiringInv, Timers!Loop
<1>5. Timers!WaitingInv'
  BY <1>1, <1>3 DEF Timers!TimerInv, Timers!WaitingInv
<1>6. Timers!SilencedInv'
  BY <1>1 DEF Timers!TimerInv, Timers!SilencedInv
<1>7. QED
  BY <1>2, <1>4, <1>5, <1>6 DEF Timers!TimerInv

LEMMA TimersStep ==
  ASSUME Timers!TypeOK, Timers!TimerInv, [Timers!Next]_(Timers!vars)
  PROVE  (Timers!TypeOK /\ Timers!TimerInv)'
<1>1. CASE Timers!ManagerShutdown \/ UNCHANGED Timers!vars
  <2>1. /\ UNCHANGED <<state, timerTable, issued, closed, silenced, ticks, place, callbackRuns>>
        /\ manager' \in {"off", "bare", "open", "closing", "closed"}
    BY <1>1 DEF Timers!ManagerShutdown, Timers!vars, Timers!timerVars, Timers!TypeOK
  <2>2. QED
    BY <2>1 DEF Timers!TypeOK, Timers!TimerInv, Timers!FiringInv, Timers!WaitingInv, Timers!SilencedInv,
                Timers!Loop
<1>2. QED
  BY <1>1, CallbackSteps, FiringSteps, ScriptSteps, PoolCloses DEF Timers!Next, Timers!Run

LEMMA ClearedSilent == Timers!TypeOK /\ Timers!TimerInv => ClearedNeverRuns
<1> SUFFICES ASSUME Timers!TypeOK, Timers!TimerInv,
                    NEW t \in silenced \ Intervals, NEW n \in 1 .. MaxTicks
             PROVE  callbackRuns[<<t, n>>] = 0
  BY DEF ClearedNeverRuns, Timers!ClearedNeverRuns
<1>1. t \in Timers!Timers /\ ticks[t] = 0
  BY DEF Timers!TypeOK, Timers!TimerInv, Timers!SilencedInv
<1>2. <<t, n>> \in Timers!Firings /\ n > ticks[t]
  BY <1>1, RuntimeAssumption DEF Timers!Firings
<1>3. place[<<t, n>>] = "none"
  BY <1>1, <1>2 DEF Timers!TimerInv, Timers!FiringInv
<1>4. QED
  BY <1>2, <1>3 DEF Timers!TimerInv, Timers!WaitingInv

(* A timeout or cron job that was cleared before it fired never runs its   *)
(* callback, not even from a queue of the pool: for any timers, any number *)
(* of firings and any pool.                                                *)
THEOREM ClearedTimersSilent == Timers!Spec => []ClearedNeverRuns
<1>1. Timers!TypeOK /\ Timers!TimerInv => ClearedNeverRuns
  BY ClearedSilent
<1>2. Timers!TypeOK /\ Timers!TimerInv /\ [Timers!Next]_(Timers!vars) => (Timers!TypeOK /\ Timers!TimerInv)'
  BY TimersStep
<1>3. QED
  BY <1>1, <1>2, TimersInit, PTL DEF Timers!Spec

-----------------------------------------------------------------------------
(* Suspension of the iavm machine.  The property rests on where a suspended *)
(* machine can be: no instruction runs while suspension is set, so the     *)
(* operands of a computing program are those its instructions left (Height)*)
(* and an await always finds the promise it takes.                         *)

LEMMA Heights ==
  ASSUME NEW code, NEW i \in Nat \ {0}
  PROVE  /\ Machine!Height(code, 1) = 0 /\ Machine!Height(code, i) \in Nat
         /\ Machine!Height(code, i + 1) = Machine!Height(code, i) + IF code[i].op = "await" THEN 0 ELSE 1
<1>1. \A S : Machine!Cardinality(S) = Cardinality(S)
  BY DEF Machine!Cardinality, Cardinality, Machine!IsFiniteSet, IsFiniteSet
<1> DEFINE H(n) == {j \in 1 .. n - 1 : code[j].op # "await"}
<1>2. \A n : Machine!Height(code, n) = Cardinality(H(n))
  BY <1>1 DEF Machine!Height
<1>3. H(1) = {}
  OBVIOUS
<1>4. IsFiniteSet(H(i)) /\ Cardinality(H(i)) \in Nat
  <2>1. IsFiniteSet(1 .. i - 1)
    BY FS_Interval
  <2>2. IsFiniteSet(H(i))
    BY <2>1, FS_Subset
  <2>3. QED
    BY <2>2, FS_CardinalityType
<1>5. CASE code[i].op = "await"
  <2>1. H(i + 1) = H(i)
    BY <1>5
  <2>2. QED
    BY <1>2, <1>3, <1>4, <1>5, <2>1, FS_EmptySet
<1>6. CASE code[i].op # "await"
  <2>1. H(i + 1) = H(i) \cup {i} /\ i \notin H(i)
    BY <1>6
  <2>2. Cardinality(H(i + 1)) = Cardinality(H(i)) + 1
    BY <1>4, <2>1, FS_AddElement
  <2>3. QED
    BY <1>2, <1>3, <1>4, <1>6, <2>2, FS_EmptySet
<1>7. QED
  BY <1>5, <1>6

LEMMA RunStarts == Machine!Init => Machine!TypeOK /\ Machine!RunInv
<1> SUFFICES ASSUME Machine!Init PROVE Machine!TypeOK /\ Machine!RunInv
  OBVIOUS
<1> USE RuntimeAssumption DEF Machine!Init
<1>1. machines = <<>> /\ promises = <<>> /\ suspension = 0 /\ phase = "new" /\ op = Machine!NoOp /\ call = "none"
  OBVIOUS
<1>2. Machine!TypeOK
  BY DEF Machine!TypeOK, Machine!HostState, Machine!Result, Machine!CtxState
<1>3. Machine!PromisesInv /\ Machine!MachinesInv
  BY <1>1 DEF Machine!PromisesInv, Machine!MachinesInv
<1>4. Machine!OpInv
  BY <1>1 DEF Machine!OpInv, Machine!NoOp, Machine!Things
<1>5. Machine!ComputeInv /\ Machine!SuspendInv
  BY <1>1 DEF Machine!ComputeInv, Machine!SuspendInv, Machine!Computing, Machine!NoOp
<1>6. QED
  BY <1>2, <1>3, <1>4, <1>5 DEF Machine!RunInv

(* The options, the call and its result.                                   *)
Simple ==
  /\ program \in Programs /\ setup \in Machine!Setups
  /\ host \in [Handles -> Machine!HostState]
  /\ call \in {"none", "run", "resume", "wait", "settle"}
  /\ phase \in {"new", "interpret", "wait", "op", "sleep", "idle"}
  /\ result \in Machine!Result
  /\ ctx \in [{"run", "wait"} -> Machine!CtxState]

LEMMA EachOf == ASSUME NEW T, NEW q \in Seq(T) PROVE DOMAIN q = 1 .. Len(q) /\ Len(q) \in Nat /\ \A i \in DOMAIN q : q[i] \in T
OBVIOUS

LEMMA MachineTyped ==
  ASSUME Machine!MachinesInv
  PROVE  /\ DOMAIN machines = 1 .. Len(machines) /\ Len(machines) \in Nat /\ Len(machines) <= 2
         /\ \A i \in DOMAIN machines :
              /\ machines[i] \in [fn : {"main", "async"}, ip : Nat, stack : Machine!Operands]
              /\ machines[i].fn = (IF i = 1 THEN "main" ELSE "async")
              /\ machines[i].ip \in 1 .. Len(Machine!Code(machines[i])) + 1
              /\ machines[i].stack \in Machine!Operands
<1>1. PICK T : T = [fn : {"main", "async"}, ip : Nat, stack : Machine!Operands]
  OBVIOUS
<1>2. machines \in Seq(T)
  BY <1>1 DEF Machine!MachinesInv
<1>3. DOMAIN machines = 1 .. Len(machines) /\ Len(machines) \in Nat /\ \A i \in DOMAIN machines : machines[i] \in T
  BY <1>2, EachOf
<1>4. \A i \in DOMAIN machines : machines[i].stack \in Machine!Operands
  BY <1>1, <1>3
<1>5. QED
  BY <1>1, <1>3, <1>4 DEF Machine!MachinesInv

LEMMA PromiseTyped ==
  ASSUME Machine!PromisesInv
  PROVE  /\ DOMAIN promises = 1 .. Len(promises) /\ Len(promises) \in Nat
         /\ \A p \in DOMAIN promises :
              /\ promises[p] \in [handle : Machine!Things, inner : Nat, status : Machine!HostState]
              /\ promises[p].status \in Machine!HostState /\ promises[p].handle \in Machine!Things
              /\ promises[p].inner \in Nat /\ promises[p].inner < p
<1>1. PICK T : T = [handle : Machine!Things, inner : Nat, status : Machine!HostState]
  OBVIOUS
<1>2. promises \in Seq(T)
  BY <1>1 DEF Machine!PromisesInv
<1>3. DOMAIN promises = 1 .. Len(promises) /\ Len(promises) \in Nat /\ \A i \in DOMAIN promises : promises[i] \in T
  BY <1>2, EachOf
<1>4. \A i \in DOMAIN promises : promises[i].inner < i
  BY DEF Machine!PromisesInv
<1>5. QED
  BY <1>1, <1>3, <1>4

LEMMA Typed ==
  ASSUME Machine!RunInv, Simple
  PROVE  Machine!TypeOK
<1>1. \A i \in DOMAIN machines :
       /\ machines[i].fn = IF i = 1 THEN "main" ELSE "async"
       /\ machines[i].ip \in 1 .. Len(Machine!Code(machines[i])) + 1
       /\ \A j \in DOMAIN machines[i].stack : machines[i].stack[j].promise \in 0 .. Len(promises)
  <2> SUFFICES ASSUME NEW i \in DOMAIN machines
               PROVE  \A j \in DOMAIN machines[i].stack : machines[i].stack[j].promise \in 0 .. Len(promises)
    BY MachineTyped DEF Machine!RunInv
  <2>1. machines[i].stack \in Seq([promise : 0 .. Len(promises), of : Machine!Things])
    BY MachineTyped DEF Machine!RunInv, Machine!Operands
  <2>2. PICK s, T : s = machines[i].stack /\ T = [promise : 0 .. Len(promises), of : Machine!Things]
    OBVIOUS
  <2>3. s \in Seq(T)
    BY <2>1, <2>2
  <2>4. \A j \in DOMAIN s : s[j] \in T
    BY <2>3, EachOf
  <2>5. QED
    BY <2>2, <2>4
<1>2. Len(machines) <= 2
  BY DEF Machine!RunInv, Machine!MachinesInv
<1>3. (\A p \in DOMAIN promises : promises[p].status \in Machine!HostState) /\ suspension \in 0 .. Len(promises)
  BY PromiseTyped DEF Machine!RunInv, Machine!SuspendInv
<1>4. op # Machine!NoOp => op.kind \in Machine!Kinds /\ op.attempt \in 0 .. RetryCount
  BY DEF Machine!RunInv, Machine!OpInv
<1>5. QED
  BY <1>1, <1>2, <1>3, <1>4 DEF Simple, Machine!TypeOK

LEMMA ReturnSimple ==
  ASSUME Simple, NEW r \in Machine!Result, Machine!Return(r)
  PROVE  /\ call' \in {"none", "run", "resume", "wait", "settle"}
         /\ phase' \in {"wait", "idle"} /\ result' \in Machine!Result
         /\ ctx' \in [{"run", "wait"} -> Machine!CtxState] /\ op' = Machine!NoOp
BY DEF Simple, Machine!Return, Machine!CtxState

LEMMA SimpleKept ==
  ASSUME Machine!TypeOK, [Machine!Next]_(Machine!vars)
  PROVE  Simple'
<1>0. Simple
  BY DEF Machine!TypeOK, Simple
<1>1. program' = program /\ setup' = setup /\ host' \in [Handles -> Machine!HostState]
  <2>1. \/ \E h \in Handles : Machine!HostCompletes(h)
        \/ host' = host /\ program' = program /\ setup' = setup
    BY DEF Machine!Next, Machine!vars, Machine!fixed, Machine!Proceed, Machine!Interpret, Machine!Answered,
       Machine!LoadLocal, Machine!HostOperation, Machine!CallAsync, Machine!FunctionEnds, Machine!AwaitSettled,
       Machine!AwaitPending, Machine!InterpretEnds, Machine!Polled, Machine!Called, Machine!StillPending,
       Machine!Settled, Machine!OpTimesOut, Machine!OpContextEnds, Machine!Wait, Machine!Sleep,
       Machine!WaitWokeEarly, Machine!OpFails, Machine!Fail, Machine!Retry, Machine!Run,
       Machine!ResumeSuspension, Machine!WaitSuspension, Machine!ContextEnds
  <2>2. QED
    BY <1>0, <2>1 DEF Simple, Machine!HostCompletes, Machine!HostState, Machine!fixed
<1> DEFINE Rest == /\ call' \in {"none", "run", "resume", "wait", "settle"}
                   /\ phase' \in {"new", "interpret", "wait", "op", "sleep", "idle"}
                   /\ result' \in Machine!Result
                   /\ ctx' \in [{"run", "wait"} -> Machine!CtxState]
<1>2. ASSUME NEW r \in Machine!Result, Machine!Return(r) PROVE Rest
  BY <1>0, <1>2, ReturnSimple
<1>3. {"done", "pending", "rejected", "error", "ended"} \subseteq Machine!Result
  BY DEF Machine!Result
<1>4. ASSUME UNCHANGED <<call, phase, result, ctx>> PROVE Rest
  BY <1>0, <1>4 DEF Simple
<1>5. ASSUME phase' \in {"interpret", "op", "sleep"}, UNCHANGED <<call, result, ctx>> PROVE Rest
  BY <1>0, <1>5 DEF Simple
<1>6. ASSUME Machine!Interpret PROVE Rest
  <2>1. ASSUME Machine!LoadLocal \/ Machine!CallAsync PROVE Rest
    BY <1>4, <2>1 DEF Machine!LoadLocal, Machine!CallAsync
  <2>2. ASSUME Machine!HostOperation PROVE Rest
    BY <1>5, <2>2 DEF Machine!HostOperation, Machine!BeginOp
  <2>3. ASSUME Machine!FunctionEnds \/ Machine!AwaitSettled \/ Machine!AwaitPending \/ Machine!InterpretEnds PROVE Rest
    <3>1. \/ \E r \in {"done", "pending", "rejected", "error", "ended"} : Machine!Return(r)
          \/ UNCHANGED <<call, phase, result, ctx>>
      BY <2>3 DEF Machine!FunctionEnds, Machine!AwaitSettled, Machine!AwaitPending, Machine!InterpretEnds
    <3>2. QED
      BY <1>2, <1>3, <1>4, <3>1
  <2>4. QED
    BY <1>6, <2>1, <2>2, <2>3 DEF Machine!Interpret
<1>7. ASSUME Machine!Wait \/ Machine!Sleep \/ Machine!StillPending \/ Machine!WaitWokeEarly \/ Machine!Settled PROVE Rest
  <2>1. \/ \E r \in {"done", "pending", "rejected", "error", "ended"} : Machine!Return(r)
        \/ phase' \in {"interpret", "op", "sleep"} /\ UNCHANGED <<call, result, ctx>>
    BY <1>7 DEF Machine!Wait, Machine!Sleep, Machine!StillPending, Machine!WaitWokeEarly, Machine!Settled,
         Machine!SettleAndResume, Machine!BeginOp
  <2>2. QED
    BY <1>2, <1>3, <1>5, <2>1
<1>8. ASSUME Machine!Polled \/ Machine!Called PROVE Rest
  BY <1>5, <1>8 DEF Machine!Polled, Machine!Called
<1>9. ASSUME Machine!OpTimesOut \/ Machine!OpFails \/ Machine!OpContextEnds PROVE Rest
  <2>1. \/ \E r \in {"done", "pending", "rejected", "error", "ended"} : Machine!Return(r)
        \/ UNCHANGED <<call, phase, result, ctx>>
    BY <1>9 DEF Machine!OpTimesOut, Machine!OpFails, Machine!OpContextEnds, Machine!Retry, Machine!Fail
  <2>2. QED
    BY <1>2, <1>3, <1>4, <2>1
<1>10. ASSUME Machine!Run("run") \/ Machine!Run("settle") \/ Machine!ResumeSuspension \/ Machine!WaitSuspension PROVE Rest
  <2>1. /\ call' \in {"run", "settle", "resume", "wait"} /\ phase' \in {"interpret", "op", "wait"}
        /\ result' = result
        /\ ctx' = ctx \/ \E c \in {"run", "wait"}, s \in {"none", "live"} : ctx' = [ctx EXCEPT ![c] = s]
    BY <1>10 DEF Machine!Run, Machine!ResumeSuspension, Machine!WaitSuspension, Machine!BeginOp
  <2>2. ctx' \in [{"run", "wait"} -> Machine!CtxState]
    BY <1>0, <2>1 DEF Simple, Machine!CtxState
  <2>3. QED
    BY <1>0, <2>1, <2>2 DEF Simple
<1>11. ASSUME \E h \in Handles : Machine!HostCompletes(h) PROVE Rest
  BY <1>4, <1>11 DEF Machine!HostCompletes
<1>12. ASSUME \E c \in {"run", "wait"} : Machine!ContextEnds(c) PROVE Rest
  <2>1. ctx' \in [{"run", "wait"} -> Machine!CtxState]
    BY <1>0, <1>12 DEF Machine!ContextEnds, Simple, Machine!CtxState
  <2>2. QED
    BY <1>0, <1>12, <2>1 DEF Machine!ContextEnds, Simple
<1>13. ASSUME UNCHANGED Machine!vars PROVE Rest
  BY <1>4, <1>13 DEF Machine!vars
<1>14. Rest
  BY <1>6, <1>7, <1>8, <1>9, <1>10, <1>11, <1>12, <1>13 DEF Machine!Next, Machine!Proceed, Machine!Answered
<1>15. QED
  BY <1>0, <1>1, <1>14 DEF Simple

(* Nothing of the run changes but its context or its host.                 *)
LEMMA RunUnmoved ==
  ASSUME Machine!RunInv, UNCHANGED <<program, call, phase, machines, promises, suspension, op>>
  PROVE  Machine!RunInv'
<1> USE DEF Machine!Things, Machine!Operands
<1>1. Machine!PromisesInv'
  BY DEF Machine!RunInv, Machine!PromisesInv
<1>2. Machine!MachinesInv'
  BY DEF Machine!RunInv, Machine!MachinesInv, Machine!Code
<1>3. Machine!OpInv'
  BY DEF Machine!RunInv, Machine!OpInv
<1>4. Machine!ComputeInv'
  BY DEF Machine!RunInv, Machine!ComputeInv, Machine!Computing, Machine!AtCall, Machine!Code, Machine!Top,
     Machine!InAsync, Machine!Instruction
<1>5. Machine!SuspendInv'
  BY DEF Machine!RunInv, Machine!SuspendInv, Machine!Code
<1>6. QED
  BY <1>1, <1>2, <1>3, <1>4, <1>5 DEF Machine!RunInv

LEMMA PromisesSame ==
  ASSUME Machine!PromisesInv, program' = program, promises' = promises
  PROVE  /\ Machine!Things' = Machine!Things /\ Machine!Operands' = Machine!Operands
         /\ Machine!PromisesInv' /\ \A m : Machine!Code(m)' = Machine!Code(m)
<1>1. Machine!Things' = Machine!Things
  BY DEF Machine!Things
<1>2. Machine!Operands' = Machine!Operands
  BY <1>1 DEF Machine!Operands
<1>3. QED
  BY <1>1, <1>2 DEF Machine!PromisesInv, Machine!Code

(* The machine of main alone is left.                                      *)
LEMMA Abandoned ==
  ASSUME Machine!PromisesInv, Machine!MachinesInv, program' = program, promises' = promises, machines # <<>>,
         machines' = machines \/ machines' = <<machines[1]>>, phase' # "new"
  PROVE  /\ Machine!MachinesInv' /\ machines' # <<>> /\ machines'[1] = machines[1]
         /\ Len(machines) = 1 => Len(machines') = 1
<1>1. PICK T : T = [fn : {"main", "async"}, ip : Nat, stack : Machine!Operands]
  OBVIOUS
<1>2. machines \in Seq(T) /\ machines[1] \in T /\ 1 \in DOMAIN machines
  <2>1. machines \in Seq(T)
    BY <1>1 DEF Machine!MachinesInv
  <2>2. QED
    BY <2>1
<1>3. /\ machines' \in Seq(T) /\ machines' # <<>> /\ machines'[1] = machines[1] /\ Len(machines') <= Len(machines)
      /\ Len(machines') \in Nat /\ \A i \in DOMAIN machines' : i \in DOMAIN machines /\ machines'[i] = machines[i]
      /\ Len(machines) = 1 => Len(machines') = 1
  <2>1. CASE machines' = machines
    BY <1>2, <2>1
  <2>2. CASE machines' = <<machines[1]>>
    <3>1. PICK x \in T : x = machines[1]
      BY <1>2
    <3>2. <<x>> \in Seq(T) /\ <<x>>[1] = x /\ Len(<<x>>) = 1 /\ DOMAIN <<x>> = {1}
      OBVIOUS
    <3>3. machines' = <<x>> /\ Len(machines) \in Nat \ {0}
      BY <1>2, <2>2, <3>1
    <3>4. QED
      BY <1>2, <3>1, <3>2, <3>3
  <2>3. QED
    BY <2>1, <2>2
<1>4. Machine!Operands' = Machine!Operands /\ \A m : Machine!Code(m)' = Machine!Code(m)
  BY PromisesSame
<1>5. \A i \in DOMAIN machines' :
        /\ machines'[i].fn = (IF i = 1 THEN "main" ELSE "async")
        /\ machines'[i].ip \in 1 .. Len(Machine!Code(machines'[i])) + 1
  BY <1>3, MachineTyped
<1>6. \A i \in DOMAIN machines' : machines'[i].ip \in 1 .. Len(Machine!Code(machines[i])') + 1
  BY <1>3, <1>4, MachineTyped
<1>7. \A i \in DOMAIN machines' : machines'[i].ip \in 1 .. Len(program'[machines'[i].fn]) + 1
  BY <1>5 DEF Machine!Code
<1>8. Len(machines') <= 2
  BY <1>2, <1>3, MachineTyped
<1>9. QED
  BY <1>1, <1>3, <1>4, <1>5, <1>7, <1>8 DEF Machine!MachinesInv, Machine!Code

(* A call returns, or the embedding program waits.                         *)
LEMMA StopKeeps ==
  ASSUME Machine!RunInv, program' = program, promises' = promises, machines # <<>>,
         machines' = machines \/ machines' = <<machines[1]>>,
         suspension' = suspension \/ suspension' = 0, op' = Machine!NoOp,
         phase' \in {"wait", "idle"} \/ (phase' = "sleep" /\ suspension' # 0)
  PROVE  Machine!RunInv'
<1>1. Machine!PromisesInv' /\ \A m : Machine!Code(m)' = Machine!Code(m)
  BY PromisesSame DEF Machine!RunInv
<1>2. Machine!MachinesInv' /\ machines'[1] = machines[1] /\ (Len(machines) = 1 => Len(machines') = 1)
  BY Abandoned DEF Machine!RunInv
<1>3. Machine!OpInv'
  BY DEF Machine!OpInv, Machine!NoOp
<1>4. Machine!ComputeInv'
  BY DEF Machine!ComputeInv, Machine!Computing, Machine!NoOp
<1>5. Machine!SuspendInv'
  BY <1>2 DEF Machine!RunInv, Machine!SuspendInv, Machine!Code
<1>6. QED
  BY <1>1, <1>2, <1>3, <1>4, <1>5 DEF Machine!RunInv

(* A suspension is waited for by an operation on its handle.               *)
LEMMA WaitKeeps ==
  ASSUME Machine!RunInv, NEW kind \in {"resume", "wait", "pollWait"}, suspension # 0, phase # "new",
         RetryCount \in Nat, Machine!BeginOp(kind, promises[suspension].handle),
         UNCHANGED <<program, machines, promises, suspension>>, kind = "resume" => call' = "resume"
  PROVE  Machine!RunInv'
<1>1. Machine!PromisesInv' /\ Machine!Things' = Machine!Things /\ \A m : Machine!Code(m)' = Machine!Code(m)
  BY PromisesSame DEF Machine!RunInv
<1>2. phase' = "op" /\ op' = [kind |-> kind, handle |-> promises[suspension].handle, attempt |-> 0]
  BY DEF Machine!BeginOp
<1>3. machines # <<>> /\ promises[suspension].handle \in Machine!Things
  BY PromiseTyped DEF Machine!RunInv, Machine!MachinesInv, Machine!SuspendInv
<1>4. Machine!MachinesInv'
  BY <1>2, <1>3, Abandoned DEF Machine!RunInv
<1>5. Machine!OpInv'
  <2>1. op' \in [kind : Machine!Kinds, handle : Machine!Things, attempt : 0 .. RetryCount]
    BY <1>2, <1>3 DEF Machine!Kinds
  <2>2. op' # Machine!NoOp
    BY <1>2 DEF Machine!NoOp
  <2>3. QED
    BY <1>1, <1>2, <2>1, <2>2 DEF Machine!OpInv
<1>6. Machine!ComputeInv'
  BY <1>2 DEF Machine!ComputeInv, Machine!Computing
<1>7. Machine!SuspendInv'
  BY DEF Machine!RunInv, Machine!SuspendInv, Machine!Code
<1>8. QED
  BY <1>1, <1>4, <1>5, <1>6, <1>7 DEF Machine!RunInv

LEMMA RetryKeeps ==
  ASSUME Machine!RunInv, RetryCount \in Nat, phase = "op", Machine!Retry
  PROVE  Machine!RunInv'
<1>1. /\ UNCHANGED <<program, call, phase, machines, promises, suspension>>
      /\ op' = [op EXCEPT !.attempt = op.attempt + 1] /\ op.attempt < RetryCount
  BY DEF Machine!Retry, Machine!fixed
<1>2. op # Machine!NoOp /\ op \in [kind : Machine!Kinds, handle : Machine!Things, attempt : 0 .. RetryCount]
  BY DEF Machine!RunInv, Machine!OpInv
<1>3. /\ op' \in [kind : Machine!Kinds, handle : Machine!Things, attempt : 0 .. RetryCount]
      /\ op'.kind = op.kind /\ op'.handle = op.handle
  BY <1>1, <1>2
<1>4. op' # Machine!NoOp
  BY <1>3 DEF Machine!NoOp, Machine!Kinds
<1>5. Machine!PromisesInv' /\ Machine!Things' = Machine!Things
  BY <1>1, PromisesSame DEF Machine!RunInv
<1>6. Machine!MachinesInv'
  BY <1>1, <1>5 DEF Machine!RunInv, Machine!MachinesInv, Machine!Operands, Machine!Code
<1>7. Machine!OpInv'
  BY <1>1, <1>2, <1>3, <1>4, <1>5 DEF Machine!RunInv, Machine!OpInv
<1>8. Machine!ComputeInv'
  BY <1>1, <1>3 DEF Machine!RunInv, Machine!ComputeInv, Machine!Computing, Machine!AtCall, Machine!Code,
     Machine!Top, Machine!InAsync, Machine!Instruction
<1>9. Machine!SuspendInv'
  BY <1>1 DEF Machine!RunInv, Machine!SuspendInv, Machine!Code
<1>10. QED
  BY <1>5, <1>6, <1>7, <1>8, <1>9 DEF Machine!RunInv

(* The instruction a machine is at, with its operands.                     *)
LEMMA CodeFormed ==
  ASSUME program \in Programs, Machine!MachinesInv, NEW i \in DOMAIN machines
  PROVE  /\ Machine!WellFormed(Machine!Code(machines[i]))
         /\ i # 1 => \A j \in DOMAIN Machine!Code(machines[i]) : Machine!Code(machines[i])[j].op # "async"
         /\ \A j \in DOMAIN Machine!Code(machines[i]) : Machine!Code(machines[i])[j].arg \in Machine!Things
<1>1. machines[i].fn = IF i = 1 THEN "main" ELSE "async"
  BY MachineTyped
<1>2. Machine!Code(machines[i]) = IF i = 1 THEN program.main ELSE program.async
  BY <1>1 DEF Machine!Code
<1>3. \A j \in DOMAIN program[machines[i].fn] : program[machines[i].fn][j].arg \in Machine!Things
  BY <1>1 DEF Machine!Things
<1>4. QED
  BY <1>1, <1>2, <1>3, ProgramsAssumption DEF Machine!Code

(* The machine on top, number n, is at an instruction of the kind name.    *)
AtStep(n, code, name) ==
  /\ n \in DOMAIN machines /\ n \in {1, 2} /\ suspension = 0
  /\ machines[n].ip \in DOMAIN code /\ machines[n].ip \in Nat \ {0} /\ code[machines[n].ip].op = name
  /\ code[machines[n].ip].arg \in Machine!Things /\ machines[n].stack \in Machine!Operands
  /\ Len(machines[n].stack) = Machine!Height(code, machines[n].ip) /\ Len(machines[n].stack) \in Nat
  /\ name = "await" => Machine!Height(code, machines[n].ip + 1) = Len(machines[n].stack)
  /\ name # "await" => Machine!Height(code, machines[n].ip + 1) = Len(machines[n].stack) + 1
  /\ Machine!WellFormed(code) /\ (n # 1 => name # "async")

LEMMA AtInstruction ==
  ASSUME program \in Programs, Machine!RunInv, Machine!Computing, NEW name, NEW n, n = Len(machines), n > 0,
         NEW code, code = Machine!Code(machines[n]), Machine!AtCall(machines[n], name)
  PROVE  AtStep(n, code, name)
<1>1. n \in DOMAIN machines /\ n \in {1, 2}
  BY MachineTyped DEF Machine!RunInv
<1>2. machines[n].ip \in DOMAIN code /\ machines[n].ip \in Nat \ {0} /\ code[machines[n].ip].op = name
  BY <1>1, MachineTyped DEF Machine!AtCall, Machine!RunInv
<1>3. machines[n].stack \in Machine!Operands
  BY <1>1, MachineTyped DEF Machine!RunInv
<1>4. suspension = 0 /\ Len(machines[n].stack) = Machine!Height(code, machines[n].ip)
  BY <1>1 DEF Machine!RunInv, Machine!ComputeInv
<1>5. /\ Machine!Height(code, machines[n].ip) \in Nat
      /\ Machine!Height(code, machines[n].ip + 1) =
           Machine!Height(code, machines[n].ip) + IF code[machines[n].ip].op = "await" THEN 0 ELSE 1
  BY <1>2, Heights
<1>6. /\ Machine!WellFormed(code) /\ (n # 1 => \A j \in DOMAIN code : code[j].op # "async")
      /\ \A j \in DOMAIN code : code[j].arg \in Machine!Things
  BY <1>1, CodeFormed DEF Machine!RunInv
<1>7. QED
  BY <1>1, <1>2, <1>3, <1>4, <1>5, <1>6 DEF AtStep

LEMMA LongerSeq ==
  ASSUME NEW S, NEW T, S \subseteq T, NEW q \in Seq(S)
  PROVE  q \in Seq(T)
OBVIOUS

LEMMA OperandsGrow ==
  ASSUME program' = program, Len(promises) \in Nat, Len(promises') \in Nat, Len(promises) <= Len(promises')
  PROVE  Machine!Operands \subseteq Machine!Operands' /\ Machine!Things' = Machine!Things
<1>1. Machine!Things' = Machine!Things
  BY DEF Machine!Things
<1>2. PICK S, T : /\ S = [promise : 0 .. Len(promises), of : Machine!Things]
                  /\ T = [promise : 0 .. Len(promises'), of : Machine!Things']
  OBVIOUS
<1>3. S \subseteq T
  BY <1>1, <1>2
<1>4. Seq(S) \subseteq Seq(T)
  BY <1>3, LongerSeq
<1>5. QED
  BY <1>1, <1>2, <1>4 DEF Machine!Operands

LEMMA LastReplaced ==
  ASSUME NEW T, NEW q \in Seq(T), NEW n, n = Len(q), n > 0, NEW m \in T
  PROVE  /\ [q EXCEPT ![n] = m] \in Seq(T) /\ Len([q EXCEPT ![n] = m]) = n
         /\ DOMAIN [q EXCEPT ![n] = m] = 1 .. n /\ [q EXCEPT ![n] = m][n] = m
         /\ \A i \in 1 .. n : i # n => [q EXCEPT ![n] = m][i] = q[i]
OBVIOUS

LEMMA MachineMoved ==
  ASSUME NEW F, NEW S, NEW m \in [fn : F, ip : Nat, stack : S], NEW s \in S,
         NEW t, t = [m EXCEPT !.ip = m.ip + 1, !.stack = s]
  PROVE  t \in [fn : F, ip : Nat, stack : S] /\ t.fn = m.fn /\ t.ip = m.ip + 1 /\ t.stack = s
<1>1. PICK x : x = [m EXCEPT !.ip = m.ip + 1]
  OBVIOUS
<1>2. x \in [fn : F, ip : Nat, stack : S] /\ x.fn = m.fn /\ x.ip = m.ip + 1
  BY <1>1
<1>3. t = [x EXCEPT !.stack = s]
  BY <1>1
<1>4. QED
  BY <1>2, <1>3

(* The machine on top goes on to its next instruction.                     *)
LEMMA AdvanceKeeps ==
  ASSUME program \in Programs, Machine!RunInv, Machine!PromisesInv', program' = program,
         Len(promises) <= Len(promises'), suspension' = suspension, suspension = 0,
         phase' = "interpret", op' = Machine!NoOp, Machine!Computing,
         NEW n, n = Len(machines), n > 0, NEW code, code = Machine!Code(machines[n]),
         machines[n].ip \in DOMAIN code, NEW stack \in Machine!Operands',
         machines' = [machines EXCEPT ![n].ip = @ + 1, ![n].stack = stack],
         Len(stack) = Machine!Height(code, machines[n].ip + 1)
  PROVE  Machine!RunInv'
<1>1. Machine!Operands \subseteq Machine!Operands' /\ Machine!Things' = Machine!Things
  BY PromiseTyped, OperandsGrow DEF Machine!RunInv, Machine!PromisesInv
<1>2. PICK S, T : /\ S = [fn : {"main", "async"}, ip : Nat, stack : Machine!Operands]
                  /\ T = [fn : {"main", "async"}, ip : Nat, stack : Machine!Operands']
  OBVIOUS
<1>3. S \subseteq T /\ machines \in Seq(S)
  BY <1>1, <1>2 DEF Machine!RunInv, Machine!MachinesInv
<1>4. machines \in Seq(T)
  BY <1>3, LongerSeq
<1>5. /\ n \in DOMAIN machines /\ n \in {1, 2} /\ DOMAIN machines = 1 .. n /\ machines[n] \in T
      /\ machines[n].ip \in Nat
  <2>1. n \in DOMAIN machines /\ n \in {1, 2} /\ DOMAIN machines = 1 .. n
    BY MachineTyped DEF Machine!RunInv
  <2>2. machines[n] \in T
    BY <1>4, <2>1, EachOf
  <2>3. QED
    BY <1>2, <2>1, <2>2
<1>6. PICK m : m = [machines[n] EXCEPT !.ip = machines[n].ip + 1, !.stack = stack]
  OBVIOUS
<1>7. /\ m \in T /\ m.fn = machines[n].fn /\ m.ip = machines[n].ip + 1 /\ m.stack = stack
  <2>1. PICK x : x = machines[n]
    OBVIOUS
  <2>2. x \in [fn : {"main", "async"}, ip : Nat, stack : Machine!Operands']
    BY <1>2, <1>5, <2>1
  <2>3. m = [x EXCEPT !.ip = x.ip + 1, !.stack = stack]
    BY <1>6, <2>1
  <2>4. /\ m \in [fn : {"main", "async"}, ip : Nat, stack : Machine!Operands'] /\ m.fn = x.fn
        /\ m.ip = x.ip + 1 /\ m.stack = stack
    <3>1. PICK F, S1 : F = {"main", "async"} /\ S1 = Machine!Operands'
      OBVIOUS
    <3>2. x \in [fn : F, ip : Nat, stack : S1] /\ stack \in S1
      BY <2>2, <3>1
    <3>3. m \in [fn : F, ip : Nat, stack : S1] /\ m.fn = x.fn /\ m.ip = x.ip + 1 /\ m.stack = stack
      BY <2>3, <3>2, MachineMoved
    <3>4. QED
      BY <3>1, <3>3
  <2>5. QED
    BY <1>2, <2>1, <2>4
<1>8. machines' = [machines EXCEPT ![n] = m]
  BY <1>5, <1>6
<1>9. /\ machines' \in Seq(T) /\ Len(machines') = n /\ DOMAIN machines' = 1 .. n /\ machines'[n] = m
      /\ \A i \in 1 .. n : i # n => machines'[i] = machines[i]
  <2>1. /\ [machines EXCEPT ![n] = m] \in Seq(T) /\ Len([machines EXCEPT ![n] = m]) = n
        /\ DOMAIN [machines EXCEPT ![n] = m] = 1 .. n /\ [machines EXCEPT ![n] = m][n] = m
        /\ \A i \in 1 .. n : i # n => [machines EXCEPT ![n] = m][i] = machines[i]
    <3>1. PICK q : q = machines
      OBVIOUS
    <3>2. q \in Seq(T) /\ n = Len(q) /\ n > 0 /\ m \in T
      BY <1>4, <1>7, <3>1
    <3>3. /\ [q EXCEPT ![n] = m] \in Seq(T) /\ Len([q EXCEPT ![n] = m]) = n
          /\ DOMAIN [q EXCEPT ![n] = m] = 1 .. n /\ [q EXCEPT ![n] = m][n] = m
          /\ \A i \in 1 .. n : i # n => [q EXCEPT ![n] = m][i] = q[i]
      BY <3>2, LastReplaced
    <3>4. QED
      BY <3>1, <3>3
  <2>2. QED
    BY <1>8, <2>1
<1>10. \A i \in 1 .. n : program'[machines'[i].fn] = Machine!Code(machines[i])
  BY <1>7, <1>9 DEF Machine!Code
<1>11. m.ip \in 1 .. Len(code) + 1
  <2>1. DOMAIN code = 1 .. Len(code) /\ Len(code) \in Nat
    BY <1>5, CodeFormed DEF Machine!RunInv, Machine!WellFormed
  <2>2. QED
    BY <1>7, <2>1
<1>12. Machine!MachinesInv'
  <2>1. machines' # <<>> /\ n <= 2
    BY <1>5, <1>9
  <2>2. \A i \in 1 .. n : /\ machines[i].fn = (IF i = 1 THEN "main" ELSE "async")
                          /\ machines[i].ip \in 1 .. Len(Machine!Code(machines[i])) + 1
    BY <1>5, MachineTyped DEF Machine!RunInv
  <2>3. \A i \in 1 .. n : /\ machines'[i].fn = (IF i = 1 THEN "main" ELSE "async")
                          /\ machines'[i].ip \in 1 .. Len(program'[machines'[i].fn]) + 1
    BY <1>7, <1>9, <1>10, <1>11, <2>2
  <2>4. machines' \in Seq([fn : {"main", "async"}, ip : Nat, stack : Machine!Operands'])
    BY <1>2, <1>9
  <2>5. QED
    BY <1>9, <2>1, <2>3, <2>4 DEF Machine!MachinesInv, Machine!Code
<1>13. Machine!OpInv'
  BY DEF Machine!OpInv, Machine!NoOp
<1>14. Machine!ComputeInv'
  <2>1. \A i \in 1 .. n : Len(machines[i].stack) = Machine!Height(Machine!Code(machines[i]), machines[i].ip)
    BY <1>5 DEF Machine!RunInv, Machine!ComputeInv
  <2>2. \A i \in 1 .. n : Len(machines'[i].stack) = Machine!Height(program'[machines'[i].fn], machines'[i].ip)
    BY <1>7, <1>9, <1>10, <2>1
  <2>3. n > 1 => /\ machines'[1] = machines[1] /\ program'[machines'[1].fn] = Machine!Code(machines[1])
                 /\ machines[1].ip \in DOMAIN Machine!Code(machines[1])
                 /\ Machine!Code(machines[1])[machines[1].ip].op = "async"
    BY <1>5, <1>9, <1>10 DEF Machine!RunInv, Machine!ComputeInv, Machine!InAsync, Machine!AtCall
  <2>4. \A c, k : Machine!Height(c, k)' = Machine!Height(c, k)
    BY DEF Machine!Height
  <2>5. QED
    BY <1>9, <2>2, <2>3 DEF Machine!ComputeInv, Machine!Code, Machine!AtCall, Machine!InAsync, Machine!NoOp,
       Machine!Height
<1>15. Machine!SuspendInv'
  BY DEF Machine!SuspendInv
<1>16. QED
  BY <1>12, <1>13, <1>14, <1>15 DEF Machine!RunInv

LEMMA AtOpIs ==
  ASSUME program \in Programs, Machine!RunInv, NEW name, Machine!AtOp(name)
  PROVE  /\ Len(machines) > 0 /\ machines # <<>> /\ Machine!AtCall(machines[Len(machines)], name)
         /\ Machine!Computing /\ phase = "interpret" /\ op = Machine!NoOp
         /\ Machine!Instruction = Machine!Code(machines[Len(machines)])[machines[Len(machines)].ip]
<1>1. phase = "interpret" /\ machines # <<>> /\ op = Machine!NoOp /\ Len(machines) \in Nat /\ Len(machines) > 0
  <2>1. phase = "interpret"
    BY DEF Machine!AtOp, Machine!Interpreting
  <2>2. machines # <<>> /\ op = Machine!NoOp
    BY <2>1 DEF Machine!RunInv, Machine!MachinesInv, Machine!OpInv
  <2>3. machines \in Seq([fn : {"main", "async"}, ip : Nat, stack : Machine!Operands])
    BY DEF Machine!RunInv, Machine!MachinesInv
  <2>4. QED
    BY <2>1, <2>2, <2>3
<1>2. PICK m, n : n = Len(machines) /\ m = machines[n]
  OBVIOUS
<1>3. m.ip <= Len(Machine!Code(m)) /\ Machine!Code(m)[m.ip].op = name
  BY <1>2 DEF Machine!AtOp, Machine!Top
<1>4. /\ m.ip \in 1 .. Len(Machine!Code(m)) + 1
      /\ DOMAIN Machine!Code(m) = 1 .. Len(Machine!Code(m)) /\ Len(Machine!Code(m)) \in Nat
  <2>1. n \in DOMAIN machines
    BY <1>1, <1>2, MachineTyped DEF Machine!RunInv
  <2>2. Machine!WellFormed(Machine!Code(machines[n])) /\ m.ip \in 1 .. Len(Machine!Code(m)) + 1
    BY <1>2, <2>1, CodeFormed, MachineTyped DEF Machine!RunInv
  <2>3. QED
    BY <1>2, <2>2 DEF Machine!WellFormed
<1>5. Machine!AtCall(m, name)
  BY <1>3, <1>4 DEF Machine!AtCall
<1>6. QED
  BY <1>1, <1>2, <1>5 DEF Machine!Computing, Machine!Instruction, Machine!Top

LEMMA Pushed ==
  ASSUME NEW T, NEW q \in Seq(T), NEW v \in T
  PROVE  Append(q, v) \in Seq(T) /\ Len(Append(q, v)) = Len(q) + 1
OBVIOUS

LEMMA AdvanceStep ==
  ASSUME program \in Programs, Machine!RunInv, Machine!PromisesInv', program' = program,
         Len(promises) <= Len(promises'), suspension' = suspension,
         phase' = "interpret", op' = Machine!NoOp, Machine!Computing, Len(machines) > 0,
         NEW name, name # "await", Machine!AtCall(machines[Len(machines)], name),
         NEW v \in [promise : 0 .. Len(promises'), of : Machine!Things], Machine!Advance(v)
  PROVE  Machine!RunInv'
<1>1. PICK n, code : n = Len(machines) /\ code = Machine!Code(machines[n])
  OBVIOUS
<1>2. /\ n \in DOMAIN machines /\ suspension = 0 /\ machines[n].ip \in DOMAIN code
      /\ machines[n].stack \in Machine!Operands /\ Len(machines[n].stack) \in Nat
      /\ Machine!Height(code, machines[n].ip + 1) = Len(machines[n].stack) + 1
  <2>1. /\ n = Len(machines) /\ n > 0 /\ code = Machine!Code(machines[n]) /\ Machine!AtCall(machines[n], name)
        /\ program \in Programs /\ Machine!RunInv /\ Machine!Computing
    BY <1>1
  <2>2. AtStep(n, code, name)
    BY <2>1, AtInstruction
  <2>3. QED
    BY <2>2 DEF AtStep
<1>3. PICK stack : stack = Append(machines[n].stack, v)
  OBVIOUS
<1>4. Machine!Operands \subseteq Machine!Operands' /\ Machine!Things' = Machine!Things
  BY PromiseTyped, OperandsGrow DEF Machine!RunInv, Machine!PromisesInv
<1>5. stack \in Machine!Operands' /\ Len(stack) = Len(machines[n].stack) + 1
  <2>1. PICK q, T : q = machines[n].stack /\ T = [promise : 0 .. Len(promises'), of : Machine!Things]
    OBVIOUS
  <2>2. q \in Seq(T)
    BY <1>2, <1>4, <2>1 DEF Machine!Operands
  <2>3. Append(q, v) \in Seq(T) /\ Len(Append(q, v)) = Len(q) + 1
    BY <2>1, <2>2, Pushed
  <2>4. QED
    BY <1>3, <1>4, <2>1, <2>3 DEF Machine!Operands
<1>6. machines' = [machines EXCEPT ![n].ip = @ + 1, ![n].stack = stack]
  BY <1>1, <1>2, <1>3 DEF Machine!Advance
<1>7. QED
  BY <1>1, <1>2, <1>5, <1>6, AdvanceKeeps

LEMMA LoadKeeps ==
  ASSUME program \in Programs, Machine!RunInv, Machine!LoadLocal
  PROVE  Machine!RunInv'
<1>1. PICK n, code : n = Len(machines) /\ code = Machine!Code(machines[n])
  OBVIOUS
<1>2. /\ n > 0 /\ Machine!AtCall(machines[n], "load") /\ Machine!Computing
      /\ phase = "interpret" /\ op = Machine!NoOp /\ Machine!Instruction = code[machines[n].ip]
  BY <1>1, AtOpIs DEF Machine!LoadLocal
<1>3. /\ n \in DOMAIN machines /\ suspension = 0 /\ machines[n].ip \in DOMAIN code /\ code[machines[n].ip].op = "load"
      /\ machines[n].stack \in Machine!Operands /\ Machine!WellFormed(code)
      /\ Len(machines[n].stack) = Machine!Height(code, machines[n].ip)
  <2>1. AtStep(n, code, "load")
    BY <1>1, <1>2, AtInstruction
  <2>2. QED
    BY <2>1 DEF AtStep
<1>4. PICK q, k, v : q = machines[n].stack /\ k = code[machines[n].ip].arg /\ v = q[k]
  OBVIOUS
<1>5. k \in 1 .. Len(q)
  BY <1>3, <1>4 DEF Machine!WellFormed
<1>6. v \in [promise : 0 .. Len(promises), of : Machine!Things]
  <2>1. PICK T : T = [promise : 0 .. Len(promises), of : Machine!Things]
    OBVIOUS
  <2>2. q \in Seq(T)
    BY <1>3, <1>4, <2>1 DEF Machine!Operands
  <2>3. q[k] \in T
    BY <1>5, <2>2
  <2>4. QED
    BY <1>4, <2>1, <2>3
<1>7. Machine!Advance(v)
  BY <1>1, <1>2, <1>4 DEF Machine!LoadLocal, Machine!Top
<1>8. /\ program' = program /\ promises' = promises /\ suspension' = suspension /\ phase' = "interpret"
      /\ op' = Machine!NoOp
  BY <1>2 DEF Machine!LoadLocal, Machine!fixed
<1>9. Machine!PromisesInv' /\ Len(promises) <= Len(promises')
  BY <1>8, PromisesSame, PromiseTyped DEF Machine!RunInv
<1>10. v \in [promise : 0 .. Len(promises'), of : Machine!Things]
  BY <1>6, <1>8
<1>11. QED
  BY <1>1, <1>2, <1>7, <1>8, <1>9, <1>10, AdvanceStep

(* An instruction that asks the host, and what it gets for it.             *)
LEMMA OperationKeeps ==
  ASSUME program \in Programs, Machine!RunInv, Machine!HostOperation, RetryCount \in Nat
  PROVE  Machine!RunInv'
<1>1. PICK kind \in {"poll", "call"} :
         Machine!AtOp(kind) /\ phase' = "op" /\ op' = [kind |-> kind, handle |-> Machine!Instruction.arg, attempt |-> 0]
  BY DEF Machine!HostOperation, Machine!BeginOp
<1>2. PICK n, code : n = Len(machines) /\ code = Machine!Code(machines[n])
  OBVIOUS
<1>3. /\ n > 0 /\ machines # <<>> /\ Machine!AtCall(machines[n], kind) /\ Machine!Computing
      /\ phase = "interpret" /\ op = Machine!NoOp /\ Machine!Instruction = code[machines[n].ip]
  BY <1>1, <1>2, AtOpIs
<1>4. AtStep(n, code, kind)
  BY <1>2, <1>3, AtInstruction
<1>5. UNCHANGED <<program, call, machines, promises, suspension>>
  BY DEF Machine!HostOperation, Machine!fixed
<1>6. Machine!PromisesInv' /\ Machine!Things' = Machine!Things
  BY <1>5, PromisesSame DEF Machine!RunInv
<1>7. Machine!MachinesInv'
  BY <1>1, <1>3, <1>5, Abandoned DEF Machine!RunInv
<1>8. Machine!OpInv'
  <2>1. op' \in [kind : Machine!Kinds, handle : Machine!Things, attempt : 0 .. RetryCount]
    BY <1>1, <1>3, <1>4 DEF AtStep, Machine!Kinds
  <2>2. op' # Machine!NoOp /\ op'.kind \notin {"resume", "wait", "pollWait"}
    BY <1>1 DEF Machine!NoOp
  <2>3. QED
    BY <1>1, <1>6, <2>1, <2>2 DEF Machine!OpInv
<1>9. Machine!ComputeInv'
  <2>1. Machine!AtCall(machines[n], op'.kind) /\ op'.handle = code[machines[n].ip].arg
    BY <1>1, <1>3
  <2>2. QED
    BY <1>2, <1>3, <1>5, <2>1 DEF Machine!RunInv, Machine!ComputeInv, Machine!AtCall, Machine!Code, Machine!Top,
       Machine!InAsync, Machine!Instruction, Machine!Height
<1>10. Machine!SuspendInv'
  BY <1>5 DEF Machine!RunInv, Machine!SuspendInv, Machine!Code
<1>11. QED
  BY <1>6, <1>7, <1>8, <1>9, <1>10 DEF Machine!RunInv

LEMMA OperationIs ==
  ASSUME program \in Programs, Machine!RunInv, NEW kind \in {"poll", "call"}, op.kind = kind
  PROVE  /\ Len(machines) > 0 /\ Machine!AtCall(machines[Len(machines)], kind) /\ Machine!Computing
         /\ AtStep(Len(machines), Machine!Code(machines[Len(machines)]), kind)
         /\ op.handle = Machine!Code(machines[Len(machines)])[machines[Len(machines)].ip].arg
         /\ op.handle \in Machine!Things /\ (kind = "poll" => op.handle \in Handles \cup Hanging)
<1>1. PICK n, code : n = Len(machines) /\ code = Machine!Code(machines[n])
  OBVIOUS
<1>2. Machine!Computing /\ phase = "op"
  BY DEF Machine!Computing, Machine!RunInv, Machine!OpInv, Machine!NoOp
<1>3. n \in Nat /\ n > 0
  <2>1. machines # <<>> /\ machines \in Seq([fn : {"main", "async"}, ip : Nat, stack : Machine!Operands])
    BY <1>2 DEF Machine!RunInv, Machine!MachinesInv
  <2>2. QED
    BY <1>1, <2>1
<1>4. Machine!AtCall(machines[n], kind) /\ op.handle = code[machines[n].ip].arg
  BY <1>1, <1>2 DEF Machine!RunInv, Machine!ComputeInv, Machine!Top, Machine!Instruction
<1>5. AtStep(n, code, kind)
  BY <1>1, <1>2, <1>3, <1>4, AtInstruction
<1>6. op.handle \in Machine!Things /\ (kind = "poll" => op.handle \in Handles \cup Hanging)
  BY <1>4, <1>5 DEF AtStep, Machine!WellFormed
<1>7. QED
  BY <1>1, <1>2, <1>3, <1>4, <1>5, <1>6

LEMMA CalledKeeps ==
  ASSUME program \in Programs, Machine!RunInv, Machine!Called
  PROVE  Machine!RunInv'
<1>1. op.kind = "call" /\ Machine!Advance(Machine!Plain(op.handle)) /\ phase' = "interpret" /\ op' = Machine!NoOp
  BY DEF Machine!Called
<1>2. program' = program /\ promises' = promises /\ suspension' = suspension
  BY DEF Machine!Called, Machine!fixed
<1>3. /\ Len(machines) > 0 /\ Machine!AtCall(machines[Len(machines)], "call") /\ Machine!Computing
      /\ op.handle \in Machine!Things
  BY <1>1, OperationIs
<1>4. PICK v : v = Machine!Plain(op.handle)
  OBVIOUS
<1>5. Machine!PromisesInv' /\ Len(promises) <= Len(promises') /\ Len(promises') \in Nat
  BY <1>2, PromisesSame, PromiseTyped DEF Machine!RunInv
<1>6. v \in [promise : 0 .. Len(promises'), of : Machine!Things]
  BY <1>3, <1>4, <1>5 DEF Machine!Plain
<1>7. Machine!Advance(v)
  BY <1>1, <1>4
<1>8. QED
  BY <1>1, <1>2, <1>3, <1>5, <1>6, <1>7, AdvanceStep

(* One promise more, of a handle of the host or one that is settled.       *)
LEMMA PromiseMade ==
  ASSUME Machine!RunInv, program' = program, NEW h \in Machine!Things, NEW s \in Machine!HostState,
         NEW k \in Nat, k <= Len(promises), s = "pending" => h \in Handles,
         promises' = Append(promises, [handle |-> h, inner |-> k, status |-> s])
  PROVE  /\ Machine!PromisesInv' /\ Len(promises') = Len(promises) + 1 /\ Len(promises) \in Nat
         /\ \A v : v = Machine!Promise(Len(promises) + 1) /\ None \in Machine!Things =>
              v \in [promise : 0 .. Len(promises'), of : Machine!Things]
<1>1. PICK T, r : /\ T = [handle : Machine!Things, inner : Nat, status : Machine!HostState]
                  /\ r = [handle |-> h, inner |-> k, status |-> s]
  OBVIOUS
<1>2. promises \in Seq(T) /\ r \in T /\ promises' = Append(promises, r) /\ r.handle = h /\ r.status = s /\ r.inner = k
  BY <1>1 DEF Machine!RunInv, Machine!PromisesInv
<1>3. /\ promises' \in Seq(T) /\ Len(promises') = Len(promises) + 1 /\ Len(promises) \in Nat
      /\ \A p \in DOMAIN promises' : (promises'[p] = r /\ p = Len(promises')) \/ (p \in DOMAIN promises /\ promises'[p] = promises[p])
  BY <1>2
<1>4. Machine!Things' = Machine!Things
  BY DEF Machine!Things
<1>5. \A p \in DOMAIN promises' : /\ promises'[p].inner < p
                                  /\ promises'[p].status = "pending" => promises'[p].handle \in Handles
  BY <1>2, <1>3 DEF Machine!RunInv, Machine!PromisesInv
<1>6. Machine!PromisesInv'
  BY <1>1, <1>3, <1>4, <1>5 DEF Machine!PromisesInv, Machine!HostState
<1>7. ASSUME NEW v, v = Machine!Promise(Len(promises) + 1), None \in Machine!Things
      PROVE  v \in [promise : 0 .. Len(promises'), of : Machine!Things]
  <2>1. v = [promise |-> Len(promises) + 1, of |-> None]
    BY <1>7 DEF Machine!Promise
  <2>2. Len(promises) + 1 \in 0 .. Len(promises')
    BY <1>3
  <2>3. QED
    BY <1>7, <2>1, <2>2
<1>8. QED
  BY <1>3, <1>6, <1>7

LEMMA PolledKeeps ==
  ASSUME Machine!TypeOK, Machine!RunInv, Machine!Polled
  PROVE  Machine!RunInv'
<1>0. program \in Programs /\ host \in [Handles -> Machine!HostState]
  BY DEF Machine!TypeOK
<1>1. PICK h, s, v : h = op.handle /\ s = host[h] /\ v = Machine!Promise(Len(promises) + 1)
  OBVIOUS
<1>2. /\ op.kind = "poll" /\ phase' = "interpret" /\ op' = Machine!NoOp /\ program' = program /\ suspension' = suspension
      /\ promises' = Append(promises, [handle |-> h, inner |-> 0, status |-> s]) /\ Machine!Advance(v) /\ h \notin Hanging
  BY <1>1 DEF Machine!Polled, Machine!fixed, Machine!Answering
<1>3. /\ Len(machines) > 0 /\ Machine!AtCall(machines[Len(machines)], "poll") /\ Machine!Computing
      /\ h \in Machine!Things /\ h \in Handles
  BY <1>0, <1>1, <1>2, OperationIs
<1>4. s \in Machine!HostState
  BY <1>0, <1>1, <1>3
<1>5. None \in Machine!Things
  BY DEF Machine!Things
<1>6. /\ Machine!PromisesInv' /\ Len(promises') = Len(promises) + 1 /\ Len(promises) \in Nat
      /\ v \in [promise : 0 .. Len(promises'), of : Machine!Things]
  <2>1. 0 \in Nat /\ 0 <= Len(promises)
    BY PromiseTyped DEF Machine!RunInv
  <2>2. QED
    BY <1>1, <1>2, <1>3, <1>4, <1>5, <2>1, PromiseMade
<1>7. Len(promises) <= Len(promises')
  BY <1>6
<1>8. QED
  BY <1>0, <1>2, <1>3, <1>6, <1>7, AdvanceStep

(* A run begins with the machine of main.                                  *)
LEMMA RunKeeps ==
  ASSUME program \in Programs, Machine!RunInv, NEW c, Machine!Run(c)
  PROVE  Machine!RunInv'
<1>1. /\ phase = "new" /\ phase' = "interpret" /\ machines' = <<Machine!NewMachine("main")>>
      /\ UNCHANGED <<program, promises, suspension, op>>
  BY DEF Machine!Run, Machine!fixed
<1>2. machines = <<>> /\ op = Machine!NoOp
  BY <1>1 DEF Machine!RunInv, Machine!MachinesInv, Machine!OpInv
<1>3. suspension = 0
  BY <1>2 DEF Machine!RunInv, Machine!SuspendInv
<1>4. Machine!PromisesInv' /\ Machine!Operands' = Machine!Operands /\ Machine!Things' = Machine!Things
  BY <1>1, PromisesSame DEF Machine!RunInv
<1>5. PICK m : m = Machine!NewMachine("main")
  OBVIOUS
<1>6. m.fn = "main" /\ m.ip = 1 /\ m.stack = <<>> /\ m \in [fn : {"main", "async"}, ip : Nat, stack : Machine!Operands]
  BY <1>5 DEF Machine!NewMachine, Machine!Operands
<1>7. machines' = <<m>>
  BY <1>1, <1>5
<1>8. Len(program.main) \in Nat
  BY ProgramsAssumption DEF Machine!WellFormed
<1>9. Machine!MachinesInv'
  <2>1. machines' \in Seq([fn : {"main", "async"}, ip : Nat, stack : Machine!Operands]) /\ Len(machines') = 1
    <3>1. PICK T : T = [fn : {"main", "async"}, ip : Nat, stack : Machine!Operands]
      OBVIOUS
    <3>2. m \in T
      BY <1>6, <3>1
    <3>3. <<m>> \in Seq(T) /\ Len(<<m>>) = 1
      BY <3>2
    <3>4. QED
      BY <1>7, <3>1, <3>3
  <2>2. \A i \in DOMAIN machines' : i = 1 /\ machines'[i] = m
    BY <1>7
  <2>3. 1 \in 1 .. Len(program'[m.fn]) + 1
    BY <1>1, <1>6, <1>8
  <2>4. QED
    BY <1>1, <1>4, <1>6, <2>1, <2>2, <2>3 DEF Machine!MachinesInv, Machine!Code
<1>10. Machine!OpInv'
  BY <1>1, <1>2 DEF Machine!OpInv, Machine!NoOp
<1>11. Machine!ComputeInv'
  <2>1. \A i \in DOMAIN machines' : machines'[i] = m
    BY <1>7
  <2>2. \A code : Machine!Height(code, 1)' = 0
    <3>1. \A code : Machine!Height(code, 1)' = Machine!Height(code, 1)
      BY DEF Machine!Height
    <3>2. 1 \in Nat \ {0}
      OBVIOUS
    <3>3. QED
      BY <3>1, <3>2, Heights
  <2>3. Len(machines') = 1 /\ Len(m.stack) = 0 /\ op'.kind = "none"
    BY <1>1, <1>2, <1>6, <1>7 DEF Machine!NoOp
  <2>4. QED
    BY <1>1, <1>3, <1>6, <2>1, <2>2, <2>3 DEF Machine!ComputeInv, Machine!InAsync
<1>12. Machine!SuspendInv'
  BY <1>1, <1>3 DEF Machine!SuspendInv
<1>13. QED
  BY <1>4, <1>9, <1>10, <1>11, <1>12 DEF Machine!RunInv

LEMMA TopIs ==
  ASSUME Machine!RunInv, phase # "new"
  PROVE  /\ machines # <<>> /\ Len(machines) > 0 /\ Len(machines) \in {1, 2}
         /\ 1 \in DOMAIN machines /\ Len(machines) \in DOMAIN machines
         /\ Machine!InAsync <=> Len(machines) = 2
<1>1. machines # <<>> /\ machines \in Seq([fn : {"main", "async"}, ip : Nat, stack : Machine!Operands])
  BY DEF Machine!RunInv, Machine!MachinesInv
<1>2. Len(machines) > 0
  BY <1>1
<1>3. DOMAIN machines = 1 .. Len(machines) /\ Len(machines) \in Nat /\ Len(machines) <= 2
  BY MachineTyped DEF Machine!RunInv
<1>4. QED
  BY <1>1, <1>2, <1>3 DEF Machine!InAsync

LEMMA FailKeeps ==
  ASSUME Machine!RunInv, phase # "new", NEW r, r # "pending", Machine!Fail(r)
  PROVE  Machine!RunInv'
<1>1. /\ program' = program /\ promises' = promises /\ machines' = <<machines[1]>>
      /\ suspension' = suspension \/ suspension' = 0
      /\ op' = Machine!NoOp /\ phase' \in {"wait", "idle"}
  BY DEF Machine!Fail, Machine!fixed, Machine!Return, Machine!Abandon
<1>2. machines # <<>>
  BY TopIs
<1>3. QED
  BY <1>1, <1>2, StopKeeps

LEMMA ReturnKeeps ==
  ASSUME Machine!RunInv, phase # "new", NEW r, Machine!Return(r), program' = program, promises' = promises,
         machines' = machines \/ machines' = <<machines[1]>>,
         suspension' = suspension \/ suspension' = 0
  PROVE  Machine!RunInv'
<1>1. op' = Machine!NoOp /\ phase' \in {"wait", "idle"}
  BY DEF Machine!Return
<1>2. machines # <<>>
  BY TopIs
<1>3. QED
  BY <1>1, <1>2, StopKeeps

LEMMA AnswerKeeps ==
  ASSUME RetryCount \in Nat, Machine!RunInv,
         \/ Machine!OpTimesOut \/ Machine!OpContextEnds \/ Machine!OpFails
         \/ Machine!StillPending \/ Machine!WaitWokeEarly \/ Machine!InterpretEnds
  PROVE  Machine!RunInv'
<1>1. ASSUME Machine!OpTimesOut \/ Machine!OpContextEnds \/ Machine!OpFails PROVE Machine!RunInv'
  <2>1. phase = "op" /\ (Machine!Retry \/ Machine!Fail("error") \/ Machine!Fail("ended"))
    BY <1>1 DEF Machine!OpTimesOut, Machine!OpContextEnds, Machine!OpFails, Machine!Answering
  <2>2. QED
    BY <2>1, RetryKeeps, FailKeeps
<1>2. ASSUME Machine!StillPending, op.kind = "pollWait" PROVE Machine!RunInv'
  <2>1. /\ phase = "op" /\ phase' = "sleep" /\ op' = Machine!NoOp
        /\ UNCHANGED <<program, machines, promises, suspension>>
    BY <1>2 DEF Machine!StillPending, Machine!Answering, Machine!fixed
  <2>2. suspension # 0 /\ machines # <<>>
    BY <1>2, <2>1, TopIs DEF Machine!RunInv, Machine!OpInv
  <2>3. QED
    BY <2>1, <2>2, StopKeeps
<1>3. ASSUME \/ Machine!StillPending /\ op.kind # "pollWait"
             \/ Machine!WaitWokeEarly
             \/ Machine!InterpretEnds
      PROVE  Machine!RunInv'
  <2>1. /\ phase # "new" /\ UNCHANGED <<program, machines, promises, suspension>>
        /\ Machine!Return("pending") \/ Machine!Return("ended")
    BY <1>3 DEF Machine!StillPending, Machine!WaitWokeEarly, Machine!InterpretEnds, Machine!Answering, Machine!fixed
  <2>2. QED
    BY <2>1, ReturnKeeps
<1>4. QED
  BY <1>1, <1>2, <1>3

LEMMA WaitingKeeps ==
  ASSUME RetryCount \in Nat, Machine!RunInv,
         Machine!Wait \/ Machine!Sleep \/ Machine!ResumeSuspension \/ Machine!WaitSuspension
  PROVE  Machine!RunInv'
<1>1. phase # "new" /\ UNCHANGED <<program, machines, promises, suspension>>
  BY DEF Machine!Wait, Machine!Sleep, Machine!ResumeSuspension, Machine!WaitSuspension, Machine!fixed
<1>2. ASSUME Machine!WaitSuspension PROVE Machine!RunInv'
  <2>1. phase' = "wait" /\ op' = op /\ phase = "idle"
    BY <1>2 DEF Machine!WaitSuspension
  <2>2. op' = Machine!NoOp /\ machines # <<>>
    BY <1>1, <2>1, TopIs DEF Machine!RunInv, Machine!OpInv
  <2>3. QED
    BY <1>1, <2>1, <2>2, StopKeeps
<1>3. ASSUME Machine!ResumeSuspension PROVE Machine!RunInv'
  <2>1. suspension # 0 /\ call' = "resume" /\ Machine!BeginOp("resume", promises[suspension].handle)
    BY <1>3 DEF Machine!ResumeSuspension
  <2>2. QED
    BY <1>1, <2>1, WaitKeeps
<1>4. ASSUME Machine!Wait \/ Machine!Sleep PROVE Machine!RunInv'
  <2>1. \/ Machine!Return("error") \/ Machine!Return("ended")
        \/ /\ suspension # 0
           /\ \/ Machine!BeginOp("wait", promises[suspension].handle)
              \/ Machine!BeginOp("pollWait", promises[suspension].handle)
    BY <1>4 DEF Machine!Wait, Machine!Sleep, Machine!RunInv, Machine!OpInv
  <2>2. QED
    BY <1>1, <2>1, ReturnKeeps, WaitKeeps
<1>5. QED
  BY <1>2, <1>3, <1>4

(* The answer that settles the promise that is waited for.                 *)
LEMMA WaitedIs ==
  ASSUME Machine!RunInv, phase = "op", op.kind \in {"resume", "wait", "pollWait"}
  PROVE  /\ suspension # 0 /\ suspension \in DOMAIN promises /\ op.handle = promises[suspension].handle
         /\ op.handle \in Handles /\ op.handle \in Machine!Things
         /\ Len(machines) = 1 /\ 1 \in DOMAIN machines
         /\ Len(machines[1].stack) + 1 = Machine!Height(Machine!Code(machines[1]), machines[1].ip)
<1>1. suspension # 0 /\ op.handle = promises[suspension].handle
  BY DEF Machine!RunInv, Machine!OpInv
<1>2. /\ suspension \in DOMAIN promises /\ promises[suspension].status = "pending" /\ Len(machines) = 1
      /\ Len(machines[1].stack) + 1 = Machine!Height(Machine!Code(machines[1]), machines[1].ip)
  BY <1>1 DEF Machine!RunInv, Machine!SuspendInv
<1>3. op.handle \in Handles /\ op.handle \in Machine!Things
  BY <1>1, <1>2, PromiseTyped DEF Machine!RunInv, Machine!PromisesInv
<1>4. QED
  BY <1>1, <1>2, <1>3, TopIs

(* The promises u are q with another status of the n-th.                   *)
IsStatusSet(u, q, n, s) ==
  /\ Len(u) = Len(q) /\ DOMAIN u = DOMAIN q /\ u[n].status = s
  /\ \A i \in DOMAIN q : u[i].handle = q[i].handle /\ u[i].inner = q[i].inner /\ (i # n => u[i] = q[i])

LEMMA StatusSet ==
  ASSUME NEW T, NEW S, NEW q, q \in Seq([handle : T, inner : Nat, status : S]), NEW n, n \in DOMAIN q, NEW s, s \in S,
         NEW u, u = [q EXCEPT ![n].status = s]
  PROVE  u \in Seq([handle : T, inner : Nat, status : S]) /\ IsStatusSet(u, q, n, s)
<1>1. PICK R : R = [handle : T, inner : Nat, status : S]
  OBVIOUS
<1>2. PICK r : r = [q[n] EXCEPT !.status = s]
  OBVIOUS
<1>3. q[n] \in R /\ q \in Seq(R) /\ n \in DOMAIN q /\ DOMAIN q = 1 .. Len(q) /\ Len(q) \in Nat
  <2>1. q \in Seq(R)
    BY <1>1
  <2>2. QED
    BY <2>1, EachOf
<1>4. r \in R /\ r.status = s /\ r.handle = q[n].handle /\ r.inner = q[n].inner
  BY <1>1, <1>2, <1>3
<1>5. u = [q EXCEPT ![n] = r]
  BY <1>2, <1>3
<1>6. /\ u \in Seq(R) /\ Len(u) = Len(q) /\ DOMAIN u = DOMAIN q /\ u[n] = r
      /\ \A i \in DOMAIN q : i # n => u[i] = q[i]
  <2>1. q \in Seq(R) /\ n \in DOMAIN q /\ r \in R /\ DOMAIN q = 1 .. Len(q)
    BY <1>3, <1>4
  <2>2. QED
    BY <1>5, <2>1
<1>7. QED
  BY <1>1, <1>4, <1>6 DEF IsStatusSet

LEMMA FrontIs ==
  ASSUME NEW T, NEW q \in Seq(T), Len(q) > 0
  PROVE  /\ Machine!Front(q) \in Seq(T) /\ Len(Machine!Front(q)) + 1 = Len(q)
         /\ Machine!Last(q) \in T
<1>1. DOMAIN q = 1 .. Len(q) /\ Len(q) \in Nat /\ \A i \in DOMAIN q : q[i] \in T
  BY EachOf
<1>2. Machine!Last(q) \in T
  BY <1>1 DEF Machine!Last
<1>3. PICK k : k = Len(q) - 1
  OBVIOUS
<1>4. k \in Nat /\ k + 1 = Len(q) /\ \A i \in 1 .. k : q[i] \in T
  BY <1>1, <1>3
<1>5. SubSeq(q, 1, k) \in Seq(T) /\ Len(SubSeq(q, 1, k)) = k
  BY <1>1, <1>4
<1>6. Machine!Front(q) = SubSeq(q, 1, k)
  BY <1>3 DEF Machine!Front
<1>7. QED
  BY <1>2, <1>4, <1>5, <1>6

(* The machine of main alone.                                              *)
LEMMA OneMachine ==
  ASSUME program \in Programs, program' = program, phase' # "new", NEW m, machines' = <<m>>,
         m \in [fn : {"main", "async"}, ip : Nat, stack : Machine!Operands'], m.fn = "main",
         m.ip \in 1 .. Len(program.main) + 1
  PROVE  Machine!MachinesInv' /\ Len(machines') = 1 /\ machines'[1] = m /\ DOMAIN machines' = {1}
<1>1. PICK T : T = [fn : {"main", "async"}, ip : Nat, stack : Machine!Operands']
  OBVIOUS
<1>2. machines' \in Seq(T) /\ Len(machines') = 1 /\ machines'[1] = m /\ DOMAIN machines' = {1} /\ machines' # <<>>
  <2>1. m \in T
    BY <1>1
  <2>2. <<m>> \in Seq(T) /\ Len(<<m>>) = 1 /\ <<m>>[1] = m /\ DOMAIN <<m>> = {1} /\ <<m>> # <<>>
    BY <2>1
  <2>3. QED
    BY <2>2
<1>3. \A i \in DOMAIN machines' : /\ machines'[i].fn = (IF i = 1 THEN "main" ELSE "async")
                                  /\ machines'[i].ip \in 1 .. Len(program'[machines'[i].fn]) + 1
  BY <1>2
<1>4. machines' \in Seq([fn : {"main", "async"}, ip : Nat, stack : Machine!Operands']) /\ Len(machines') <= 2
  BY <1>1, <1>2
<1>5. QED
  BY <1>2, <1>3, <1>4 DEF Machine!MachinesInv, Machine!Code

LEMMA OneComputes ==
  ASSUME program \in Programs, program' = program, Machine!PromisesInv', NEW m, machines' = <<m>>,
         m \in [fn : {"main", "async"}, ip : Nat, stack : Machine!Operands'], m.fn = "main",
         m.ip \in 1 .. Len(program.main) + 1, Len(m.stack) = Machine!Height(program.main, m.ip),
         phase' = "interpret", op' = Machine!NoOp, suspension' = 0
  PROVE  Machine!RunInv'
<1>1. Machine!MachinesInv' /\ Len(machines') = 1 /\ machines'[1] = m /\ DOMAIN machines' = {1}
  BY OneMachine
<1>2. Machine!OpInv'
  BY DEF Machine!OpInv, Machine!NoOp
<1>3. Machine!ComputeInv'
  <2>1. \A i \in DOMAIN machines' : /\ machines'[i] = m
                                    /\ program'[machines'[i].fn] = program.main
    BY <1>1
  <2>2. QED
    <3>1. \A i \in DOMAIN machines' : Len(machines'[i].stack) = Machine!Height(program'[machines'[i].fn], machines'[i].ip)
      BY <1>1, <2>1
    <3>2. ~(Len(machines') > 1) /\ op'.kind = "none"
      BY <1>1 DEF Machine!NoOp
    <3>3. QED
      BY <3>1, <3>2 DEF Machine!ComputeInv, Machine!InAsync, Machine!Code, Machine!Height
<1>4. Machine!SuspendInv'
  BY DEF Machine!SuspendInv
<1>5. QED
  BY <1>1, <1>2, <1>3, <1>4 DEF Machine!RunInv

LEMMA MainCode ==
  ASSUME program \in Programs
  PROVE  DOMAIN program.main = 1 .. Len(program.main) /\ Len(program.main) \in Nat
BY ProgramsAssumption DEF Machine!WellFormed

LEMMA MainIs ==
  ASSUME Machine!MachinesInv, 1 \in DOMAIN machines
  PROVE  /\ machines[1] \in [fn : {"main", "async"}, ip : Nat, stack : Machine!Operands]
         /\ machines[1].fn = "main" /\ machines[1].ip \in Nat \ {0} /\ machines[1].stack \in Machine!Operands
         /\ machines[1].ip \in 1 .. Len(program.main) + 1 /\ Machine!Code(machines[1]) = program.main
<1>1. /\ machines[1] \in [fn : {"main", "async"}, ip : Nat, stack : Machine!Operands]
      /\ machines[1].fn = "main" /\ machines[1].stack \in Machine!Operands
      /\ machines[1].ip \in 1 .. Len(Machine!Code(machines[1])) + 1
  BY MachineTyped
<1>2. Machine!Code(machines[1]) = program.main
  BY <1>1 DEF Machine!Code
<1>3. machines[1].ip \in Nat
  BY <1>1
<1>4. QED
  BY <1>1, <1>2, <1>3

LEMMA SecondPushed ==
  ASSUME NEW T, NEW q \in Seq(T), Len(q) = 1, NEW m \in T
  PROVE  /\ Append(q, m) \in Seq(T) /\ Len(Append(q, m)) = 2 /\ DOMAIN Append(q, m) = 1 .. 2
         /\ Append(q, m)[1] = q[1] /\ Append(q, m)[2] = m
<1>1. Append(q, m) \in Seq(T) /\ Len(Append(q, m)) = Len(q) + 1
  BY Pushed
<1>2. \A i \in 1 .. Len(q) : Append(q, m)[i] = q[i]
  BY AppendProperties
<1>3. Append(q, m)[Len(q) + 1] = m
  BY AppendProperties
<1>4. QED
  BY <1>1, <1>2, <1>3, EachOf

LEMMA CallAsyncKeeps ==
  ASSUME program \in Programs, Machine!RunInv, Machine!CallAsync
  PROVE  Machine!RunInv'
<1>1. PICK n, code : n = Len(machines) /\ code = Machine!Code(machines[n])
  OBVIOUS
<1>2. /\ n > 0 /\ Machine!AtCall(machines[n], "async") /\ Machine!Computing
      /\ phase = "interpret" /\ op = Machine!NoOp
  BY <1>1, AtOpIs DEF Machine!CallAsync
<1>3. AtStep(n, code, "async")
  BY <1>1, <1>2, AtInstruction
<1>4. n = 1 /\ suspension = 0
  BY <1>3 DEF AtStep
<1>5. PICK m : m = Machine!NewMachine("async")
  OBVIOUS
<1>6. /\ machines' = Append(machines, m) /\ phase' = "interpret" /\ op' = Machine!NoOp
      /\ UNCHANGED <<program, promises, suspension>>
  BY <1>2, <1>5 DEF Machine!CallAsync, Machine!fixed
<1>7. Machine!PromisesInv' /\ Machine!Operands' = Machine!Operands /\ Machine!Things' = Machine!Things
  BY <1>6, PromisesSame DEF Machine!RunInv
<1>8. PICK T : T = [fn : {"main", "async"}, ip : Nat, stack : Machine!Operands]
  OBVIOUS
<1>9. m \in T /\ m.fn = "async" /\ m.ip = 1 /\ m.stack = <<>>
  BY <1>5, <1>8 DEF Machine!NewMachine, Machine!Operands
<1>10. /\ machines' \in Seq(T) /\ Len(machines') = 2 /\ DOMAIN machines' = {1, 2} /\ machines' # <<>>
       /\ machines'[1] = machines[1] /\ machines'[2] = m
  <2>1. machines \in Seq(T) /\ Len(machines) = 1
    BY <1>1, <1>4, <1>8 DEF Machine!RunInv, Machine!MachinesInv
  <2>2. /\ Append(machines, m) \in Seq(T) /\ Len(Append(machines, m)) = 2 /\ DOMAIN Append(machines, m) = 1 .. 2
        /\ Append(machines, m)[1] = machines[1] /\ Append(machines, m)[2] = m /\ Append(machines, m) # <<>>
    <3>1. PICK q : q = machines
      OBVIOUS
    <3>2. q \in Seq(T) /\ Len(q) = 1 /\ m \in T
      BY <1>9, <2>1, <3>1
    <3>3. /\ Append(q, m) \in Seq(T) /\ Len(Append(q, m)) = 2 /\ DOMAIN Append(q, m) = 1 .. 2
          /\ Append(q, m)[1] = q[1] /\ Append(q, m)[2] = m
      BY <3>2, SecondPushed
    <3>4. Append(q, m) # <<>>
      BY <3>3
    <3>5. QED
      BY <3>1, <3>3, <3>4
  <2>3. QED
    BY <1>6, <2>2
<1>11. /\ machines[1].fn = "main" /\ machines[1].ip \in 1 .. Len(program.main) + 1
       /\ Machine!Code(machines[1]) = program.main
  <2>1. 1 \in DOMAIN machines
    BY <1>3, <1>4 DEF AtStep
  <2>2. QED
    BY <2>1, MainIs DEF Machine!RunInv
<1>12. Len(program.async) \in Nat
  BY ProgramsAssumption DEF Machine!WellFormed
<1>13. Machine!MachinesInv'
  <2>1. \A i \in DOMAIN machines' : /\ machines'[i].fn = (IF i = 1 THEN "main" ELSE "async")
                                    /\ machines'[i].ip \in 1 .. Len(program'[machines'[i].fn]) + 1
    BY <1>6, <1>9, <1>10, <1>11, <1>12
  <2>2. machines' \in Seq([fn : {"main", "async"}, ip : Nat, stack : Machine!Operands']) /\ Len(machines') <= 2
    BY <1>7, <1>8, <1>10
  <2>3. QED
    BY <1>6, <1>10, <2>1, <2>2 DEF Machine!MachinesInv, Machine!Code
<1>14. Machine!OpInv'
  BY <1>6 DEF Machine!OpInv, Machine!NoOp
<1>15. Machine!ComputeInv'
  <2>1. Len(machines[1].stack) = Machine!Height(program.main, machines[1].ip) /\ machines[1].ip \in DOMAIN program.main
        /\ program.main[machines[1].ip].op = "async"
    BY <1>1, <1>3, <1>4, <1>11 DEF AtStep
  <2>2. Machine!Height(program.async, 1) = 0
    <3>1. 1 \in Nat \ {0}
      OBVIOUS
    <3>2. QED
      BY <3>1, Heights
  <2>3. Len(m.stack) = 0
    BY <1>9
  <2>4. \A i \in DOMAIN machines' : Len(machines'[i].stack) = Machine!Height(program'[machines'[i].fn], machines'[i].ip)
    BY <1>6, <1>9, <1>10, <1>11, <2>1, <2>2, <2>3
  <2>5. machines'[1].ip \in DOMAIN program'[machines'[1].fn] /\ program'[machines'[1].fn][machines'[1].ip].op = "async"
    BY <1>6, <1>10, <1>11, <2>1
  <2>6. QED
    BY <1>4, <1>6, <1>10, <2>4, <2>5 DEF Machine!ComputeInv, Machine!InAsync, Machine!NoOp, Machine!Code, Machine!AtCall,
       Machine!Height
<1>16. Machine!SuspendInv'
  BY <1>4, <1>6 DEF Machine!SuspendInv
<1>17. QED
  BY <1>7, <1>13, <1>14, <1>15, <1>16 DEF Machine!RunInv

(* The function of a machine ends: the program, or an async function, whose *)
(* value becomes the promise that main gets.                                *)
LEMMA FunctionEndsKeeps ==
  ASSUME program \in Programs, Machine!RunInv, Machine!FunctionEnds
  PROVE  Machine!RunInv'
<1>0. /\ phase = "interpret" /\ program' = program /\ suspension' = suspension /\ machines # <<>>
      /\ Len(machines) \in {1, 2} /\ 1 \in DOMAIN machines /\ Len(machines) \in DOMAIN machines
      /\ Machine!InAsync <=> Len(machines) = 2
  <2>1. phase = "interpret" /\ program' = program /\ suspension' = suspension
    BY DEF Machine!FunctionEnds, Machine!Interpreting, Machine!fixed
  <2>2. QED
    BY <2>1, TopIs
<1>1. ASSUME ~Machine!InAsync PROVE Machine!RunInv'
  <2>1. Machine!Return("done") /\ machines' = machines /\ promises' = promises
    BY <1>1 DEF Machine!FunctionEnds
  <2>2. QED
    BY <1>0, <2>1, ReturnKeeps
<1>2. ASSUME Machine!InAsync PROVE Machine!RunInv'
  <2>1. PICK y, h, k, x, v :
          /\ y = IF Machine!Top.stack = <<>> THEN Machine!Plain(None) ELSE Machine!Last(Machine!Top.stack)
          /\ h = y.of /\ k = y.promise /\ x = machines[1] /\ v = Machine!Promise(Len(promises) + 1)
    OBVIOUS
  <2>2. PICK stack : stack = Append(x.stack, v)
    OBVIOUS
  <2>3. PICK m : m = [x EXCEPT !.ip = x.ip + 1, !.stack = stack]
    OBVIOUS
  <2>4. /\ promises' = Append(promises, [handle |-> h, inner |-> k, status |-> "ready"]) /\ machines' = <<m>>
        /\ phase' = phase /\ op' = op
    BY <1>2, <2>1, <2>2, <2>3 DEF Machine!FunctionEnds
  <2>5. op = Machine!NoOp /\ suspension = 0 /\ Machine!AtCall(machines[1], "async")
    BY <1>0, <1>2 DEF Machine!RunInv, Machine!OpInv, Machine!ComputeInv, Machine!Computing
  <2>6. h \in Machine!Things /\ k \in Nat /\ k <= Len(promises)
    <3>1. PICK q, T : q = machines[Len(machines)].stack /\ T = [promise : 0 .. Len(promises), of : Machine!Things]
      OBVIOUS
    <3>2. q \in Seq(T)
      BY <1>0, <3>1, MachineTyped DEF Machine!RunInv, Machine!Operands
    <3>3. Machine!Plain(None) \in T
      <4>1. None \in Machine!Things /\ 0 \in 0 .. Len(promises)
        BY PromiseTyped DEF Machine!Things, Machine!RunInv
      <4>2. QED
        BY <3>1, <4>1 DEF Machine!Plain
    <3>4. ASSUME q # <<>> PROVE Machine!Last(q) \in T
      <4>1. Len(q) > 0
        BY <3>2, <3>4
      <4>2. QED
        BY <3>2, <4>1, FrontIs
    <3>5. y \in T
      BY <2>1, <3>1, <3>3, <3>4 DEF Machine!Top
    <3>6. QED
      BY <2>1, <3>1, <3>5
  <2>7. /\ Machine!PromisesInv' /\ Len(promises') = Len(promises) + 1 /\ Len(promises) \in Nat
        /\ v \in [promise : 0 .. Len(promises'), of : Machine!Things]
    <3>1. None \in Machine!Things /\ "ready" \in Machine!HostState /\ "ready" # "pending"
      BY DEF Machine!Things, Machine!HostState
    <3>2. QED
      BY <1>0, <2>1, <2>4, <2>6, <3>1, PromiseMade
  <2>8. Machine!Operands \subseteq Machine!Operands' /\ Machine!Things' = Machine!Things
    BY <1>0, <2>7, OperandsGrow
  <2>9. /\ x \in [fn : {"main", "async"}, ip : Nat, stack : Machine!Operands] /\ x.fn = "main"
        /\ x.ip \in Nat \ {0} /\ x.stack \in Machine!Operands /\ x.ip \in DOMAIN program.main
        /\ program.main[x.ip].op = "async"
        /\ Len(x.stack) = Machine!Height(program.main, x.ip)
    <3>1. /\ x \in [fn : {"main", "async"}, ip : Nat, stack : Machine!Operands] /\ x.fn = "main"
          /\ x.ip \in Nat \ {0} /\ x.stack \in Machine!Operands /\ Machine!Code(x) = program.main
      BY <1>0, <2>1, MainIs DEF Machine!RunInv
    <3>2. Len(x.stack) = Machine!Height(Machine!Code(x), x.ip)
      BY <1>0, <2>1 DEF Machine!RunInv, Machine!ComputeInv, Machine!Computing
    <3>3. QED
      BY <2>1, <2>5, <3>1, <3>2 DEF Machine!AtCall
  <2>10. stack \in Machine!Operands' /\ Len(stack) = Len(x.stack) + 1
    <3>1. PICK q, T : q = x.stack /\ T = [promise : 0 .. Len(promises'), of : Machine!Things]
      OBVIOUS
    <3>2. q \in Seq(T) /\ v \in T
      BY <2>7, <2>8, <2>9, <3>1 DEF Machine!Operands
    <3>3. Append(q, v) \in Seq(T) /\ Len(Append(q, v)) = Len(q) + 1
      BY <3>2, Pushed
    <3>4. QED
      BY <2>2, <2>8, <3>1, <3>3 DEF Machine!Operands
  <2>11. /\ m \in [fn : {"main", "async"}, ip : Nat, stack : Machine!Operands'] /\ m.fn = "main"
         /\ m.ip = x.ip + 1 /\ m.stack = stack
    <3>1. PICK F, S : F = {"main", "async"} /\ S = Machine!Operands'
      OBVIOUS
    <3>2. x \in [fn : F, ip : Nat, stack : S] /\ stack \in S
      BY <2>8, <2>9, <2>10, <3>1
    <3>3. m \in [fn : F, ip : Nat, stack : S] /\ m.fn = x.fn /\ m.ip = x.ip + 1 /\ m.stack = stack
      BY <2>3, <3>2, MachineMoved
    <3>4. QED
      BY <2>9, <3>1, <3>3
  <2>12. m.ip \in 1 .. Len(program.main) + 1
    BY <2>9, <2>11, MainCode
  <2>13. Len(m.stack) = Machine!Height(program.main, m.ip)
    <3>1. /\ Machine!Height(program.main, x.ip) \in Nat
          /\ Machine!Height(program.main, x.ip + 1) =
               Machine!Height(program.main, x.ip) + IF program.main[x.ip].op = "await" THEN 0 ELSE 1
      BY <2>9, Heights
    <3>2. QED
      BY <2>9, <2>10, <2>11, <3>1
  <2>14. phase' = "interpret" /\ op' = Machine!NoOp /\ suspension' = 0
    BY <1>0, <2>4, <2>5
  <2>15. QED
    BY <1>0, <2>4, <2>7, <2>11, <2>12, <2>13, <2>14, OneComputes
<1>3. QED
  BY <1>1, <1>2

(* The operand on top gives way to v.                                      *)
Exchanges(n, v, stack) ==
  /\ n = Len(machines) /\ n \in DOMAIN machines /\ stack = Append(Machine!Front(machines[n].stack), v)
  /\ machines' = [Machine!Popped EXCEPT ![Len(machines)].stack = Append(@, v)]

LEMMA PoppedThenPushed ==
  ASSUME Machine!MachinesInv, NEW n, NEW v, NEW stack, Exchanges(n, v, stack)
  PROVE  machines' = [machines EXCEPT ![n].ip = @ + 1, ![n].stack = stack]
<1>0. /\ n = Len(machines) /\ n \in DOMAIN machines /\ stack = Append(Machine!Front(machines[n].stack), v)
      /\ machines' = [Machine!Popped EXCEPT ![Len(machines)].stack = Append(@, v)]
  BY DEF Exchanges
<1>1. PICK x, f, y : x = machines[n] /\ f = Machine!Front(x.stack) /\ y = Machine!Popped
  OBVIOUS
<1>2. x \in [fn : {"main", "async"}, ip : Nat, stack : Machine!Operands]
  BY <1>0, <1>1, MachineTyped
<1>3. y = [machines EXCEPT ![n].ip = @ + 1, ![n].stack = f]
  BY <1>0, <1>1 DEF Machine!Popped
<1>4. y[n] = [x EXCEPT !.ip = x.ip + 1, !.stack = f] /\ y = [machines EXCEPT ![n] = [x EXCEPT !.ip = x.ip + 1, !.stack = f]]
  BY <1>0, <1>1, <1>3
<1>5. y[n].stack = f
  BY <1>2, <1>4
<1>6. machines' = [y EXCEPT ![n] = [y[n] EXCEPT !.stack = stack]]
  BY <1>0, <1>1, <1>5
<1>7. [y[n] EXCEPT !.stack = stack] = [x EXCEPT !.ip = x.ip + 1, !.stack = stack]
  BY <1>2, <1>4
<1>8. machines' = [machines EXCEPT ![n] = [x EXCEPT !.ip = x.ip + 1, !.stack = stack]]
  BY <1>0, <1>4, <1>6, <1>7
<1>9. QED
  BY <1>0, <1>1, <1>8

LEMMA PlainPassed ==
  ASSUME Machine!MachinesInv, NEW n, n = Len(machines), n \in DOMAIN machines, NEW stack, stack = machines[n].stack,
         machines' = [machines EXCEPT ![Len(machines)].ip = @ + 1]
  PROVE  machines' = [machines EXCEPT ![n].ip = @ + 1, ![n].stack = stack]
<1>1. PICK x : x = machines[n]
  OBVIOUS
<1>2. x \in [fn : {"main", "async"}, ip : Nat, stack : Machine!Operands]
  BY <1>1, MachineTyped
<1>3. [x EXCEPT !.ip = x.ip + 1, !.stack = stack] = [x EXCEPT !.ip = x.ip + 1]
  BY <1>1, <1>2
<1>4. QED
  BY <1>1, <1>3

(* An await whose promise is settled, or that finds a plain value.         *)
LEMMA AwaitSettledKeeps ==
  ASSUME program \in Programs, Machine!RunInv, Machine!AwaitSettled
  PROVE  Machine!RunInv'
<1>1. PICK n, code : n = Len(machines) /\ code = Machine!Code(machines[n])
  OBVIOUS
<1>2. /\ n > 0 /\ machines # <<>> /\ Machine!AtCall(machines[n], "await") /\ Machine!Computing
      /\ phase = "interpret" /\ op = Machine!NoOp
  BY <1>1, AtOpIs DEF Machine!AwaitSettled
<1>3. AtStep(n, code, "await")
  BY <1>1, <1>2, AtInstruction
<1>4. /\ n \in DOMAIN machines /\ suspension = 0 /\ machines[n].ip \in DOMAIN code
      /\ machines[n].stack \in Machine!Operands
      /\ Machine!Height(code, machines[n].ip + 1) = Len(machines[n].stack) /\ Len(machines[n].stack) > 0
  BY <1>3 DEF AtStep, Machine!WellFormed
<1>5. UNCHANGED <<program, promises, suspension>>
  BY DEF Machine!AwaitSettled, Machine!fixed
<1>6. /\ Machine!PromisesInv' /\ Machine!Operands' = Machine!Operands /\ Machine!Things' = Machine!Things
      /\ Len(promises) <= Len(promises')
  BY <1>5, PromisesSame, PromiseTyped DEF Machine!RunInv
<1>7. PICK q, T : q = machines[n].stack /\ T = [promise : 0 .. Len(promises), of : Machine!Things]
  OBVIOUS
<1>8. q \in Seq(T) /\ Len(q) > 0
  BY <1>4, <1>7 DEF Machine!Operands
<1>9. Machine!Front(q) \in Seq(T) /\ Len(Machine!Front(q)) + 1 = Len(q) /\ Machine!Last(q) \in T
  BY <1>8, FrontIs
<1>10. ASSUME NEW stack \in Seq(T), Len(stack) = Len(q), UNCHANGED <<phase, op>>,
              machines' = [machines EXCEPT ![n].ip = @ + 1, ![n].stack = stack]
       PROVE  Machine!RunInv'
  <2>1. stack \in Machine!Operands' /\ Len(stack) = Machine!Height(code, machines[n].ip + 1)
    BY <1>4, <1>6, <1>7, <1>10 DEF Machine!Operands
  <2>2. phase' = "interpret" /\ op' = Machine!NoOp
    BY <1>2, <1>10
  <2>3. machines' = [machines EXCEPT ![n].ip = @ + 1, ![n].stack = stack]
    BY <1>10
  <2>4. QED
    BY <1>1, <1>2, <1>4, <1>5, <1>6, <2>1, <2>2, <2>3, AdvanceKeeps
<1>11. ASSUME Machine!Awaited("ready"), UNCHANGED <<phase, op>>,
              machines' = [Machine!Popped EXCEPT ![Len(machines)].stack =
                             Append(@, Machine!Yielded(Machine!Last(Machine!Top.stack).promise))]
       PROVE  Machine!RunInv'
  <2>1. PICK p, v : p = Machine!Last(q).promise /\ v = Machine!Yielded(p)
    OBVIOUS
  <2>2. v \in T
    <3>1. p # 0
      BY <1>1, <1>7, <1>11, <2>1 DEF Machine!Awaited, Machine!Top
    <3>2. p \in 0 .. Len(promises)
      BY <1>7, <1>9, <2>1
    <3>3. p \in DOMAIN promises
      BY <3>1, <3>2, PromiseTyped DEF Machine!RunInv
    <3>4. promises[p].handle \in Machine!Things /\ promises[p].inner \in 0 .. Len(promises)
      BY <3>3, PromiseTyped DEF Machine!RunInv
    <3>5. v = [promise |-> promises[p].inner, of |-> promises[p].handle]
      BY <2>1 DEF Machine!Yielded
    <3>6. QED
      BY <1>7, <3>4, <3>5
  <2>3. PICK f, stack : f = Machine!Front(q) /\ stack = Append(f, v)
    OBVIOUS
  <2>4. stack \in Seq(T) /\ Len(stack) = Len(q)
    <3>1. f \in Seq(T) /\ Len(f) + 1 = Len(q)
      BY <1>9, <2>3
    <3>2. Append(f, v) \in Seq(T) /\ Len(Append(f, v)) = Len(f) + 1
      BY <2>2, <3>1, Pushed
    <3>3. QED
      BY <2>3, <3>1, <3>2
  <2>5. machines' = [machines EXCEPT ![n].ip = @ + 1, ![n].stack = stack]
    <3>1. machines' = [Machine!Popped EXCEPT ![Len(machines)].stack = Append(@, v)]
      BY <1>11, <2>1, <1>1, <1>7 DEF Machine!Top
    <3>2. Exchanges(n, v, stack)
      BY <1>1, <1>4, <1>7, <2>3, <3>1 DEF Exchanges
    <3>3. QED
      BY <3>2, PoppedThenPushed DEF Machine!RunInv
  <2>6. QED
    BY <1>10, <1>11, <2>4, <2>5
<1>12. ASSUME UNCHANGED <<phase, op>>, machines' = [machines EXCEPT ![Len(machines)].ip = @ + 1]
       PROVE  Machine!RunInv'
  <2>1. machines' = [machines EXCEPT ![n].ip = @ + 1, ![n].stack = q]
    BY <1>1, <1>4, <1>7, <1>12, PlainPassed DEF Machine!RunInv
  <2>2. QED
    BY <1>8, <1>10, <1>12, <2>1
<1>13. ASSUME Machine!Return("rejected"), Machine!Abandon PROVE Machine!RunInv'
  BY <1>2, <1>5, <1>13, ReturnKeeps DEF Machine!Abandon
<1>14. QED
  BY <1>11, <1>12, <1>13 DEF Machine!AwaitSettled

LEMMA OneReplaced ==
  ASSUME NEW T, NEW q \in Seq(T), Len(q) = 1, NEW m \in T
  PROVE  [q EXCEPT ![1] = m] = <<m>>
<1>1. [q EXCEPT ![1] = m] \in Seq(T) /\ Len([q EXCEPT ![1] = m]) = 1 /\ [q EXCEPT ![1] = m][1] = m
  BY LastReplaced
<1>2. PICK r : r = [q EXCEPT ![1] = m]
  OBVIOUS
<1>3. r \in Seq(T) /\ Len(r) = 1 /\ r[1] = m
  BY <1>1, <1>2
<1>4. r = <<m>>
  BY <1>3
<1>5. QED
  BY <1>2, <1>4

(* An await of a pending promise: main is suspended without its operand.   *)
LEMMA AwaitPendingKeeps ==
  ASSUME program \in Programs, Machine!RunInv, Machine!AwaitPending
  PROVE  Machine!RunInv'
<1>1. PICK n, code : n = Len(machines) /\ code = Machine!Code(machines[n])
  OBVIOUS
<1>2. /\ n > 0 /\ machines # <<>> /\ Machine!AtCall(machines[n], "await") /\ Machine!Computing
      /\ phase = "interpret" /\ op = Machine!NoOp
  BY <1>1, AtOpIs DEF Machine!AwaitPending
<1>3. AtStep(n, code, "await")
  BY <1>1, <1>2, AtInstruction
<1>4. UNCHANGED <<program, promises>> /\ Machine!Return("pending")
  BY DEF Machine!AwaitPending, Machine!fixed
<1>5. ASSUME Machine!InAsync PROVE Machine!RunInv'
  <2>1. machines' = <<machines[1]>> /\ suspension' = suspension
    BY <1>5 DEF Machine!AwaitPending
  <2>2. QED
    BY <1>2, <1>4, <2>1, ReturnKeeps
<1>6. ASSUME ~Machine!InAsync PROVE Machine!RunInv'
  <2>1. /\ n = 1 /\ 1 \in DOMAIN machines /\ machines[1].ip \in DOMAIN code
        /\ Machine!Height(code, machines[1].ip + 1) = Len(machines[1].stack) /\ Len(machines[1].stack) > 0
    BY <1>1, <1>3, <1>6 DEF AtStep, Machine!InAsync, Machine!WellFormed
  <2>2. PICK x, q, T : /\ x = machines[1] /\ q = x.stack
                       /\ T = [promise : 0 .. Len(promises), of : Machine!Things]
    OBVIOUS
  <2>3. PICK f, p : f = Machine!Front(q) /\ p = Machine!Last(q).promise
    OBVIOUS
  <2>4. PICK m : m = [x EXCEPT !.ip = x.ip + 1, !.stack = f]
    OBVIOUS
  <2>5. /\ x \in [fn : {"main", "async"}, ip : Nat, stack : Machine!Operands] /\ x.fn = "main"
        /\ x.ip \in Nat \ {0} /\ q \in Seq(T) /\ code = program.main
    BY <1>1, <2>1, <2>2, MainIs DEF Machine!RunInv, Machine!Operands
  <2>6. f \in Seq(T) /\ Len(f) + 1 = Len(q) /\ Machine!Last(q) \in T
    <3>1. q \in Seq(T) /\ Len(q) > 0
      BY <2>1, <2>2, <2>5
    <3>2. QED
      BY <2>3, <3>1, FrontIs
  <2>7. Machine!PromisesInv' /\ Machine!Operands' = Machine!Operands /\ Machine!Things' = Machine!Things
    BY <1>4, PromisesSame DEF Machine!RunInv
  <2>8. /\ m \in [fn : {"main", "async"}, ip : Nat, stack : Machine!Operands] /\ m.fn = "main"
        /\ m.ip = x.ip + 1 /\ m.stack = f
    <3>1. PICK F, S : F = {"main", "async"} /\ S = Machine!Operands
      OBVIOUS
    <3>2. x \in [fn : F, ip : Nat, stack : S] /\ f \in S
      BY <2>2, <2>5, <2>6, <3>1 DEF Machine!Operands
    <3>3. m \in [fn : F, ip : Nat, stack : S] /\ m.fn = x.fn /\ m.ip = x.ip + 1 /\ m.stack = f
      BY <2>4, <3>2, MachineMoved
    <3>4. QED
      BY <2>5, <3>1, <3>3
  <2>9. machines' = <<m>>
    <3>1. machines' = [machines EXCEPT ![1] = m]
      <4>1. machines' = [machines EXCEPT ![1].ip = @ + 1, ![1].stack = Machine!Front(@)]
        BY <1>1, <1>6, <2>1 DEF Machine!AwaitPending, Machine!Popped
      <4>2. machines' = [machines EXCEPT ![1].ip = @ + 1, ![1].stack = f]
        BY <2>1, <2>2, <2>3, <4>1
      <4>3. QED
        BY <2>1, <2>2, <2>4, <4>2
    <3>2. PICK q1, R : q1 = machines /\ R = [fn : {"main", "async"}, ip : Nat, stack : Machine!Operands]
      OBVIOUS
    <3>3. q1 \in Seq(R) /\ Len(q1) = 1 /\ m \in R
      BY <1>1, <2>1, <2>8, <3>2 DEF Machine!RunInv, Machine!MachinesInv
    <3>4. [q1 EXCEPT ![1] = m] = <<m>>
      BY <3>3, OneReplaced
    <3>5. QED
      BY <3>1, <3>2, <3>4
  <2>10. /\ p \in DOMAIN promises /\ p # 0 /\ promises[p].status = "pending" /\ suspension' = p
    <3>1. promises[p].status = "pending" /\ p # 0 /\ suspension' = p
      BY <1>1, <1>6, <2>1, <2>2, <2>3 DEF Machine!AwaitPending, Machine!Awaited, Machine!Top
    <3>2. p \in 0 .. Len(promises)
      BY <2>2, <2>3, <2>6
    <3>3. QED
      BY <3>1, <3>2, PromiseTyped DEF Machine!RunInv
  <2>11. phase' \in {"wait", "idle"} /\ op' = Machine!NoOp
    BY <1>4 DEF Machine!Return
  <2>12. m.ip \in 1 .. Len(program.main) + 1
    BY <2>1, <2>2, <2>5, <2>8, MainCode
  <2>13. Machine!MachinesInv' /\ Len(machines') = 1 /\ machines'[1] = m
    <3>1. m \in [fn : {"main", "async"}, ip : Nat, stack : Machine!Operands']
      BY <2>7, <2>8
    <3>2. program' = program /\ phase' # "new"
      BY <1>4, <2>11
    <3>3. QED
      BY <2>8, <2>9, <2>12, <3>1, <3>2, OneMachine
  <2>14. Machine!OpInv'
    BY <2>11 DEF Machine!OpInv, Machine!NoOp
  <2>15. Machine!ComputeInv'
    BY <2>11 DEF Machine!ComputeInv, Machine!Computing, Machine!NoOp
  <2>16. Machine!SuspendInv'
    <3>1. Len(m.stack) + 1 = Machine!Height(program'[m.fn], m.ip)
      BY <1>4, <2>1, <2>2, <2>5, <2>6, <2>8
    <3>2. p \in DOMAIN promises' /\ promises'[p].status = "pending"
      BY <1>4, <2>10
    <3>3. QED
      BY <2>10, <2>13, <3>1, <3>2 DEF Machine!SuspendInv, Machine!Code, Machine!Height
  <2>17. QED
    BY <2>7, <2>13, <2>14, <2>15, <2>16 DEF Machine!RunInv
<1>7. QED
  BY <1>5, <1>6

(* The promise that is waited for is settled: main gets its value, or the   *)
(* call returns the rejection.                                              *)
LEMMA SettledKeeps ==
  ASSUME Machine!TypeOK, Machine!RunInv, Machine!Settled
  PROVE  Machine!RunInv'
<1>0. program \in Programs /\ host \in [Handles -> Machine!HostState]
  BY DEF Machine!TypeOK
<1>1. PICK h, s : h = op.handle /\ s = host[h]
  OBVIOUS
<1>2. /\ phase = "op" /\ op.kind \in {"resume", "wait", "pollWait"} /\ s # "pending" /\ program' = program
      /\ promises' = [promises EXCEPT ![suspension].status = s] /\ suspension' = 0
  BY <1>1 DEF Machine!Settled, Machine!Answering, Machine!SettleAndResume, Machine!fixed
<1>3. /\ suspension \in DOMAIN promises /\ h \in Handles /\ h \in Machine!Things
      /\ Len(machines) = 1 /\ 1 \in DOMAIN machines
      /\ Len(machines[1].stack) + 1 = Machine!Height(Machine!Code(machines[1]), machines[1].ip)
  BY <1>1, <1>2, WaitedIs
<1>4. s \in Machine!HostState
  BY <1>0, <1>1, <1>3
<1>5. PICK P : P = promises
  OBVIOUS
<1>6. /\ promises' \in Seq([handle : Machine!Things, inner : Nat, status : Machine!HostState]) /\ Len(promises') = Len(P)
      /\ DOMAIN promises' = DOMAIN P /\ promises'[suspension].status = s
      /\ \A i \in DOMAIN P : /\ promises'[i].handle = P[i].handle /\ promises'[i].inner = P[i].inner
                             /\ i # suspension => promises'[i] = P[i]
  <2>1. PICK n, TH, S, u : n = suspension /\ TH = Machine!Things /\ S = Machine!HostState /\ u = promises'
    OBVIOUS
  <2>2. P \in Seq([handle : TH, inner : Nat, status : S]) /\ n \in DOMAIN P /\ s \in S
    BY <1>3, <1>4, <1>5, <2>1 DEF Machine!RunInv, Machine!PromisesInv
  <2>3. u = [P EXCEPT ![n].status = s]
    BY <1>2, <1>5, <2>1
  <2>4. u \in Seq([handle : TH, inner : Nat, status : S]) /\ IsStatusSet(u, P, n, s)
    BY <2>2, <2>3, StatusSet
  <2>5. QED
    BY <2>1, <2>4 DEF IsStatusSet
<1>7. Machine!PromisesInv'
  <2>1. \A i \in DOMAIN promises' : /\ promises'[i].inner < i
                                    /\ promises'[i].status = "pending" => promises'[i].handle \in Handles
    <3>1. \A i \in DOMAIN P : P[i].inner < i /\ (P[i].status = "pending" => P[i].handle \in Handles)
      BY <1>5 DEF Machine!RunInv, Machine!PromisesInv
    <3>2. DOMAIN promises' = DOMAIN P /\ promises'[suspension].status # "pending"
      BY <1>2, <1>6
    <3>3. \A i \in DOMAIN P : promises'[i].inner = P[i].inner /\ (i # suspension => promises'[i] = P[i])
      BY <1>6
    <3>4. QED
      BY <3>1, <3>2, <3>3
  <2>2. Machine!Things' = Machine!Things
    BY <1>2 DEF Machine!Things
  <2>3. QED
    BY <1>6, <2>1, <2>2 DEF Machine!PromisesInv, Machine!HostState
<1>8. Machine!Operands' = Machine!Operands
  <2>1. Machine!Things' = Machine!Things
    BY <1>2 DEF Machine!Things
  <2>2. QED
    BY <1>5, <1>6, <2>1 DEF Machine!Operands
<1>9. PICK x, q, T : /\ x = machines[1] /\ q = x.stack
                     /\ T = [promise : 0 .. Len(promises), of : Machine!Things]
  OBVIOUS
<1>10. /\ x \in [fn : {"main", "async"}, ip : Nat, stack : Machine!Operands] /\ x.fn = "main"
       /\ x.ip \in Nat \ {0} /\ q \in Seq(T) /\ x.ip \in 1 .. Len(program.main) + 1
       /\ Len(q) + 1 = Machine!Height(program.main, x.ip)
  BY <1>3, <1>9, MainIs DEF Machine!RunInv, Machine!Operands
<1>11. ASSUME s = "ready" PROVE Machine!RunInv'
  <2>1. PICK v, stack : v = Machine!Plain(h) /\ stack = Append(q, v)
    OBVIOUS
  <2>2. PICK m : m = [x EXCEPT !.stack = stack]
    OBVIOUS
  <2>3. phase' = "interpret" /\ op' = Machine!NoOp
    BY <1>1, <1>11 DEF Machine!Settled, Machine!SettleAndResume
  <2>4. stack \in Seq(T) /\ Len(stack) = Len(q) + 1
    <3>1. v \in T
      <4>1. v = [promise |-> 0, of |-> h] /\ 0 \in 0 .. Len(promises)
        BY <2>1, PromiseTyped DEF Machine!Plain, Machine!RunInv
      <4>2. QED
        BY <1>3, <1>9, <4>1
    <3>2. QED
      BY <1>10, <2>1, <3>1, Pushed
  <2>5. /\ m \in [fn : {"main", "async"}, ip : Nat, stack : Machine!Operands] /\ m.fn = "main"
        /\ m.ip = x.ip /\ m.stack = stack
    <3>1. stack \in Machine!Operands
      BY <1>9, <2>4 DEF Machine!Operands
    <3>2. QED
      BY <1>10, <2>2, <3>1
  <2>6. machines' = <<m>>
    <3>1. machines' = [machines EXCEPT ![1].stack = Append(@, v)]
      BY <1>1, <1>11, <2>1 DEF Machine!Settled, Machine!SettleAndResume
    <3>2. machines' = [machines EXCEPT ![1] = m]
      BY <1>3, <1>9, <2>1, <2>2, <3>1
    <3>3. PICK q1, R : q1 = machines /\ R = [fn : {"main", "async"}, ip : Nat, stack : Machine!Operands]
      OBVIOUS
    <3>4. q1 \in Seq(R) /\ Len(q1) = 1 /\ m \in R
      BY <1>3, <2>5, <3>3 DEF Machine!RunInv, Machine!MachinesInv
    <3>5. [q1 EXCEPT ![1] = m] = <<m>>
      BY <3>4, OneReplaced
    <3>6. QED
      BY <3>2, <3>3, <3>5
  <2>7. /\ m \in [fn : {"main", "async"}, ip : Nat, stack : Machine!Operands'] /\ m.fn = "main"
        /\ m.ip \in 1 .. Len(program.main) + 1 /\ Len(m.stack) = Machine!Height(program.main, m.ip)
    BY <1>8, <1>10, <2>4, <2>5
  <2>8. QED
    BY <1>0, <1>2, <1>7, <2>3, <2>6, <2>7, OneComputes
<1>12. ASSUME s # "ready" PROVE Machine!RunInv'
  <2>1. Machine!Return("rejected") /\ machines' = machines
    BY <1>1, <1>12 DEF Machine!Settled, Machine!SettleAndResume
  <2>2. phase' \in {"wait", "idle"} /\ op' = Machine!NoOp
    BY <2>1 DEF Machine!Return
  <2>3. Machine!MachinesInv'
    <3>1. machines # <<>>
      BY <1>2, TopIs
    <3>2. QED
      BY <1>2, <1>8, <2>1, <2>2, <3>1 DEF Machine!RunInv, Machine!MachinesInv, Machine!Code
  <2>4. Machine!OpInv'
    BY <2>2 DEF Machine!OpInv, Machine!NoOp
  <2>5. Machine!ComputeInv'
    BY <2>2 DEF Machine!ComputeInv, Machine!Computing, Machine!NoOp
  <2>6. Machine!SuspendInv'
    BY <1>2 DEF Machine!SuspendInv
  <2>7. QED
    BY <1>7, <2>3, <2>4, <2>5, <2>6 DEF Machine!RunInv
<1>13. QED
  BY <1>11, <1>12

LEMMA RunStep ==
  ASSUME Machine!TypeOK, Machine!RunInv, [Machine!Next]_(Machine!vars)
  PROVE  Machine!TypeOK' /\ Machine!RunInv'
<1>1. program \in Programs /\ RetryCount \in Nat
  BY RuntimeAssumption DEF Machine!TypeOK
<1>2. ASSUME Machine!Interpret PROVE Machine!RunInv'
  BY <1>1, <1>2, LoadKeeps, OperationKeeps, CallAsyncKeeps, FunctionEndsKeeps, AwaitSettledKeeps, AwaitPendingKeeps,
     AnswerKeeps DEF Machine!Interpret
<1>3. ASSUME Machine!Answered PROVE Machine!RunInv'
  BY <1>1, <1>3, PolledKeeps, CalledKeeps, SettledKeeps, AnswerKeeps DEF Machine!Answered
<1>4. ASSUME \/ Machine!Wait \/ Machine!Sleep \/ Machine!ResumeSuspension \/ Machine!WaitSuspension
             \/ Machine!WaitWokeEarly \/ Machine!OpFails
      PROVE  Machine!RunInv'
  BY <1>1, <1>4, WaitingKeeps, AnswerKeeps
<1>5. ASSUME Machine!Run("run") \/ Machine!Run("settle") PROVE Machine!RunInv'
  BY <1>1, <1>5, RunKeeps
<1>6. ASSUME \/ \E h \in Handles : Machine!HostCompletes(h)
             \/ \E c \in {"run", "wait"} : Machine!ContextEnds(c)
             \/ UNCHANGED Machine!vars
      PROVE  Machine!RunInv'
  <2>1. UNCHANGED <<program, call, phase, machines, promises, suspension, op>>
    BY <1>6 DEF Machine!HostCompletes, Machine!ContextEnds, Machine!vars, Machine!fixed
  <2>2. QED
    BY <2>1, RunUnmoved
<1>7. Machine!RunInv'
  BY <1>2, <1>3, <1>4, <1>5, <1>6 DEF Machine!Next, Machine!Proceed
<1>8. Simple'
  BY SimpleKept
<1>9. Machine!TypeOK'
  <2>1. (Machine!RunInv /\ Simple => Machine!TypeOK)'
    BY Typed, PTL
  <2>2. QED
    BY <1>7, <1>8, <2>1
<1>10. QED
  BY <1>7, <1>9

(* No step forgets a suspension but these two.                             *)
LEMMA GivenUp ==
  ASSUME Machine!TypeOK, Machine!RunInv, [Machine!Next]_(Machine!vars), suspension # 0, suspension' # suspension
  PROVE  suspension' = 0 /\ (call = "resume" \/ promises'[suspension].status # "pending")
<1>1. ASSUME Machine!Settled PROVE suspension' = 0 /\ promises'[suspension].status # "pending"
  <2>1. /\ phase = "op" /\ op.kind \in {"resume", "wait", "pollWait"} /\ host[op.handle] # "pending"
        /\ promises' = [promises EXCEPT ![suspension].status = host[op.handle]] /\ suspension' = 0
    BY <1>1 DEF Machine!Settled, Machine!Answering, Machine!SettleAndResume
  <2>2. suspension \in DOMAIN promises /\ promises[suspension] \in [handle : Machine!Things, inner : Nat, status : Machine!HostState]
    BY <2>1, WaitedIs, PromiseTyped DEF Machine!RunInv
  <2>3. QED
    BY <2>1, <2>2
<1>2. ASSUME NEW r, Machine!Fail(r) PROVE suspension' = 0 /\ call = "resume"
  BY <1>2 DEF Machine!Fail, Machine!RunInv, Machine!OpInv
<1>3. ASSUME Machine!AwaitPending PROVE FALSE
  <2>1. Machine!Computing
    BY <1>3 DEF Machine!AwaitPending, Machine!AtOp, Machine!Interpreting, Machine!Computing
  <2>2. QED
    BY <2>1 DEF Machine!RunInv, Machine!ComputeInv
<1>4. Machine!Settled \/ Machine!AwaitPending \/ (\E r \in {"error", "ended"} : Machine!Fail(r))
  BY DEF Machine!Next, Machine!vars, Machine!fixed, Machine!Proceed, Machine!Interpret, Machine!Answered,
     Machine!LoadLocal, Machine!HostOperation, Machine!CallAsync, Machine!FunctionEnds, Machine!AwaitSettled,
     Machine!InterpretEnds, Machine!Polled, Machine!Called, Machine!StillPending,
     Machine!OpTimesOut, Machine!OpContextEnds, Machine!Wait, Machine!Sleep,
     Machine!WaitWokeEarly, Machine!OpFails, Machine!Retry, Machine!Run,
     Machine!ResumeSuspension, Machine!WaitSuspension, Machine!ContextEnds, Machine!HostCompletes
<1>5. QED
  BY <1>1, <1>2, <1>3, <1>4

(* A suspension is given up for a settled promise or by a resume of the    *)
(* embedding program that failed, whatever the program, the handles of the *)
(* host, the number of retries and the calls: a wait that failed can be    *)
(* made again.                                                             *)
THEOREM SuspensionSurvives == Machine!Spec => SuspensionKept
<1>1. Machine!Init => Machine!TypeOK /\ Machine!RunInv
  BY RunStarts
<1>2. Machine!TypeOK /\ Machine!RunInv /\ [Machine!Next]_(Machine!vars) => Machine!TypeOK' /\ Machine!RunInv'
  BY RunStep
<1>3. Machine!TypeOK /\ Machine!RunInv /\ [Machine!Next]_(Machine!vars) =>
        [suspension # 0 /\ suspension' # suspension =>
           suspension' = 0 /\ (call = "resume" \/ promises'[suspension].status # "pending")]_(Machine!vars)
  BY GivenUp
<1>4. QED
  BY <1>1, <1>2, <1>3, PTL DEF Machine!Spec, SuspensionKept, Machine!SuspensionKept

-----------------------------------------------------------------------------
(* The operands of the iavm machine are those of its program.  What code   *)
(* leaves on the stack is a recursive function (Stacks): it is unfolded one*)
(* instruction at a time.  Each action is then compared with what its      *)
(* instruction should leave.                                               *)

(* Stacks is a recursive function: it has the values its definition says,  *)
(* by induction over the code (a least n up to which no function has them  *)
(* would be one more than where one has).                                  *)
LEMMA LeastNat ==
  ASSUME NEW T, T \subseteq Nat, T # {}
  PROVE  \E m \in T : \A k \in T : ~(k < m)
<1>1. PICK R : R = {ss \in Nat \X Nat : ss[1] < ss[2]}
  OBVIOUS
<1>2. IsWellFoundedOn(R, Nat)
  BY <1>1, NatLessThanWellFounded DEF OpToRel
<1>3. \E x \in T : \A y \in T : ~(<<y, x>> \in R)
  BY <1>2, WFMin
<1>4. QED
  BY <1>1, <1>3

FoldsTo(f, n, code, value) ==
  f = [k \in 0 .. n |-> IF k = 0 THEN <<>> ELSE Machine!Effect(f[k - 1], code[k], value)]

LEMMA FoldGrows ==
  ASSUME NEW code, NEW value, NEW n \in Nat, NEW f, FoldsTo(f, n, code, value)
  PROVE  \E g : FoldsTo(g, n + 1, code, value)
<1> DEFINE g == [k \in 0 .. n + 1 |-> IF k = n + 1 THEN Machine!Effect(f[n], code[k], value) ELSE f[k]]
<1>1. \A k \in 0 .. n : f[k] = IF k = 0 THEN <<>> ELSE Machine!Effect(f[k - 1], code[k], value)
  BY DEF FoldsTo
<1>2. \A k \in 0 .. n : g[k] = f[k]
  OBVIOUS
<1>3. \A k \in 0 .. n + 1 : g[k] = IF k = 0 THEN <<>> ELSE Machine!Effect(g[k - 1], code[k], value)
  <2>1. ASSUME NEW k \in 0 .. n PROVE g[k] = IF k = 0 THEN <<>> ELSE Machine!Effect(g[k - 1], code[k], value)
    <3>1. k = 0 \/ k - 1 \in 0 .. n
      OBVIOUS
    <3>2. g[k] = f[k] /\ (k # 0 => g[k - 1] = f[k - 1])
      BY <1>2, <3>1
    <3>3. QED
      BY <1>1, <3>2
  <2>2. g[n + 1] = Machine!Effect(g[n], code[n + 1], value)
    <3>1. n \in 0 .. n /\ n + 1 \in 0 .. n + 1
      OBVIOUS
    <3>2. QED
      BY <1>2, <3>1
  <2>3. \A k \in 0 .. n + 1 : k \in 0 .. n \/ (k = n + 1 /\ k # 0 /\ k - 1 = n)
    OBVIOUS
  <2> HIDE DEF g
  <2>4. QED
    BY <2>1, <2>2, <2>3
<1>4. g = [k \in 0 .. n + 1 |-> IF k = 0 THEN <<>> ELSE Machine!Effect(g[k - 1], code[k], value)]
  BY <1>3
<1>5. QED
  BY <1>4 DEF FoldsTo

LEMMA FoldIs ==
  ASSUME NEW code, NEW value, NEW n \in Nat
  PROVE  \E f : FoldsTo(f, n, code, value)
<1> DEFINE T == {k \in Nat : ~\E f : FoldsTo(f, k, code, value)}
<1>1. SUFFICES ASSUME T # {} PROVE FALSE
  OBVIOUS
<1>2. PICK m \in T : \A k \in T : ~(k < m)
  <2>1. T \subseteq Nat
    OBVIOUS
  <2> HIDE DEF T
  <2>2. QED
    BY <1>1, <2>1, LeastNat
<1>3. m # 0
  <2>1. PICK f : f = [k \in 0 .. 0 |-> <<>>]
    OBVIOUS
  <2>2. f = [k \in 0 .. 0 |-> IF k = 0 THEN <<>> ELSE Machine!Effect(f[k - 1], code[k], value)]
    <3>1. \A k \in 0 .. 0 : k = 0
      OBVIOUS
    <3>2. QED
      BY <2>1, <3>1
  <2>3. FoldsTo(f, 0, code, value)
    BY <2>2 DEF FoldsTo
  <2>4. QED
    BY <2>3
<1>4. m - 1 \in Nat /\ m - 1 < m /\ (m - 1) + 1 = m
  BY <1>3
<1>5. PICK f : FoldsTo(f, m - 1, code, value)
  BY <1>2, <1>4
<1>6. \E g : FoldsTo(g, (m - 1) + 1, code, value)
  BY <1>4, <1>5, FoldGrows
<1>7. QED
  BY <1>4, <1>6

LEMMA StacksAre ==
  ASSUME NEW code, NEW value, Len(code) \in Nat
  PROVE  /\ Machine!Stacks(code, value)[0] = <<>>
         /\ \A k \in 1 .. Len(code) :
              Machine!Stacks(code, value)[k] = Machine!Effect(Machine!Stacks(code, value)[k - 1], code[k], value)
<1> DEFINE P(f) == f = [n \in 0 .. Len(code) |-> IF n = 0 THEN <<>> ELSE Machine!Effect(f[n - 1], code[n], value)]
<1>1. Machine!Stacks(code, value) = CHOOSE f : P(f)
  BY DEF Machine!Stacks
<1>2. \E f : P(f)
  <2>1. PICK f : FoldsTo(f, Len(code), code, value)
    BY FoldIs
  <2>2. P(f)
    BY <2>1 DEF FoldsTo
  <2>3. QED
    BY <2>2
<1>3. P(Machine!Stacks(code, value))
  BY <1>1, <1>2
<1>4. PICK f : f = Machine!Stacks(code, value)
  OBVIOUS
<1>5. f = [n \in 0 .. Len(code) |-> IF n = 0 THEN <<>> ELSE Machine!Effect(f[n - 1], code[n], value)]
  BY <1>3, <1>4
<1>6. f[0] = <<>> /\ \A k \in 1 .. Len(code) : f[k] = Machine!Effect(f[k - 1], code[k], value)
  BY <1>5
<1>7. QED
  BY <1>4, <1>6

(* What a machine is expected to have, before and after an instruction.    *)
Returned(fn) == IF fn = "main" THEN Machine!AsyncValue ELSE Machine!Nothing

LEMMA ExpectedIs ==
  ASSUME NEW m, Len(Machine!Code(m)) \in Nat, NEW t, t.fn = m.fn
  PROVE  /\ m.ip = 1 => Machine!Expected(m) = <<>>
         /\ m.ip \in 1 .. Len(Machine!Code(m)) /\ t.ip = m.ip + 1 =>
              Machine!Expected(t) = Machine!Effect(Machine!Expected(m), Machine!Code(m)[m.ip], Returned(m.fn))
<1>1. PICK code, value, f : /\ code = Machine!Code(m) /\ value = Returned(m.fn)
                            /\ f = Machine!Stacks(code, value)
  OBVIOUS
<1>2. f[0] = <<>> /\ \A k \in 1 .. Len(code) : f[k] = Machine!Effect(f[k - 1], code[k], value)
  BY <1>1, StacksAre
<1>3. Machine!Expected(m) = f[m.ip - 1] /\ Machine!Expected(t) = f[t.ip - 1]
  BY <1>1 DEF Machine!Expected, Returned, Machine!Code
<1>4. QED
  BY <1>1, <1>2, <1>3

(* What a longer or shorter stack looks like.                              *)
LEMMA MapIs ==
  ASSUME NEW n \in Nat, NEW r, r = [i \in 1 .. n |-> r[i]]
  PROVE  Len(r) = n /\ DOMAIN r = 1 .. n /\ r \in Seq({r[i] : i \in 1 .. n})
<1>1. DOMAIN r = 1 .. n
  OBVIOUS
<1>2. Len(r) = n
  BY <1>1
<1>3. PICK U : U = {r[i] : i \in 1 .. n}
  OBVIOUS
<1>4. \A i \in 1 .. n : r[i] \in U
  BY <1>3
<1>5. r \in [1 .. n -> U]
  BY <1>4
<1>6. r \in Seq(U)
  BY <1>5
<1>7. QED
  BY <1>1, <1>2, <1>3, <1>6

IsLonger(z, r, n, h) ==
  /\ n \in Nat /\ r = [i \in 1 .. n |-> r[i]] /\ z = [i \in 1 .. n + 1 |-> z[i]]
  /\ (\A i \in 1 .. n : z[i] = r[i]) /\ z[n + 1] = h

LEMMA MapAppended ==
  ASSUME NEW n, NEW r, NEW z, NEW h, IsLonger(z, r, n, h)
  PROVE  z = Append(r, h)
<1>0. /\ n \in Nat /\ r = [i \in 1 .. n |-> r[i]] /\ z = [i \in 1 .. n + 1 |-> z[i]]
      /\ (\A i \in 1 .. n : z[i] = r[i]) /\ z[n + 1] = h
  BY DEF IsLonger
<1>1. PICK U : U = {r[i] : i \in 1 .. n}
  OBVIOUS
<1>2. Len(r) = n /\ r \in Seq(U)
  BY <1>0, <1>1, MapIs
<1>3. r \in Seq(U \cup {h})
  BY <1>2
<1>4. PICK a1 : a1 = Append(r, h)
  OBVIOUS
<1>5. /\ a1 \in Seq(U \cup {h}) /\ Len(a1) = n + 1 /\ a1[n + 1] = h /\ \A i \in 1 .. n : a1[i] = r[i]
  BY <1>0, <1>2, <1>3, <1>4
<1>6. a1 = [i \in 1 .. n + 1 |-> a1[i]]
  BY <1>0, <1>5
<1>7. \A i \in 1 .. n + 1 : a1[i] = z[i]
  <2>1. \A i \in 1 .. n + 1 : i \in 1 .. n \/ i = n + 1
    BY <1>0
  <2>2. QED
    BY <1>0, <1>5, <2>1
<1>8. QED
  BY <1>0, <1>4, <1>6, <1>7

LEMMA MapFront ==
  ASSUME NEW n \in Nat, NEW r, r = [i \in 1 .. n + 1 |-> r[i]], NEW z, z = [i \in 1 .. n |-> z[i]],
         \A i \in 1 .. n : z[i] = r[i]
  PROVE  z = Machine!Front(r) /\ Machine!Last(r) = r[n + 1]
<1>1. Len(r) = n + 1 /\ r \in Seq({r[i] : i \in 1 .. n + 1})
  BY MapIs
<1>2. Machine!Last(r) = r[n + 1]
  BY <1>1 DEF Machine!Last
<1>3. Machine!Front(r) = SubSeq(r, 1, n)
  BY <1>1 DEF Machine!Front
<1>4. PICK f : f = SubSeq(r, 1, n)
  OBVIOUS
<1>5. f = [i \in 1 .. n |-> r[i]]
  BY <1>1, <1>4
<1>6. QED
  BY <1>2, <1>3, <1>4, <1>5

LEMMA ShapeIs ==
  ASSUME NEW q, NEW n \in Nat, DOMAIN q = 1 .. n
  PROVE  /\ DOMAIN Machine!Shape(q) = 1 .. n /\ Len(Machine!Shape(q)) = n
         /\ Machine!Shape(q) = [i \in 1 .. n |-> Machine!Shape(q)[i]]
         /\ \A i \in 1 .. n : Machine!Shape(q)[i] = Machine!Held(q[i])
<1>1. PICK s : s = Machine!Shape(q)
  OBVIOUS
<1>2. s = [i \in 1 .. n |-> Machine!Held(q[i])]
  BY <1>1 DEF Machine!Shape
<1>3. s = [i \in 1 .. n |-> s[i]] /\ \A i \in 1 .. n : s[i] = Machine!Held(q[i])
  BY <1>2
<1>4. Len(s) = n /\ DOMAIN s = 1 .. n
  BY <1>3, MapIs
<1>5. QED
  BY <1>1, <1>3, <1>4

LEMMA AppendIs ==
  ASSUME NEW T, NEW q \in Seq(T), NEW v
  PROVE  /\ DOMAIN Append(q, v) = 1 .. Len(q) + 1 /\ Len(q) \in Nat /\ DOMAIN q = 1 .. Len(q)
         /\ Append(q, v)[Len(q) + 1] = v /\ \A i \in 1 .. Len(q) : Append(q, v)[i] = q[i]
<1>1. q \in Seq(T \cup {v})
  OBVIOUS
<1>2. QED
  BY <1>1

LEMMA ShapeAppended ==
  ASSUME NEW T, NEW q \in Seq(T), NEW v
  PROVE  Machine!Shape(Append(q, v)) = Append(Machine!Shape(q), Machine!Held(v))
<1>1. PICK n, u : n = Len(q) /\ u = Append(q, v)
  OBVIOUS
<1>2. n \in Nat /\ DOMAIN q = 1 .. n /\ DOMAIN u = 1 .. n + 1 /\ u[n + 1] = v /\ \A i \in 1 .. n : u[i] = q[i]
  BY <1>1, AppendIs
<1>3. PICK r, z, h : r = Machine!Shape(q) /\ z = Machine!Shape(u) /\ h = Machine!Held(v)
  OBVIOUS
<1>4. r = [i \in 1 .. n |-> r[i]] /\ \A i \in 1 .. n : r[i] = Machine!Held(q[i])
  BY <1>2, <1>3, ShapeIs
<1>5. z = [i \in 1 .. n + 1 |-> z[i]] /\ \A i \in 1 .. n + 1 : z[i] = Machine!Held(u[i])
  <2>1. n + 1 \in Nat
    BY <1>2
  <2>2. QED
    BY <1>2, <1>3, <2>1, ShapeIs
<1>6. (\A i \in 1 .. n : z[i] = r[i]) /\ z[n + 1] = h
  <2>1. n + 1 \in 1 .. n + 1 /\ \A i \in 1 .. n : i \in 1 .. n + 1
    BY <1>2
  <2>2. QED
    BY <1>2, <1>3, <1>4, <1>5, <2>1
<1>7. IsLonger(z, r, n, h)
  BY <1>2, <1>4, <1>5, <1>6 DEF IsLonger
<1>8. QED
  BY <1>1, <1>3, <1>7, MapAppended

LEMMA ShapeFront ==
  ASSUME NEW T, NEW q \in Seq(T), Len(q) > 0
  PROVE  /\ Machine!Shape(Machine!Front(q)) = Machine!Front(Machine!Shape(q))
         /\ Machine!Last(Machine!Shape(q)) = Machine!Held(Machine!Last(q))
         /\ Machine!Shape(q) = Append(Machine!Front(Machine!Shape(q)), Machine!Last(Machine!Shape(q)))
<1>1. PICK n, f : n = Len(q) - 1 /\ f = Machine!Front(q)
  OBVIOUS
<1>2. n \in Nat /\ DOMAIN q = 1 .. n + 1 /\ Len(q) = n + 1 /\ q = [i \in 1 .. n + 1 |-> q[i]]
  BY <1>1
<1>3. f = SubSeq(q, 1, n) /\ Machine!Last(q) = q[n + 1]
  BY <1>1, <1>2 DEF Machine!Front, Machine!Last
<1>4. DOMAIN f = 1 .. n /\ \A i \in 1 .. n : f[i] = q[i]
  BY <1>2, <1>3
<1>5. PICK r, z : r = Machine!Shape(q) /\ z = Machine!Shape(f)
  OBVIOUS
<1>6. z = [i \in 1 .. n |-> z[i]] /\ \A i \in 1 .. n : z[i] = Machine!Held(f[i])
  BY <1>2, <1>4, <1>5, ShapeIs
<1>7. r = [i \in 1 .. n + 1 |-> r[i]] /\ \A i \in 1 .. n + 1 : r[i] = Machine!Held(q[i])
  <2>1. n + 1 \in Nat
    BY <1>2
  <2>2. QED
    BY <1>2, <1>5, <2>1, ShapeIs
<1>8. /\ n + 1 \in 1 .. n + 1 /\ \A i \in 1 .. n : z[i] = r[i]
      /\ \A i \in 1 .. n : r[i] = z[i]
  <2>1. n + 1 \in 1 .. n + 1 /\ \A i \in 1 .. n : i \in 1 .. n + 1
    BY <1>2
  <2>2. QED
    BY <1>4, <1>6, <1>7, <2>1
<1>9. z = Machine!Front(r) /\ Machine!Last(r) = r[n + 1]
  BY <1>2, <1>6, <1>7, <1>8, MapFront
<1>10. r = Append(z, r[n + 1])
  <2>1. PICK h : h = r[n + 1]
    OBVIOUS
  <2>2. IsLonger(r, z, n, h)
    BY <1>2, <1>6, <1>7, <1>8, <2>1 DEF IsLonger
  <2>3. QED
    BY <2>1, <2>2, MapAppended
<1>11. QED
  BY <1>1, <1>3, <1>5, <1>7, <1>8, <1>9, <1>10

(* No promise changes what it is of, and no handle its final state.        *)
PromisesKept ==
  /\ Len(promises) <= Len(promises')
  /\ \A p \in DOMAIN promises :
       p \in DOMAIN promises' /\ promises'[p].handle = promises[p].handle /\ promises'[p].inner = promises[p].inner
HandlesKept == \A h \in Handles : host[h] # "pending" => host'[h] = host[h]

LEMMA HeldKept ==
  ASSUME Machine!PromisesInv, PromisesKept, NEW v, v.promise \in 0 .. Len(promises)
  PROVE  Machine!Held(v)' = Machine!Held(v)
<1>1. DOMAIN promises = 1 .. Len(promises) /\ Len(promises) \in Nat
  BY PromiseTyped
<1>2. CASE v.promise = 0
  BY <1>2 DEF Machine!Held
<1>3. ASSUME v.promise # 0 PROVE Machine!Held(v)' = Machine!Held(v)
  <2>1. PICK p, k : p = v.promise /\ k = promises[p].inner
    OBVIOUS
  <2>2. p \in DOMAIN promises
    BY <1>1, <1>3, <2>1
  <2>3. k \in Nat /\ k < p /\ (k # 0 => k \in DOMAIN promises)
    BY <1>1, <2>1, <2>2, PromiseTyped
  <2>4. /\ promises'[p].handle = promises[p].handle /\ promises'[p].inner = k
        /\ k # 0 => promises'[k].handle = promises[k].handle
    BY <2>1, <2>2, <2>3 DEF PromisesKept
  <2>5. QED
    BY <1>3, <2>1, <2>4 DEF Machine!Held
<1>4. QED
  BY <1>2, <1>3

LEMMA ShapeKept ==
  ASSUME Machine!PromisesInv, PromisesKept, NEW q, \A j \in DOMAIN q : q[j].promise \in 0 .. Len(promises)
  PROVE  Machine!Shape(q)' = Machine!Shape(q)
<1>1. \A j \in DOMAIN q : Machine!Held(q[j])' = Machine!Held(q[j])
  BY HeldKept
<1>2. QED
  BY <1>1 DEF Machine!Shape

LEMMA MatchAll ==
  ASSUME \A i \in DOMAIN machines' : \A t : t = machines'[i] => Machine!Matches(t)'
  PROVE  (\A i \in DOMAIN machines : Machine!Matches(machines[i]))'
BY DEF Machine!Matches, Machine!Shape, Machine!Held, Machine!Expected, Machine!Code, Machine!AsyncValue
LEMMA TrueAll ==
  ASSUME \A i \in DOMAIN machines' : \A q : q = machines'[i].stack => \A j \in DOMAIN q : Machine!OperandTrue(q[j], i)',
         \A p \in DOMAIN promises' : Machine!PromiseTrue(p)'
  PROVE  Machine!AllTrue'
BY DEF Machine!AllTrue, Machine!OperandTrue, Machine!PromiseTrue
LEMMA SuspendedAll ==
  ASSUME \A t, r : t = machines'[1] /\ r = machines'[1].stack /\ suspension' # 0 =>
                     Append(Machine!Shape(r)', <<promises'[suspension'].handle, 0>>) = Machine!Expected(t)'
  PROVE  Machine!SuspendedMatches'
BY DEF Machine!SuspendedMatches, Machine!Shape, Machine!Held, Machine!Expected, Machine!Code, Machine!AsyncValue
LEMMA CodeSame ==
  ASSUME NEW t, program' = program
  PROVE  Machine!Expected(t)' = Machine!Expected(t) /\ Machine!Code(t)' = Machine!Code(t)
BY DEF Machine!Expected, Machine!Code, Machine!AsyncValue
LEMMA MovedIs ==
  ASSUME Machine!MachinesInv, NEW n, n \in DOMAIN machines, NEW stack,
         machines' = [machines EXCEPT ![n].ip = @ + 1, ![n].stack = stack]
  PROVE  /\ DOMAIN machines' = DOMAIN machines /\ machines'[n].fn = machines[n].fn
         /\ machines'[n].ip = machines[n].ip + 1 /\ machines'[n].stack = stack
         /\ \A i \in DOMAIN machines : i # n => machines'[i] = machines[i]
<1>1. PICK x, y : x = machines[n] /\ y = [x EXCEPT !.ip = x.ip + 1, !.stack = stack]
  OBVIOUS
<1>2. x \in [fn : {"main", "async"}, ip : Nat, stack : Machine!Operands]
  BY <1>1, MachineTyped
<1>3. y.fn = x.fn /\ y.ip = x.ip + 1 /\ y.stack = stack
  BY <1>1, <1>2
<1>4. machines' = [machines EXCEPT ![n] = y]
  BY <1>1
<1>5. QED
  BY <1>1, <1>3, <1>4

LEMMA StackTyped ==
  ASSUME Machine!MachinesInv, NEW i \in DOMAIN machines
  PROVE  /\ machines[i].stack \in Seq([promise : 0 .. Len(promises), of : Machine!Things])
         /\ \A j \in DOMAIN machines[i].stack : machines[i].stack[j].promise \in 0 .. Len(promises)
<1>1. PICK q, T : q = machines[i].stack /\ T = [promise : 0 .. Len(promises), of : Machine!Things]
  OBVIOUS
<1>2. q \in Seq(T)
  BY <1>1, MachineTyped DEF Machine!Operands
<1>3. \A j \in DOMAIN q : q[j] \in T
  BY <1>2, EachOf
<1>4. QED
  BY <1>1, <1>2, <1>3

(* A machine that does not move keeps its operands and what they are of.   *)
LEMMA MatchKept ==
  ASSUME Machine!PromisesInv, Machine!MachinesInv, PromisesKept, program' = program,
         NEW i \in DOMAIN machines, NEW t, t = machines[i], Machine!Matches(t)
  PROVE  Machine!Matches(t)'
<1>1. \A j \in DOMAIN t.stack : t.stack[j].promise \in 0 .. Len(promises)
  BY StackTyped
<1>2. PICK q : q = t.stack
  OBVIOUS
<1>3. Machine!Shape(q)' = Machine!Shape(q)
  BY <1>1, <1>2, ShapeKept
<1>4. Machine!Expected(t)' = Machine!Expected(t)
  BY CodeSame
<1>5. Machine!Shape(t.stack)' = Machine!Shape(t.stack)
  BY <1>2, <1>3
<1>6. QED
  BY <1>4, <1>5 DEF Machine!Matches

LEMMA OperandKept ==
  ASSUME Machine!PromisesInv, PromisesKept, HandlesKept, NEW v, v.promise \in 0 .. Len(promises), NEW i,
         Machine!OperandTrue(v, i)
  PROVE  Machine!OperandTrue(v, i)'
<1>1. v.promise # 0 => v.promise \in DOMAIN promises
  BY PromiseTyped
<1>2. v.promise # 0 => promises'[v.promise].inner = promises[v.promise].inner
  BY <1>1 DEF PromisesKept
<1>3. v.of \in Handles /\ host[v.of] = "ready" => host'[v.of] = "ready"
  BY DEF HandlesKept
<1>4. QED
  BY <1>2, <1>3 DEF Machine!OperandTrue

LEMMA OperandsKept ==
  ASSUME Machine!PromisesInv, Machine!MachinesInv, Machine!AllTrue, PromisesKept, HandlesKept,
         NEW i \in DOMAIN machines, NEW q, q = machines[i].stack
  PROVE  \A j \in DOMAIN q : Machine!OperandTrue(q[j], i)'
<1>1. \A j \in DOMAIN q : q[j].promise \in 0 .. Len(promises) /\ Machine!OperandTrue(q[j], i)
  BY StackTyped DEF Machine!AllTrue
<1>2. QED
  BY <1>1, OperandKept

(* The machine on top has carried out its instruction.                     *)
Carried(n, stack, code) ==
  /\ n = Len(machines) /\ n \in DOMAIN machines /\ code = Machine!Code(machines[n])
  /\ machines[n].ip \in DOMAIN code /\ machines[n].ip \in 1 .. Len(code) /\ Len(code) \in Nat
  /\ machines' = [machines EXCEPT ![n].ip = @ + 1, ![n].stack = stack]
  /\ program' = program /\ suspension' = 0

LEMMA CarriedMatches ==
  ASSUME program \in Programs, Machine!RunInv, Machine!CoherentInv, Machine!Computing, PromisesKept, HandlesKept,
         NEW n, NEW stack, NEW code, Carried(n, stack, code),
         NEW q, q = machines[n].stack, NEW s, s = Machine!Shape(q),
         Machine!Shape(stack)' = Machine!Effect(s, code[machines[n].ip], Returned(machines[n].fn)),
         \A j \in DOMAIN stack : Machine!OperandTrue(stack[j], n)',
         \A p \in DOMAIN promises' : Machine!PromiseTrue(p)'
  PROVE  Machine!CoherentInv'
<1>0. Machine!PromisesInv /\ Machine!MachinesInv /\ n \in DOMAIN machines
  BY DEF Carried, Machine!RunInv
<1>1. PICK x, y : x = machines[n] /\ y = machines'[n]
  OBVIOUS
<1>2. /\ DOMAIN machines' = DOMAIN machines /\ y.fn = x.fn /\ y.ip = x.ip + 1 /\ y.stack = stack
      /\ \A i \in DOMAIN machines : i # n => machines'[i] = machines[i]
  <2>1. machines' = [machines EXCEPT ![n].ip = @ + 1, ![n].stack = stack]
    BY DEF Carried
  <2>2. QED
    BY <1>0, <1>1, <2>1, MovedIs
<1>3. \A i \in DOMAIN machines : Machine!Matches(machines[i])
  BY DEF Machine!CoherentInv, Machine!MachinesMatch
<1>4. Machine!Matches(y)'
  <2>1. Machine!Expected(x) = s
    BY <1>0, <1>1, <1>3 DEF Machine!Matches
  <2>2. Machine!Expected(y) = Machine!Effect(Machine!Expected(x), code[x.ip], Returned(x.fn))
    <3>1. Machine!Code(x) = code /\ Len(code) \in Nat /\ x.ip \in 1 .. Len(code)
      BY <1>1 DEF Carried
    <3>2. QED
      BY <1>2, <3>1, ExpectedIs
  <2>3. Machine!Expected(y)' = Machine!Expected(y)
    BY CodeSame DEF Carried
  <2>4. Machine!Shape(stack)' = Machine!Expected(y)'
    BY <1>1, <2>1, <2>2, <2>3
  <2>5. QED
    BY <1>2, <2>4 DEF Machine!Matches
<1>5. ASSUME NEW i \in DOMAIN machines', NEW t, t = machines'[i] PROVE Machine!Matches(t)'
  <2>1. CASE i = n
    BY <1>1, <1>4, <1>5, <2>1
  <2>2. CASE i # n
    <3>1. i \in DOMAIN machines /\ t = machines[i] /\ Machine!Matches(t)
      BY <1>2, <1>3, <1>5, <2>2
    <3>2. QED
      BY <1>0, <3>1, MatchKept DEF Carried
  <2>3. QED
    BY <2>1, <2>2
<1>6. Machine!MachinesMatch'
  <2>1. (\A i \in DOMAIN machines : Machine!Matches(machines[i]))'
    BY <1>5, MatchAll
  <2>2. suspension' = 0
    BY DEF Carried
  <2>3. QED
    BY <2>1, <2>2 DEF Machine!MachinesMatch
<1>7. Machine!SuspendedMatches'
  BY DEF Machine!SuspendedMatches, Carried
<1>8. Machine!AllTrue'
  <2>1. ASSUME NEW i \in DOMAIN machines', NEW r, r = machines'[i].stack
        PROVE  \A j \in DOMAIN r : Machine!OperandTrue(r[j], i)'
    <3>1. CASE i = n
      BY <1>1, <1>2, <2>1, <3>1
    <3>2. CASE i # n
      <4>1. i \in DOMAIN machines /\ r = machines[i].stack
        BY <1>2, <2>1, <3>2
      <4>2. QED
        BY <1>0, <4>1, OperandsKept DEF Machine!CoherentInv
    <3>3. QED
      BY <3>1, <3>2
  <2>2. QED
    BY <2>1, TrueAll
<1>9. QED
  BY <1>6, <1>7, <1>8 DEF Machine!CoherentInv

LEMMA StillTrue ==
  ASSUME Machine!CoherentInv, promises' = promises, host' = host
  PROVE  PromisesKept /\ HandlesKept /\ \A p \in DOMAIN promises' : Machine!PromiseTrue(p)'
<1>1. \A p \in DOMAIN promises : Machine!PromiseTrue(p)
  BY DEF Machine!CoherentInv, Machine!AllTrue
<1>2. \A p \in DOMAIN promises' : Machine!PromiseTrue(p)'
  BY <1>1 DEF Machine!PromiseTrue
<1>3. PromisesKept
  BY DEF PromisesKept
<1>4. QED
  BY <1>2, <1>3 DEF HandlesKept

LEMMA CarriedIs ==
  ASSUME NEW n, NEW code, NEW name, NEW stack, AtStep(n, code, name), n = Len(machines),
         code = Machine!Code(machines[n]),
         machines' = [machines EXCEPT ![n].ip = @ + 1, ![n].stack = stack],
         program' = program, suspension' = suspension
  PROVE  Carried(n, stack, code)
<1>1. DOMAIN code = 1 .. Len(code) /\ Len(code) \in Nat
  BY DEF AtStep, Machine!WellFormed
<1>2. QED
  BY <1>1 DEF AtStep, Carried

(* What a stack looks like after a push.                                   *)
LEMMA ShapePushed ==
  ASSUME Machine!PromisesInv, PromisesKept, NEW f, f \in Seq([promise : 0 .. Len(promises), of : Machine!Things]),
         NEW v, NEW stack, stack = Append(f, v)
  PROVE  Machine!Shape(stack)' = Append(Machine!Shape(f), Machine!Held(v)')
<1>1. PICK T : T = [promise : 0 .. Len(promises), of : Machine!Things]
  OBVIOUS
<1>2. f \in Seq(T)
  BY <1>1
<1>3. \A j \in DOMAIN f : f[j] \in T
  BY <1>2, EachOf
<1>4. \A j \in DOMAIN f : f[j].promise \in 0 .. Len(promises)
  BY <1>1, <1>3
<1>5. Machine!Shape(f)' = Machine!Shape(f)
  BY <1>4, ShapeKept
<1>6. PICK n, r, z, h : n = Len(f) /\ r = Machine!Shape(f)' /\ z = Machine!Shape(stack)' /\ h = Machine!Held(v)'
  OBVIOUS
<1>7. n \in Nat /\ DOMAIN f = 1 .. n /\ DOMAIN stack = 1 .. n + 1 /\ stack[n + 1] = v /\ \A i \in 1 .. n : stack[i] = f[i]
  BY <1>2, <1>6, AppendIs
<1>8. r = [i \in 1 .. n |-> Machine!Held(f[i])'] /\ z = [i \in 1 .. n + 1 |-> Machine!Held(stack[i])']
  BY <1>6, <1>7 DEF Machine!Shape
<1>9. IsLonger(z, r, n, h)
  <2>1. r = [i \in 1 .. n |-> r[i]] /\ z = [i \in 1 .. n + 1 |-> z[i]]
    BY <1>8
  <2>2. ASSUME NEW i \in 1 .. n PROVE z[i] = r[i]
    <3>1. i \in 1 .. n + 1 /\ stack[i] = f[i]
      BY <1>7
    <3>2. QED
      BY <1>8, <3>1
  <2>3. z[n + 1] = h
    BY <1>6, <1>7, <1>8
  <2>4. QED
    BY <1>7, <2>1, <2>2, <2>3 DEF IsLonger
<1>10. z = Append(r, h)
  BY <1>9, MapAppended
<1>11. QED
  BY <1>5, <1>6, <1>10

LEMMA OperandsPushed ==
  ASSUME Machine!PromisesInv, PromisesKept, HandlesKept, NEW n, NEW q,
         q \in Seq([promise : 0 .. Len(promises), of : Machine!Things]),
         \A j \in DOMAIN q : Machine!OperandTrue(q[j], n),
         NEW v, Machine!OperandTrue(v, n)', NEW stack, stack = Append(q, v)
  PROVE  \A j \in DOMAIN stack : Machine!OperandTrue(stack[j], n)'
<1>1. PICK T : T = [promise : 0 .. Len(promises), of : Machine!Things]
  OBVIOUS
<1>2. q \in Seq(T)
  BY <1>1
<1>3. \A j \in DOMAIN q : q[j] \in T
  BY <1>2, EachOf
<1>4. \A j \in DOMAIN q : q[j].promise \in 0 .. Len(promises)
  BY <1>1, <1>3
<1>5. \A j \in DOMAIN q : Machine!OperandTrue(q[j], n)'
  BY <1>4, OperandKept
<1>6. DOMAIN stack = 1 .. Len(q) + 1 /\ Len(q) \in Nat /\ DOMAIN q = 1 .. Len(q)
      /\ stack[Len(q) + 1] = v /\ \A i \in 1 .. Len(q) : stack[i] = q[i]
  BY <1>2, AppendIs
<1>7. ASSUME NEW j \in DOMAIN stack PROVE Machine!OperandTrue(stack[j], n)'
  <2>1. j \in 1 .. Len(q) \/ j = Len(q) + 1
    BY <1>6
  <2>2. CASE j \in 1 .. Len(q)
    BY <1>5, <1>6, <2>2
  <2>3. CASE j = Len(q) + 1
    BY <1>6, <2>3
  <2>4. QED
    BY <2>1, <2>2, <2>3
<1>8. QED
  BY <1>7

(* The instruction leaves v on top of f.                                   *)
LEMMA PushMatches ==
  ASSUME program \in Programs, Machine!RunInv, Machine!CoherentInv, Machine!Computing, PromisesKept, HandlesKept,
         \A p \in DOMAIN promises' : Machine!PromiseTrue(p)',
         NEW n, NEW code, NEW f, f \in Seq([promise : 0 .. Len(promises), of : Machine!Things]),
         \A j \in DOMAIN f : Machine!OperandTrue(f[j], n),
         NEW v, Machine!OperandTrue(v, n)', NEW stack, stack = Append(f, v), Carried(n, stack, code),
         Append(Machine!Shape(f), Machine!Held(v)') =
           Machine!Effect(Machine!Shape(machines[n].stack), code[machines[n].ip], Returned(machines[n].fn))
  PROVE  Machine!CoherentInv'
<1>1. PICK q, s : q = machines[n].stack /\ s = Machine!Shape(q)
  OBVIOUS
<1>2. Machine!Shape(stack)' = Append(Machine!Shape(f), Machine!Held(v)')
  BY ShapePushed DEF Machine!RunInv
<1>3. Machine!Shape(stack)' = Machine!Effect(s, code[machines[n].ip], Returned(machines[n].fn))
  BY <1>1, <1>2
<1>4. \A j \in DOMAIN stack : Machine!OperandTrue(stack[j], n)'
  BY OperandsPushed DEF Machine!RunInv
<1>5. QED
  BY <1>1, <1>3, <1>4, CarriedMatches

(* The operands of the machine on top, before it carries out name.         *)
Ready(n, code, q, name) ==
  /\ n = Len(machines) /\ n > 0 /\ n \in DOMAIN machines /\ code = Machine!Code(machines[n]) /\ q = machines[n].stack
  /\ AtStep(n, code, name) /\ Machine!Computing /\ suspension = 0
  /\ q \in Seq([promise : 0 .. Len(promises), of : Machine!Things])
  /\ \A j \in DOMAIN q : Machine!OperandTrue(q[j], n)

LEMMA ReadyIs ==
  ASSUME program \in Programs, Machine!RunInv, Machine!CoherentInv, Machine!Computing, Len(machines) > 0,
         NEW name, Machine!AtCall(machines[Len(machines)], name)
  PROVE  \E n, code, q : Ready(n, code, q, name)
<1>1. PICK n, code, q : n = Len(machines) /\ code = Machine!Code(machines[n]) /\ q = machines[n].stack
  OBVIOUS
<1>2. AtStep(n, code, name)
  BY <1>1, AtInstruction
<1>3. n \in DOMAIN machines /\ suspension = 0
  BY <1>2 DEF AtStep
<1>4. q \in Seq([promise : 0 .. Len(promises), of : Machine!Things])
  BY <1>1, <1>3, StackTyped DEF Machine!RunInv
<1>5. \A j \in DOMAIN q : Machine!OperandTrue(q[j], n)
  BY <1>1, <1>3 DEF Machine!CoherentInv, Machine!AllTrue
<1>6. QED
  BY <1>1, <1>2, <1>3, <1>4, <1>5 DEF Ready

(* What an instruction leaves, by its name.                                *)
LEMMA EffectIs ==
  ASSUME NEW s, NEW i, NEW value
  PROVE  /\ i.op = "poll"  => Machine!Effect(s, i, value) = Append(s, <<i.arg, 1>>)
         /\ i.op = "call"  => Machine!Effect(s, i, value) = Append(s, <<i.arg, 0>>)
         /\ i.op = "load"  => Machine!Effect(s, i, value) = Append(s, s[i.arg])
         /\ i.op = "async" => Machine!Effect(s, i, value) = Append(s, <<value[1], value[2] + 1>>)
         /\ i.op = "await" =>
              Machine!Effect(s, i, value) =
                Append(Machine!Front(s), <<Machine!Last(s)[1], IF Machine!Last(s)[2] = 0 THEN 0 ELSE Machine!Last(s)[2] - 1>>)
BY DEF Machine!Effect

LEMMA LoadMatches ==
  ASSUME program \in Programs, Machine!RunInv, Machine!CoherentInv, Machine!LoadLocal
  PROVE  Machine!CoherentInv'
<1>1. PICK n, code, q : Ready(n, code, q, "load")
  BY AtOpIs, ReadyIs DEF Machine!LoadLocal
<1>2. /\ n = Len(machines) /\ n \in DOMAIN machines /\ q = machines[n].stack /\ AtStep(n, code, "load")
      /\ code = Machine!Code(machines[n]) /\ Machine!Computing /\ \A j \in DOMAIN q : Machine!OperandTrue(q[j], n)
      /\ q \in Seq([promise : 0 .. Len(promises), of : Machine!Things])
  BY <1>1 DEF Ready
<1>3. PICK k, v, stack : k = code[machines[n].ip].arg /\ v = q[k] /\ stack = Append(q, v)
  OBVIOUS
<1>4. code[machines[n].ip].op = "load" /\ k \in 1 .. Len(q) /\ k \in DOMAIN q
  BY <1>2, <1>3, EachOf DEF AtStep, Machine!WellFormed
<1>5. /\ program' = program /\ suspension' = suspension /\ promises' = promises /\ host' = host
      /\ machines' = [machines EXCEPT ![n].ip = @ + 1, ![n].stack = stack]
  BY <1>2, <1>3, AtOpIs DEF Machine!LoadLocal, Machine!fixed, Machine!Advance, Machine!Top
<1>6. PromisesKept /\ HandlesKept /\ \A p \in DOMAIN promises' : Machine!PromiseTrue(p)'
  BY <1>5, StillTrue
<1>7. Carried(n, stack, code)
  BY <1>2, <1>5, CarriedIs
<1>8. v.promise \in 0 .. Len(promises) /\ Machine!OperandTrue(v, n)
  BY <1>2, <1>3, <1>4, StackTyped DEF Machine!RunInv
<1>9. Machine!OperandTrue(v, n)' /\ Machine!Held(v)' = Machine!Held(v)
  BY <1>6, <1>8, OperandKept, HeldKept DEF Machine!RunInv
<1>10. PICK s : s = Machine!Shape(q)
  OBVIOUS
<1>11. s[k] = Machine!Held(v)
  BY <1>3, <1>4, <1>10 DEF Machine!Shape
<1>12. Append(s, Machine!Held(v)') = Machine!Effect(s, code[machines[n].ip], Returned(machines[n].fn))
  BY <1>3, <1>4, <1>9, <1>11, EffectIs
<1>13. QED
  BY <1>2, <1>3, <1>6, <1>7, <1>9, <1>10, <1>12, PushMatches

LEMMA CalledMatches ==
  ASSUME program \in Programs, Machine!RunInv, Machine!CoherentInv, Machine!Called
  PROVE  Machine!CoherentInv'
<1>1. /\ op.kind = "call" /\ Machine!Advance(Machine!Plain(op.handle))
      /\ program' = program /\ suspension' = suspension /\ promises' = promises /\ host' = host
  BY DEF Machine!Called, Machine!fixed
<1>2. PICK n, code, q : Ready(n, code, q, "call")
  BY <1>1, OperationIs, ReadyIs
<1>3. /\ n = Len(machines) /\ n \in DOMAIN machines /\ q = machines[n].stack /\ AtStep(n, code, "call")
      /\ code = Machine!Code(machines[n]) /\ Machine!Computing /\ \A j \in DOMAIN q : Machine!OperandTrue(q[j], n)
      /\ q \in Seq([promise : 0 .. Len(promises), of : Machine!Things])
  BY <1>2 DEF Ready
<1>4. PICK h, v, stack : h = op.handle /\ v = Machine!Plain(h) /\ stack = Append(q, v)
  OBVIOUS
<1>5. code[machines[n].ip].op = "call" /\ h = code[machines[n].ip].arg /\ h \notin Handles
  BY <1>1, <1>3, <1>4, OperationIs DEF AtStep, Machine!WellFormed
<1>6. machines' = [machines EXCEPT ![n].ip = @ + 1, ![n].stack = stack]
  BY <1>1, <1>3, <1>4 DEF Machine!Advance
<1>7. PromisesKept /\ HandlesKept /\ \A p \in DOMAIN promises' : Machine!PromiseTrue(p)'
  BY <1>1, StillTrue
<1>8. Carried(n, stack, code)
  BY <1>1, <1>3, <1>6, CarriedIs
<1>9. Machine!OperandTrue(v, n)' /\ Machine!Held(v)' = <<h, 0>>
  BY <1>4, <1>5 DEF Machine!Plain, Machine!OperandTrue, Machine!Held
<1>10. PICK s : s = Machine!Shape(q)
  OBVIOUS
<1>11. Append(s, Machine!Held(v)') = Machine!Effect(s, code[machines[n].ip], Returned(machines[n].fn))
  BY <1>5, <1>9, EffectIs
<1>12. QED
  BY <1>3, <1>4, <1>7, <1>8, <1>9, <1>10, <1>11, PushMatches

(* One promise more, of what is known of its handle.                       *)
LEMMA OneMore ==
  ASSUME Machine!PromisesInv, Machine!CoherentInv, host' = host, NEW r, promises' = Append(promises, r),
         NEW n, n = Len(promises),
         r.status = "pending" => r.inner = 0,
         r.inner # 0 => r.inner \in DOMAIN promises /\ promises[r.inner].inner = 0 /\ r.handle = None,
         r.handle \in Handles /\ r.status # "pending" => r.status = host[r.handle]
  PROVE  /\ PromisesKept /\ HandlesKept /\ n \in Nat /\ promises'[n + 1] = r
         /\ \A p \in DOMAIN promises' : Machine!PromiseTrue(p)'
<1>1. PICK T, ps : T = [handle : Machine!Things, inner : Nat, status : Machine!HostState] /\ ps = promises
  OBVIOUS
<1>2. ps \in Seq(T) /\ n = Len(ps) /\ promises' = Append(ps, r)
  BY <1>1 DEF Machine!PromisesInv
<1>3. /\ DOMAIN promises' = 1 .. n + 1 /\ n \in Nat /\ DOMAIN ps = 1 .. n /\ promises'[n + 1] = r
      /\ \A i \in 1 .. n : promises'[i] = ps[i]
  BY <1>2, AppendIs
<1>4. Len(promises') = n + 1
  BY <1>2
<1>5. PromisesKept
  BY <1>1, <1>3, <1>4 DEF PromisesKept
<1>6. \A p \in 1 .. n : Machine!PromiseTrue(p) /\ ps[p].inner \in Nat /\ ps[p].inner < p
  BY <1>1, <1>3, PromiseTyped DEF Machine!CoherentInv, Machine!AllTrue
<1>7. ASSUME NEW p \in 1 .. n PROVE Machine!PromiseTrue(p)'
  <2>1. promises'[p] = ps[p] /\ (ps[p].inner # 0 => promises'[ps[p].inner] = ps[ps[p].inner])
    BY <1>3, <1>6
  <2>2. QED
    BY <1>1, <1>6, <2>1 DEF Machine!PromiseTrue
<1>8. Machine!PromiseTrue(n + 1)'
  BY <1>1, <1>3 DEF Machine!PromiseTrue
<1>9. \A p \in 1 .. n + 1 : p \in 1 .. n \/ p = n + 1
  BY <1>3
<1>10. QED
  BY <1>3, <1>5, <1>7, <1>8, <1>9 DEF HandlesKept

LEMMA PolledMatches ==
  ASSUME Machine!TypeOK, Machine!RunInv, Machine!CoherentInv, Machine!Polled
  PROVE  Machine!CoherentInv'
<1>0. program \in Programs
  BY DEF Machine!TypeOK
<1>1. PICK h, r, m : /\ h = op.handle /\ r = [handle |-> h, inner |-> 0, status |-> host[h]]
                     /\ m = Len(promises)
  OBVIOUS
<1>2. /\ op.kind = "poll" /\ Machine!Advance(Machine!Promise(m + 1))
      /\ program' = program /\ suspension' = suspension /\ promises' = Append(promises, r) /\ host' = host
  BY <1>1 DEF Machine!Polled, Machine!fixed
<1>3. PICK n, code, q : Ready(n, code, q, "poll")
  BY <1>0, <1>2, OperationIs, ReadyIs
<1>4. /\ n = Len(machines) /\ n \in DOMAIN machines /\ q = machines[n].stack /\ AtStep(n, code, "poll")
      /\ code = Machine!Code(machines[n]) /\ Machine!Computing /\ \A j \in DOMAIN q : Machine!OperandTrue(q[j], n)
      /\ q \in Seq([promise : 0 .. Len(promises), of : Machine!Things])
  BY <1>3 DEF Ready
<1>5. PICK v, stack : v = Machine!Promise(m + 1) /\ stack = Append(q, v)
  OBVIOUS
<1>6. code[machines[n].ip].op = "poll" /\ h = code[machines[n].ip].arg
  BY <1>0, <1>1, <1>2, <1>4, OperationIs DEF AtStep
<1>7. machines' = [machines EXCEPT ![n].ip = @ + 1, ![n].stack = stack]
  BY <1>2, <1>4, <1>5 DEF Machine!Advance
<1>8. /\ PromisesKept /\ HandlesKept /\ m \in Nat /\ promises'[m + 1] = r
      /\ \A p \in DOMAIN promises' : Machine!PromiseTrue(p)'
  <2>1. /\ r.handle = h /\ r.inner = 0 /\ r.status = host[h]
    BY <1>1
  <2>2. QED
    BY <1>1, <1>2, <2>1, OneMore DEF Machine!RunInv
<1>9. Carried(n, stack, code)
  BY <1>2, <1>4, <1>7, CarriedIs
<1>10. Machine!OperandTrue(v, n)' /\ Machine!Held(v)' = <<h, 1>>
  <2>1. v.promise = m + 1 /\ v.of = None /\ m + 1 # 0 /\ promises'[m + 1].inner = 0 /\ promises'[m + 1].handle = h
    BY <1>1, <1>5, <1>8 DEF Machine!Promise
  <2>2. QED
    BY <2>1 DEF Machine!OperandTrue, Machine!Held
<1>11. PICK s : s = Machine!Shape(q)
  OBVIOUS
<1>12. Append(s, Machine!Held(v)') = Machine!Effect(s, code[machines[n].ip], Returned(machines[n].fn))
  BY <1>6, <1>10, EffectIs
<1>13. QED
  BY <1>0, <1>4, <1>5, <1>8, <1>9, <1>10, <1>11, <1>12, PushMatches

(* A call ends, or the host has not answered: no machine moves.            *)
LEMMA StoppedMatches ==
  ASSUME Machine!RunInv, Machine!CoherentInv, program' = program, promises' = promises, host' = host,
         machines # <<>>, machines' = machines \/ machines' = <<machines[1]>>,
         suspension' = suspension \/ suspension' = 0,
         ~Machine!Computing', ~(phase' = "idle" /\ result' = "done")
  PROVE  Machine!CoherentInv'
<1>1. PromisesKept /\ HandlesKept /\ \A p \in DOMAIN promises' : Machine!PromiseTrue(p)'
  BY StillTrue
<1>2. 1 \in DOMAIN machines /\ machines'[1] = machines[1]
  BY TopIs
<1>3. \A i \in DOMAIN machines' : i \in DOMAIN machines /\ machines'[i] = machines[i]
  BY <1>2
<1>4. Machine!MachinesMatch'
  BY DEF Machine!MachinesMatch, Machine!Computing
<1>5. Machine!SuspendedMatches'
  <2>1. PICK x : x = machines[1]
    OBVIOUS
  <2>2. Machine!Expected(x)' = Machine!Expected(x)
    BY CodeSame
  <2>3. \A j \in DOMAIN x.stack : x.stack[j].promise \in 0 .. Len(promises)
    BY <1>2, <2>1, StackTyped DEF Machine!RunInv
  <2>4. PICK q : q = x.stack
    OBVIOUS
  <2>5. Machine!Shape(q)' = Machine!Shape(q)
    BY <1>1, <2>3, <2>4, ShapeKept DEF Machine!RunInv
  <2>6. suspension # 0 => Append(Machine!Shape(q), <<promises[suspension].handle, 0>>) = Machine!Expected(x)
    BY <2>1, <2>4 DEF Machine!CoherentInv, Machine!SuspendedMatches
  <2>7. suspension' # 0 => Append(Machine!Shape(q)', <<promises'[suspension'].handle, 0>>) = Machine!Expected(x)'
    BY <2>2, <2>5, <2>6
  <2>8. \A t, r : t = machines'[1] /\ r = machines'[1].stack /\ suspension' # 0 =>
                    Append(Machine!Shape(r)', <<promises'[suspension'].handle, 0>>) = Machine!Expected(t)'
    BY <1>2, <2>1, <2>4, <2>7
  <2>9. QED
    BY <2>8, SuspendedAll
<1>6. Machine!AllTrue'
  <2>1. ASSUME NEW i \in DOMAIN machines', NEW r, r = machines'[i].stack
        PROVE  \A j \in DOMAIN r : Machine!OperandTrue(r[j], i)'
    <3>1. i \in DOMAIN machines /\ r = machines[i].stack
      BY <1>3, <2>1
    <3>2. QED
      BY <1>1, <3>1, OperandsKept DEF Machine!CoherentInv, Machine!RunInv
  <2>2. QED
    BY <1>1, <2>1, TrueAll
<1>7. QED
  BY <1>4, <1>5, <1>6 DEF Machine!CoherentInv

LEMMA FrontOf ==
  ASSUME NEW T, NEW q \in Seq(T), Len(q) > 0
  PROVE  \A j \in DOMAIN Machine!Front(q) : j \in DOMAIN q /\ Machine!Front(q)[j] = q[j]
<1>1. PICK n : n = Len(q) - 1
  OBVIOUS
<1>2. n \in Nat /\ Machine!Front(q) = SubSeq(q, 1, n)
  BY <1>1 DEF Machine!Front
<1>3. QED
  BY <1>1, <1>2

(* An await finds an operand on top, v, above f.                           *)
Awaits(n, code, q, f, v) ==
  /\ n = Len(machines) /\ n \in DOMAIN machines /\ code = Machine!Code(machines[n]) /\ q = machines[n].stack
  /\ q = Machine!Top.stack
  /\ AtStep(n, code, "await") /\ Machine!Computing /\ suspension = 0 /\ Len(q) > 0
  /\ q \in Seq([promise : 0 .. Len(promises), of : Machine!Things])
  /\ \A j \in DOMAIN q : Machine!OperandTrue(q[j], n)
  /\ f = Machine!Front(q) /\ f \in Seq([promise : 0 .. Len(promises), of : Machine!Things])
  /\ \A j \in DOMAIN f : Machine!OperandTrue(f[j], n)
  /\ v = Machine!Last(q) /\ v.promise \in 0 .. Len(promises) /\ Machine!OperandTrue(v, n)
  /\ Machine!Shape(f) = Machine!Front(Machine!Shape(q)) /\ Machine!Last(Machine!Shape(q)) = Machine!Held(v)
  /\ Machine!Shape(q) = Append(Machine!Shape(f), Machine!Held(v))
  /\ \A value : Machine!Effect(Machine!Shape(q), code[machines[n].ip], value) =
       Append(Machine!Shape(f), <<Machine!Held(v)[1], IF Machine!Held(v)[2] = 0 THEN 0 ELSE Machine!Held(v)[2] - 1>>)

LEMMA AwaitsIs ==
  ASSUME program \in Programs, Machine!RunInv, Machine!CoherentInv, Machine!AtOp("await")
  PROVE  \E n, code, q, f, v : Awaits(n, code, q, f, v)
<1>1. PICK n, code, q : Ready(n, code, q, "await")
  BY AtOpIs, ReadyIs
<1>2. /\ n = Len(machines) /\ n \in DOMAIN machines /\ code = Machine!Code(machines[n]) /\ q = machines[n].stack
      /\ AtStep(n, code, "await") /\ Machine!Computing /\ suspension = 0
      /\ q \in Seq([promise : 0 .. Len(promises), of : Machine!Things])
      /\ \A j \in DOMAIN q : Machine!OperandTrue(q[j], n)
  BY <1>1 DEF Ready
<1>3. Len(q) > 0 /\ code[machines[n].ip].op = "await"
  BY <1>2 DEF AtStep, Machine!WellFormed
<1>4. PICK T, f, v : /\ T = [promise : 0 .. Len(promises), of : Machine!Things]
                     /\ f = Machine!Front(q) /\ v = Machine!Last(q)
  OBVIOUS
<1>5. q \in Seq(T)
  BY <1>2, <1>4
<1>6. f \in Seq(T) /\ v \in T
  BY <1>3, <1>4, <1>5, FrontIs
<1>7. \A j \in DOMAIN f : Machine!OperandTrue(f[j], n)
  BY <1>2, <1>3, <1>4, <1>5, FrontOf
<1>8. Machine!OperandTrue(v, n)
  <2>1. Len(q) \in DOMAIN q /\ v = q[Len(q)]
    BY <1>3, <1>4, <1>5 DEF Machine!Last
  <2>2. QED
    BY <1>2, <2>1
<1>9. /\ Machine!Shape(f) = Machine!Front(Machine!Shape(q)) /\ Machine!Last(Machine!Shape(q)) = Machine!Held(v)
      /\ Machine!Shape(q) = Append(Machine!Shape(f), Machine!Held(v))
  <2>1. /\ Machine!Shape(Machine!Front(q)) = Machine!Front(Machine!Shape(q))
        /\ Machine!Last(Machine!Shape(q)) = Machine!Held(Machine!Last(q))
        /\ Machine!Shape(q) = Append(Machine!Front(Machine!Shape(q)), Machine!Last(Machine!Shape(q)))
    BY <1>3, <1>5, ShapeFront
  <2>2. QED
    BY <1>4, <2>1
<1>10. ASSUME NEW value
       PROVE  Machine!Effect(Machine!Shape(q), code[machines[n].ip], value) =
                Append(Machine!Shape(f), <<Machine!Held(v)[1], IF Machine!Held(v)[2] = 0 THEN 0 ELSE Machine!Held(v)[2] - 1>>)
  <2>1. PICK s, i : s = Machine!Shape(q) /\ i = code[machines[n].ip]
    OBVIOUS
  <2>2. Machine!Effect(s, i, value) =
          Append(Machine!Front(s), <<Machine!Last(s)[1], IF Machine!Last(s)[2] = 0 THEN 0 ELSE Machine!Last(s)[2] - 1>>)
    BY <1>3, <2>1, EffectIs
  <2>3. QED
    BY <1>9, <2>1, <2>2
<1>11. q = Machine!Top.stack
  BY <1>2 DEF Machine!Top
<1>12. Awaits(n, code, q, f, v)
  BY <1>2, <1>3, <1>4, <1>6, <1>7, <1>8, <1>9, <1>10, <1>11 DEF Awaits
<1>13. QED
  BY <1>12

(* What a settled promise yields: a value of a handle that is ready, or the*)
(* promise that an async function returned.                                *)
LEMMA YieldedIs ==
  ASSUME Machine!RunInv, Machine!CoherentInv, NEW v, v.promise \in 0 .. Len(promises), NEW n,
         Machine!OperandTrue(v, n), v.promise # 0, promises[v.promise].status = "ready",
         NEW y, y = Machine!Yielded(v.promise)
  PROVE  /\ y.promise \in 0 .. Len(promises) /\ Machine!OperandTrue(y, n)
         /\ Machine!Held(v)[2] # 0
         /\ Machine!Held(y) = <<Machine!Held(v)[1], Machine!Held(v)[2] - 1>>
<1>1. PICK p, k, h : p = v.promise /\ k = promises[p].inner /\ h = promises[p].handle
  OBVIOUS
<1>2. /\ p \in DOMAIN promises /\ p # 0 /\ k \in Nat /\ k < p /\ k \in 0 .. Len(promises) /\ Len(promises) \in Nat
  BY <1>1, PromiseTyped DEF Machine!RunInv
<1>3. Machine!PromiseTrue(p)
  BY <1>2 DEF Machine!CoherentInv, Machine!AllTrue
<1>4. /\ k # 0 => promises[k].inner = 0 /\ h = None
      /\ h \in Handles => host[h] = "ready"
  BY <1>1, <1>3 DEF Machine!PromiseTrue
<1>5. y.promise = k /\ y.of = h
  BY <1>1 DEF Machine!Yielded
<1>6. n = 2 => k = 0
  BY <1>1 DEF Machine!OperandTrue
<1>7. Machine!OperandTrue(y, n)
  BY <1>4, <1>5, <1>6 DEF Machine!OperandTrue
<1>8. Machine!Held(v) = IF k = 0 THEN <<h, 1>> ELSE <<promises[k].handle, 2>>
  BY <1>1 DEF Machine!Held
<1>9. Machine!Held(y) = IF k = 0 THEN <<h, 0>> ELSE <<promises[k].handle, 1>>
  BY <1>4, <1>5 DEF Machine!Held
<1>10. QED
  BY <1>2, <1>5, <1>7, <1>8, <1>9

LEMMA AwaitSettledMatches ==
  ASSUME program \in Programs, Machine!RunInv, Machine!CoherentInv, Machine!AwaitSettled
  PROVE  Machine!CoherentInv'
<1>1. PICK n, code, q, f, v : Awaits(n, code, q, f, v)
  BY AwaitsIs DEF Machine!AwaitSettled
<1>2. /\ n = Len(machines) /\ n \in DOMAIN machines /\ code = Machine!Code(machines[n]) /\ q = machines[n].stack
      /\ q = Machine!Top.stack /\ f = Machine!Front(q) /\ v = Machine!Last(q)
      /\ AtStep(n, code, "await") /\ Machine!Computing
      /\ \A j \in DOMAIN q : Machine!OperandTrue(q[j], n)
  BY <1>1 DEF Awaits
<1>3. /\ program' = program /\ suspension' = suspension /\ promises' = promises /\ host' = host
  BY DEF Machine!AwaitSettled, Machine!fixed
<1>4. PromisesKept /\ HandlesKept /\ \A p \in DOMAIN promises' : Machine!PromiseTrue(p)'
  BY <1>3, StillTrue
<1>5. Machine!PromisesInv /\ Machine!MachinesInv
  BY DEF Machine!RunInv
<1>6. ASSUME Machine!Awaited("ready"),
             machines' = [Machine!Popped EXCEPT ![Len(machines)].stack =
                            Append(@, Machine!Yielded(Machine!Last(Machine!Top.stack).promise))]
      PROVE  Machine!CoherentInv'
  <2>1. PICK y, stack : y = Machine!Yielded(v.promise) /\ stack = Append(f, y)
    OBVIOUS
  <2>2. machines' = [machines EXCEPT ![n].ip = @ + 1, ![n].stack = stack]
    <3>1. machines' = [Machine!Popped EXCEPT ![Len(machines)].stack = Append(@, y)]
      BY <1>2, <1>6, <2>1
    <3>2. stack = Append(Machine!Front(machines[n].stack), y)
      BY <1>2, <2>1
    <3>3. Exchanges(n, y, stack)
      BY <1>2, <3>1, <3>2 DEF Exchanges
    <3>4. QED
      BY <1>5, <3>3, PoppedThenPushed
  <2>3. Carried(n, stack, code)
    BY <1>2, <1>3, <2>2, CarriedIs
  <2>4. v.promise # 0 /\ promises[v.promise].status = "ready"
    BY <1>2, <1>6 DEF Machine!Awaited
  <2>5. /\ y.promise \in 0 .. Len(promises) /\ Machine!OperandTrue(y, n)
        /\ Machine!Held(v)[2] # 0 /\ Machine!Held(y) = <<Machine!Held(v)[1], Machine!Held(v)[2] - 1>>
    BY <1>1, <2>1, <2>4, YieldedIs DEF Awaits
  <2>6. Machine!OperandTrue(y, n)' /\ Machine!Held(y)' = Machine!Held(y)
    BY <1>4, <1>5, <2>5, OperandKept, HeldKept
  <2>7. Append(Machine!Shape(f), Machine!Held(y)') =
          Machine!Effect(Machine!Shape(machines[n].stack), code[machines[n].ip], Returned(machines[n].fn))
    BY <1>1, <1>2, <2>5, <2>6 DEF Awaits
  <2>8. f \in Seq([promise : 0 .. Len(promises), of : Machine!Things]) /\ \A j \in DOMAIN f : Machine!OperandTrue(f[j], n)
    BY <1>1 DEF Awaits
  <2>9. QED
    BY <1>2, <1>4, <2>1, <2>3, <2>6, <2>7, <2>8, PushMatches
<1>7. ASSUME v.promise = 0, machines' = [machines EXCEPT ![Len(machines)].ip = @ + 1] PROVE Machine!CoherentInv'
  <2>1. machines' = [machines EXCEPT ![n].ip = @ + 1, ![n].stack = q]
    BY <1>2, <1>5, <1>7, PlainPassed
  <2>2. Carried(n, q, code)
    BY <1>2, <1>3, <2>1, CarriedIs
  <2>3. PICK s : s = Machine!Shape(q)
    OBVIOUS
  <2>4. s = Machine!Effect(s, code[machines[n].ip], Returned(machines[n].fn))
    <3>1. Machine!Held(v) = <<v.of, 0>>
      BY <1>7 DEF Machine!Held
    <3>2. <<Machine!Held(v)[1], IF Machine!Held(v)[2] = 0 THEN 0 ELSE Machine!Held(v)[2] - 1>> = Machine!Held(v)
      BY <3>1
    <3>3. QED
      BY <1>1, <2>3, <3>2 DEF Awaits
  <2>5. \A j \in DOMAIN q : q[j].promise \in 0 .. Len(promises)
    BY <1>2, <1>5, StackTyped
  <2>6. Machine!Shape(q)' = s
    BY <1>4, <1>5, <2>3, <2>5, ShapeKept
  <2>7. \A j \in DOMAIN q : Machine!OperandTrue(q[j], n)'
    BY <1>2, <1>4, <1>5, <2>5, OperandKept
  <2>8. QED
    BY <1>2, <1>4, <2>2, <2>3, <2>4, <2>6, <2>7, CarriedMatches
<1>8. ASSUME Machine!Return("rejected"), Machine!Abandon PROVE Machine!CoherentInv'
  <2>1. /\ phase' \in {"wait", "idle"} /\ op' = Machine!NoOp /\ (phase' = "idle" => result' = "rejected")
        /\ machines' = <<machines[1]>>
    BY <1>8 DEF Machine!Return, Machine!Abandon
  <2>2. ~Machine!Computing' /\ ~(phase' = "idle" /\ result' = "done")
    BY <2>1 DEF Machine!Computing, Machine!NoOp
  <2>3. machines # <<>>
    BY AtOpIs DEF Machine!AwaitSettled
  <2>4. QED
    BY <1>3, <2>1, <2>2, <2>3, StoppedMatches
<1>9. QED
  BY <1>2, <1>6, <1>7, <1>8 DEF Machine!AwaitSettled

LEMMA AllTrueKept ==
  ASSUME Machine!RunInv, Machine!CoherentInv, PromisesKept, HandlesKept,
         \A p \in DOMAIN promises' : Machine!PromiseTrue(p)', machines' = machines
  PROVE  Machine!AllTrue'
<1>1. ASSUME NEW i \in DOMAIN machines', NEW q, q = machines'[i].stack
      PROVE  \A j \in DOMAIN q : Machine!OperandTrue(q[j], i)'
  BY <1>1, OperandsKept DEF Machine!CoherentInv, Machine!RunInv
<1>2. QED
  BY <1>1, TrueAll

(* Neither machines nor promises change, and a handle at most once.        *)
LEMMA UnmovedMatches ==
  ASSUME Machine!RunInv, Machine!CoherentInv, UNCHANGED <<program, machines, promises, suspension>>, HandlesKept,
         \/ Machine!Computing \/ (phase = "idle" /\ result = "done")
         \/ ~(Machine!Computing' \/ (phase' = "idle" /\ result' = "done"))
  PROVE  Machine!CoherentInv'
<1>1. PromisesKept
  BY DEF PromisesKept
<1>2. \A p \in DOMAIN promises' : Machine!PromiseTrue(p)'
  <2>1. \A p \in DOMAIN promises : Machine!PromiseTrue(p)
    BY DEF Machine!CoherentInv, Machine!AllTrue
  <2>2. QED
    BY <2>1 DEF Machine!PromiseTrue, HandlesKept
<1>3. Machine!AllTrue'
  BY <1>1, <1>2, AllTrueKept
<1>4. Machine!MachinesMatch'
  <2>1. CASE ~(Machine!Computing' \/ (phase' = "idle" /\ result' = "done"))
    BY <2>1 DEF Machine!MachinesMatch, Machine!Computing
  <2>2. CASE Machine!Computing \/ (phase = "idle" /\ result = "done")
    <3>1. suspension = 0 /\ \A i \in DOMAIN machines : Machine!Matches(machines[i])
      BY <2>2 DEF Machine!CoherentInv, Machine!MachinesMatch
    <3>2. \A i \in DOMAIN machines' : \A t : t = machines'[i] => Machine!Matches(t)'
      BY <1>1, <3>1, MatchKept DEF Machine!RunInv
    <3>3. (\A i \in DOMAIN machines : Machine!Matches(machines[i]))'
      BY <3>2, MatchAll
    <3>4. QED
      BY <3>1, <3>3 DEF Machine!MachinesMatch
  <2>3. QED
    BY <2>1, <2>2
<1>5. Machine!SuspendedMatches'
  <2>1. \A t, r : t = machines[1] /\ r = machines[1].stack /\ suspension # 0 =>
                  Append(Machine!Shape(r)', <<promises[suspension].handle, 0>>) = Machine!Expected(t)'
    <3>1. SUFFICES ASSUME NEW t, NEW r, t = machines[1], r = machines[1].stack, suspension # 0
                   PROVE  Append(Machine!Shape(r)', <<promises[suspension].handle, 0>>) = Machine!Expected(t)'
      OBVIOUS
    <3>2. 1 \in DOMAIN machines
      BY <3>1, MachineTyped DEF Machine!RunInv, Machine!SuspendInv
    <3>3. \A j \in DOMAIN r : r[j].promise \in 0 .. Len(promises)
      BY <3>1, <3>2, StackTyped DEF Machine!RunInv
    <3>4. Machine!Shape(r)' = Machine!Shape(r) /\ Machine!Expected(t)' = Machine!Expected(t)
      BY <1>1, <3>3, ShapeKept, CodeSame DEF Machine!RunInv
    <3>5. QED
      BY <3>1, <3>4 DEF Machine!CoherentInv, Machine!SuspendedMatches
  <2>2. QED
    BY <2>1, SuspendedAll
<1>6. QED
  BY <1>3, <1>4, <1>5 DEF Machine!CoherentInv

(* Main alone, with the operands of its code.                              *)
LEMMA OneMatches ==
  ASSUME NEW t, DOMAIN machines' = {1}, machines'[1] = t, suspension' = 0, Machine!Matches(t)',
         NEW q, q = t.stack, \A j \in DOMAIN q : Machine!OperandTrue(q[j], 1)',
         \A p \in DOMAIN promises' : Machine!PromiseTrue(p)'
  PROVE  Machine!CoherentInv'
<1>1. (\A i \in DOMAIN machines : Machine!Matches(machines[i]))'
  BY MatchAll
<1>2. \A i \in DOMAIN machines' : \A r : r = machines'[i].stack => \A j \in DOMAIN r : Machine!OperandTrue(r[j], i)'
  OBVIOUS
<1>3. Machine!AllTrue'
  BY <1>2, TrueAll
<1>4. QED
  BY <1>1, <1>3 DEF Machine!CoherentInv, Machine!MachinesMatch, Machine!SuspendedMatches

LEMMA FirstMatches ==
  ASSUME program \in Programs, NEW t, t.ip = 1, t.stack = <<>>, t.fn \in {"main", "async"}, program' = program
  PROVE  Machine!Matches(t)'
<1>1. Len(Machine!Code(t)) \in Nat
  BY ProgramsAssumption DEF Machine!Code, Machine!WellFormed
<1>2. Machine!Expected(t) = <<>>
  BY <1>1, ExpectedIs
<1>3. Machine!Expected(t)' = <<>>
  BY <1>2, CodeSame
<1>4. Machine!Shape(t.stack)' = <<>>
  BY DEF Machine!Shape
<1>5. QED
  BY <1>3, <1>4 DEF Machine!Matches

LEMMA RunMatches ==
  ASSUME program \in Programs, Machine!RunInv, Machine!CoherentInv, NEW c, Machine!Run(c)
  PROVE  Machine!CoherentInv'
<1>1. /\ phase = "new" /\ machines' = <<Machine!NewMachine("main")>>
      /\ program' = program /\ promises' = promises /\ suspension' = suspension /\ host' = host
  BY DEF Machine!Run, Machine!fixed
<1>2. suspension = 0
  BY <1>1 DEF Machine!RunInv, Machine!MachinesInv, Machine!SuspendInv
<1>3. PICK t, q : t = Machine!NewMachine("main") /\ q = t.stack
  OBVIOUS
<1>4. t.fn = "main" /\ t.ip = 1 /\ t.stack = <<>> /\ q = <<>>
  BY <1>3 DEF Machine!NewMachine
<1>5. Machine!Matches(t)'
  BY <1>1, <1>4, FirstMatches
<1>6. \A p \in DOMAIN promises' : Machine!PromiseTrue(p)'
  BY <1>1, StillTrue
<1>7. DOMAIN machines' = {1} /\ machines'[1] = t
  BY <1>1, <1>3
<1>8. \A j \in DOMAIN q : Machine!OperandTrue(q[j], 1)'
  BY <1>4
<1>9. QED
  BY <1>1, <1>2, <1>3, <1>5, <1>6, <1>7, <1>8, OneMatches

LEMMA CallAsyncMatches ==
  ASSUME program \in Programs, Machine!RunInv, Machine!CoherentInv, Machine!CallAsync
  PROVE  Machine!CoherentInv'
<1>1. PICK n, code, q : Ready(n, code, q, "async")
  BY AtOpIs, ReadyIs DEF Machine!CallAsync
<1>2. n = 1 /\ Len(machines) = 1 /\ 1 \in DOMAIN machines /\ suspension = 0 /\ Machine!Computing
  BY <1>1 DEF Ready, AtStep
<1>3. PICK m : m = Machine!NewMachine("async")
  OBVIOUS
<1>4. m.fn = "async" /\ m.ip = 1 /\ m.stack = <<>>
  BY <1>3 DEF Machine!NewMachine
<1>5. /\ machines' = Append(machines, m) /\ program' = program /\ promises' = promises
      /\ suspension' = suspension /\ host' = host
  BY <1>3 DEF Machine!CallAsync, Machine!fixed
<1>6. DOMAIN machines' = {1, 2} /\ machines'[1] = machines[1] /\ machines'[2] = m
  <2>1. PICK T : T = [fn : {"main", "async"}, ip : Nat, stack : Machine!Operands]
    OBVIOUS
  <2>2. PICK ms, r : ms = machines /\ r = Append(ms, m)
    OBVIOUS
  <2>3. ms \in Seq(T) /\ Len(ms) = 1
    BY <1>2, <2>1, <2>2 DEF Machine!RunInv, Machine!MachinesInv
  <2>4. /\ DOMAIN r = 1 .. Len(ms) + 1 /\ r[Len(ms) + 1] = m
        /\ \A i \in 1 .. Len(ms) : r[i] = ms[i]
    <3>1. /\ DOMAIN Append(ms, m) = 1 .. Len(ms) + 1 /\ Append(ms, m)[Len(ms) + 1] = m
          /\ \A i \in 1 .. Len(ms) : Append(ms, m)[i] = ms[i]
      BY <2>3, AppendIs
    <3>2. QED
      BY <2>2, <3>1
  <2>5. DOMAIN r = {1, 2} /\ r[2] = m /\ r[1] = ms[1]
    BY <2>3, <2>4
  <2>6. QED
    BY <1>5, <2>2, <2>5
<1>7. PromisesKept /\ HandlesKept /\ \A p \in DOMAIN promises' : Machine!PromiseTrue(p)'
  BY <1>5, StillTrue
<1>8. PICK x : x = machines[1]
  OBVIOUS
<1>9. Machine!Matches(x)'
  <2>1. Machine!Matches(x)
    BY <1>2, <1>8 DEF Machine!CoherentInv, Machine!MachinesMatch
  <2>2. QED
    BY <1>2, <1>5, <1>7, <1>8, <2>1, MatchKept DEF Machine!RunInv
<1>10. Machine!Matches(m)'
  BY <1>4, <1>5, FirstMatches
<1>11. \A i \in DOMAIN machines' : \A t : t = machines'[i] => Machine!Matches(t)'
  BY <1>6, <1>8, <1>9, <1>10
<1>12. (\A i \in DOMAIN machines : Machine!Matches(machines[i]))'
  BY <1>11, MatchAll
<1>13. Machine!AllTrue'
  <2>1. ASSUME NEW i \in DOMAIN machines', NEW r, r = machines'[i].stack
        PROVE  \A j \in DOMAIN r : Machine!OperandTrue(r[j], i)'
    <3>1. CASE i = 2
      BY <1>4, <1>6, <2>1, <3>1
    <3>2. CASE i = 1
      <4>1. r = machines[1].stack
        BY <1>6, <2>1, <3>2
      <4>2. QED
        BY <1>2, <1>7, <3>2, <4>1, OperandsKept DEF Machine!CoherentInv, Machine!RunInv
    <3>3. QED
      BY <1>6, <3>1, <3>2
  <2>2. QED
    BY <1>7, <2>1, TrueAll
<1>14. QED
  BY <1>2, <1>5, <1>12, <1>13 DEF Machine!CoherentInv, Machine!MachinesMatch, Machine!SuspendedMatches

(* The machine that has carried out one instruction more.                  *)
LEMMA NextExpected ==
  ASSUME program \in Programs, program' = program, NEW n, NEW code, NEW name, AtStep(n, code, name),
         code = Machine!Code(machines[n]), Machine!Matches(machines[n]), NEW s, s = Machine!Shape(machines[n].stack),
         NEW t, t.fn = machines[n].fn, t.ip = machines[n].ip + 1
  PROVE  Machine!Expected(t)' = Machine!Effect(s, code[machines[n].ip], Returned(machines[n].fn))
<1>1. PICK x : x = machines[n]
  OBVIOUS
<1>2. Machine!Code(x) = code /\ Len(code) \in Nat /\ x.ip \in 1 .. Len(code)
  BY <1>1 DEF AtStep, Machine!WellFormed
<1>3. t.fn = x.fn /\ t.ip = x.ip + 1
  BY <1>1
<1>4. Machine!Expected(t) = Machine!Effect(Machine!Expected(x), code[x.ip], Returned(x.fn))
  BY <1>2, <1>3, ExpectedIs
<1>5. Machine!Expected(x) = s
  BY <1>1 DEF Machine!Matches
<1>6. Machine!Expected(t)' = Machine!Expected(t)
  BY CodeSame
<1>7. QED
  BY <1>1, <1>4, <1>5, <1>6

(* A suspended machine lacks the value of the promise it awaits.           *)
LEMMA AwaitPendingMatches ==
  ASSUME program \in Programs, Machine!RunInv, Machine!CoherentInv, Machine!AwaitPending
  PROVE  Machine!CoherentInv'
<1>1. PICK n, code, q, f, v : Awaits(n, code, q, f, v)
  BY AwaitsIs DEF Machine!AwaitPending
<1>2. /\ n = Len(machines) /\ n \in DOMAIN machines /\ code = Machine!Code(machines[n]) /\ q = machines[n].stack
      /\ q = Machine!Top.stack /\ f = Machine!Front(q) /\ v = Machine!Last(q)
      /\ AtStep(n, code, "await") /\ Machine!Computing /\ suspension = 0
  BY <1>1 DEF Awaits
<1>3. program' = program /\ promises' = promises /\ host' = host /\ Machine!Return("pending")
  BY DEF Machine!AwaitPending, Machine!fixed
<1>4. ~Machine!Computing' /\ ~(phase' = "idle" /\ result' = "done")
  <2>1. phase' \in {"wait", "idle"} /\ op' = Machine!NoOp /\ (phase' = "idle" => result' = "pending")
    BY <1>3 DEF Machine!Return
  <2>2. QED
    BY <2>1 DEF Machine!Computing, Machine!NoOp
<1>5. ASSUME Machine!InAsync PROVE Machine!CoherentInv'
  <2>1. machines' = <<machines[1]>> /\ suspension' = suspension
    BY <1>5 DEF Machine!AwaitPending
  <2>2. machines # <<>>
    BY AtOpIs DEF Machine!AwaitPending
  <2>3. QED
    BY <1>3, <1>4, <2>1, <2>2, StoppedMatches
<1>6. ASSUME ~Machine!InAsync PROVE Machine!CoherentInv'
  <2>1. /\ machines' = [machines EXCEPT ![n].ip = @ + 1, ![n].stack = f]
        /\ v.promise # 0 /\ promises[v.promise].status = "pending" /\ suspension' = v.promise
    <3>1. machines' = Machine!Popped /\ suspension' = v.promise
      BY <1>2, <1>6 DEF Machine!AwaitPending
    <3>2. machines' = [machines EXCEPT ![n].ip = @ + 1, ![n].stack = f]
      BY <1>2, <3>1 DEF Machine!Popped
    <3>3. QED
      BY <1>2, <3>1, <3>2 DEF Machine!AwaitPending, Machine!Awaited
  <2>2. n = 1
    BY <1>2, <1>6 DEF AtStep, Machine!InAsync
  <2>3. PICK x, y : x = machines[1] /\ y = machines'[1]
    OBVIOUS
  <2>4. DOMAIN machines' = DOMAIN machines /\ y.fn = x.fn /\ y.ip = x.ip + 1 /\ y.stack = f
    <3>1. Machine!MachinesInv
      BY DEF Machine!RunInv
    <3>2. QED
      BY <1>2, <2>1, <2>2, <2>3, <3>1, MovedIs
  <2>5. PromisesKept /\ HandlesKept /\ \A p \in DOMAIN promises' : Machine!PromiseTrue(p)'
    BY <1>3, StillTrue
  <2>6. /\ f \in Seq([promise : 0 .. Len(promises), of : Machine!Things])
        /\ \A j \in DOMAIN f : Machine!OperandTrue(f[j], 1)
        /\ v.promise \in 0 .. Len(promises)
    BY <1>1, <2>2 DEF Awaits
  <2>7. \A j \in DOMAIN f : f[j].promise \in 0 .. Len(promises)
    <3>1. PICK T : T = [promise : 0 .. Len(promises), of : Machine!Things]
      OBVIOUS
    <3>2. \A j \in DOMAIN f : f[j] \in T
      BY <2>6, <3>1, EachOf
    <3>3. QED
      BY <3>1, <3>2
  <2>8. Machine!Shape(f)' = Machine!Shape(f)
    BY <2>5, <2>7, ShapeKept DEF Machine!RunInv
  <2>9. PICK p, h : p = v.promise /\ h = promises[p].handle
    OBVIOUS
  <2>10. Machine!Held(v) = <<h, 1>>
    <3>1. p \in DOMAIN promises
      BY <2>1, <2>6, <2>9, PromiseTyped DEF Machine!RunInv
    <3>2. promises[p].inner = 0
      BY <2>1, <2>9, <3>1 DEF Machine!CoherentInv, Machine!AllTrue, Machine!PromiseTrue
    <3>3. QED
      BY <2>1, <2>9, <3>2 DEF Machine!Held
  <2>11. Machine!Expected(y)' = Append(Machine!Shape(f), <<h, 0>>)
    <3>1. PICK s : s = Machine!Shape(machines[n].stack)
      OBVIOUS
    <3>2. Machine!Matches(machines[n])
      BY <1>2 DEF Machine!CoherentInv, Machine!MachinesMatch
    <3>3. y.fn = machines[n].fn /\ y.ip = machines[n].ip + 1
      BY <2>2, <2>3, <2>4
    <3>4. Machine!Expected(y)' = Machine!Effect(s, code[machines[n].ip], Returned(machines[n].fn))
      BY <1>2, <1>3, <3>1, <3>2, <3>3, NextExpected
    <3>5. Machine!Effect(s, code[machines[n].ip], Returned(machines[n].fn)) =
            Append(Machine!Shape(f), <<Machine!Held(v)[1], IF Machine!Held(v)[2] = 0 THEN 0 ELSE Machine!Held(v)[2] - 1>>)
      BY <1>1, <1>2, <3>1 DEF Awaits
    <3>6. <<Machine!Held(v)[1], IF Machine!Held(v)[2] = 0 THEN 0 ELSE Machine!Held(v)[2] - 1>> = <<h, 0>>
      BY <2>10
    <3>7. QED
      BY <3>4, <3>5, <3>6
  <2>12. Machine!SuspendedMatches'
    <3>1. promises'[suspension'].handle = h
      BY <1>3, <2>1, <2>9
    <3>2. \A t, r : t = machines'[1] /\ r = machines'[1].stack /\ suspension' # 0 =>
                    Append(Machine!Shape(r)', <<promises'[suspension'].handle, 0>>) = Machine!Expected(t)'
      BY <2>3, <2>4, <2>8, <2>11, <3>1
    <3>3. QED
      BY <3>2, SuspendedAll
  <2>13. Machine!AllTrue'
    <3>1. \A j \in DOMAIN f : Machine!OperandTrue(f[j], 1)'
      BY <2>5, <2>6, <2>7, OperandKept DEF Machine!RunInv
    <3>2. \A i \in DOMAIN machines' : i = 1
      <4>1. Len(machines) = 1 /\ DOMAIN machines = 1 .. Len(machines)
        BY <1>2, <2>2, MachineTyped DEF Machine!RunInv
      <4>2. QED
        BY <2>4, <4>1
    <3>3. \A i \in DOMAIN machines' : \A r : r = machines'[i].stack => \A j \in DOMAIN r : Machine!OperandTrue(r[j], i)'
      BY <2>3, <2>4, <3>1, <3>2
    <3>4. QED
      BY <2>5, <3>3, TrueAll
  <2>14. Machine!MachinesMatch'
    BY <1>4 DEF Machine!MachinesMatch, Machine!Computing
  <2>15. QED
    BY <2>12, <2>13, <2>14 DEF Machine!CoherentInv
<1>7. QED
  BY <1>5, <1>6

(* The value of an async function that has ended.                          *)
LEMMA ValueIs ==
  ASSUME program \in Programs, Machine!RunInv, Machine!CoherentInv, Machine!FunctionEnds, Machine!InAsync,
         NEW y, y = IF Machine!Top.stack = <<>> THEN Machine!Plain(None) ELSE Machine!Last(Machine!Top.stack)
  PROVE  /\ Machine!AsyncValue = Machine!Held(y) /\ y.promise \in 0 .. Len(promises)
         /\ Machine!OperandTrue(y, 2)
<1>1. phase = "interpret" /\ Machine!Top.ip > Len(Machine!Code(Machine!Top))
  BY DEF Machine!FunctionEnds, Machine!Interpreting
<1>2. Len(machines) = 2 /\ 2 \in DOMAIN machines
  BY <1>1, TopIs
<1>3. PICK x, q, T : x = machines[2] /\ q = x.stack /\ T = [promise : 0 .. Len(promises), of : Machine!Things]
  OBVIOUS
<1>4. x = Machine!Top
  BY <1>2, <1>3 DEF Machine!Top
<1>5. /\ x.fn = "async" /\ x.ip \in 1 .. Len(Machine!Code(x)) + 1 /\ q \in Seq(T)
  <2>1. /\ x.fn = "async" /\ x.ip \in 1 .. Len(Machine!Code(x)) + 1 /\ q \in Machine!Operands
    BY <1>2, <1>3, MachineTyped DEF Machine!RunInv
  <2>2. QED
    BY <1>3, <2>1 DEF Machine!Operands
<1>6. Machine!Code(x) = program.async /\ Len(program.async) \in Nat
  BY <1>5, ProgramsAssumption DEF Machine!Code, Machine!WellFormed
<1>7. x.ip - 1 = Len(program.async)
  BY <1>1, <1>4, <1>5, <1>6
<1>8. PICK s : s = Machine!Stacks(program.async, Machine!Nothing)[Len(program.async)]
  OBVIOUS
<1>9. Machine!Expected(x) = s
  BY <1>5, <1>6, <1>7, <1>8 DEF Machine!Expected
<1>10. Machine!Shape(q) = s
  <2>1. Machine!Matches(x)
    BY <1>1, <1>2, <1>3 DEF Machine!CoherentInv, Machine!MachinesMatch, Machine!Computing
  <2>2. QED
    BY <1>3, <1>9, <2>1 DEF Machine!Matches
<1>11. Machine!AsyncValue = IF s = <<>> THEN Machine!Nothing ELSE Machine!Last(s)
  BY <1>8 DEF Machine!AsyncValue
<1>12. ASSUME q = <<>>
       PROVE  /\ Machine!AsyncValue = Machine!Held(y) /\ y.promise \in 0 .. Len(promises)
              /\ Machine!OperandTrue(y, 2)
  <2>1. s = <<>>
    BY <1>10, <1>12 DEF Machine!Shape
  <2>2. y = Machine!Plain(None)
    BY <1>3, <1>4, <1>12
  <2>3. y.promise = 0 /\ y.of = None
    BY <2>2 DEF Machine!Plain
  <2>4. Len(promises) \in Nat
    BY PromiseTyped DEF Machine!RunInv
  <2>5. Machine!OperandTrue(y, 2)
    BY <2>3, ProgramsAssumption DEF Machine!OperandTrue
  <2>6. Machine!Held(y) = <<None, 0>>
    BY <2>3 DEF Machine!Held
  <2>7. QED
    BY <1>11, <2>1, <2>3, <2>4, <2>5, <2>6 DEF Machine!Nothing
<1>13. ASSUME q # <<>>
       PROVE  /\ Machine!AsyncValue = Machine!Held(y) /\ y.promise \in 0 .. Len(promises)
              /\ Machine!OperandTrue(y, 2)
  <2>1. Len(q) > 0 /\ Len(q) \in DOMAIN q /\ DOMAIN q = 1 .. Len(q) /\ Len(q) \in Nat
    BY <1>5, <1>13
  <2>2. y = Machine!Last(q) /\ y = q[Len(q)]
    BY <1>3, <1>4, <1>13 DEF Machine!Last
  <2>3. y \in T
    BY <1>5, <2>1, <2>2, EachOf
  <2>4. Machine!Last(s) = Machine!Held(y)
    <3>1. Machine!Last(Machine!Shape(q)) = Machine!Held(Machine!Last(q))
      BY <1>5, <2>1, ShapeFront
    <3>2. QED
      BY <1>10, <2>2, <3>1
  <2>5. s # <<>>
    <3>1. DOMAIN s = 1 .. Len(q)
      BY <1>10, <2>1, ShapeIs
    <3>2. QED
      BY <2>1, <3>1
  <2>6. Machine!OperandTrue(y, 2)
    BY <1>2, <1>3, <2>1, <2>2 DEF Machine!CoherentInv, Machine!AllTrue
  <2>7. QED
    BY <1>3, <1>11, <2>3, <2>4, <2>5, <2>6
<1>14. QED
  BY <1>12, <1>13

(* The async function's value is the promise that main gets.               *)
LEMMA FunctionEndsMatches ==
  ASSUME program \in Programs, Machine!RunInv, Machine!CoherentInv, Machine!FunctionEnds
  PROVE  Machine!CoherentInv'
<1>1. /\ phase = "interpret" /\ Machine!Computing /\ program' = program /\ suspension' = suspension /\ host' = host
  BY DEF Machine!FunctionEnds, Machine!Interpreting, Machine!Computing, Machine!fixed
<1>2. ASSUME ~Machine!InAsync PROVE Machine!CoherentInv'
  <2>1. machines' = machines /\ promises' = promises
    BY <1>2 DEF Machine!FunctionEnds
  <2>2. HandlesKept
    BY <1>1 DEF HandlesKept
  <2>3. QED
    BY <1>1, <2>1, <2>2, UnmovedMatches
<1>3. ASSUME Machine!InAsync PROVE Machine!CoherentInv'
  <2>1. PICK y : y = IF Machine!Top.stack = <<>> THEN Machine!Plain(None) ELSE Machine!Last(Machine!Top.stack)
    OBVIOUS
  <2>2. Machine!AsyncValue = Machine!Held(y) /\ y.promise \in 0 .. Len(promises) /\ Machine!OperandTrue(y, 2)
    BY <1>3, <2>1, ValueIs
  <2>3. PICK h, k, c : h = y.of /\ k = y.promise /\ c = Len(promises)
    OBVIOUS
  <2>4. PICK r, x, v : /\ r = [handle |-> h, inner |-> k, status |-> "ready"] /\ x = machines[1]
                       /\ v = Machine!Promise(c + 1)
    OBVIOUS
  <2>5. PICK q, code : q = x.stack /\ code = program.main
    OBVIOUS
  <2>6. PICK stack : stack = Append(q, v)
    OBVIOUS
  <2>7. PICK m : m = [x EXCEPT !.ip = x.ip + 1, !.stack = stack]
    OBVIOUS
  <2>8. promises' = Append(promises, r) /\ machines' = <<m>>
    BY <1>3, <2>1, <2>3, <2>4, <2>5, <2>6, <2>7 DEF Machine!FunctionEnds
  <2>9. /\ 1 \in DOMAIN machines /\ suspension = 0 /\ Machine!AtCall(x, "async")
    <3>1. 1 \in DOMAIN machines
      BY <1>1, TopIs
    <3>2. QED
      BY <1>1, <1>3, <2>4, <3>1 DEF Machine!RunInv, Machine!ComputeInv
  <2>10. /\ x \in [fn : {"main", "async"}, ip : Nat, stack : Machine!Operands] /\ x.fn = "main"
         /\ Machine!Code(x) = code /\ x.ip \in DOMAIN code /\ code[x.ip].op = "async"
         /\ q \in Seq([promise : 0 .. Len(promises), of : Machine!Things])
    <3>1. /\ x \in [fn : {"main", "async"}, ip : Nat, stack : Machine!Operands] /\ x.fn = "main"
          /\ x.stack \in Machine!Operands /\ Machine!Code(x) = program.main
      BY <2>4, <2>9, MainIs DEF Machine!RunInv
    <3>2. QED
      BY <2>5, <2>9, <3>1 DEF Machine!AtCall, Machine!Operands
  <2>11. m.fn = "main" /\ m.ip = x.ip + 1 /\ m.stack = stack
    BY <2>7, <2>10
  <2>12. DOMAIN machines' = {1} /\ machines'[1] = m
    BY <2>8
  <2>13. /\ PromisesKept /\ HandlesKept /\ c \in Nat /\ promises'[c + 1] = r
         /\ \A p \in DOMAIN promises' : Machine!PromiseTrue(p)'
    <3>1. r.handle = h /\ r.inner = k /\ r.status = "ready"
      BY <2>4
    <3>2. k # 0 => k \in DOMAIN promises /\ promises[k].inner = 0 /\ h = None
      BY <2>2, <2>3, PromiseTyped DEF Machine!OperandTrue, Machine!RunInv
    <3>3. h \in Handles => "ready" = host[h]
      BY <2>2, <2>3, ProgramsAssumption DEF Machine!OperandTrue
    <3>4. QED
      BY <1>1, <2>3, <2>8, <3>1, <3>2, <3>3, OneMore DEF Machine!RunInv
  <2>14. Machine!Held(v)' = <<Machine!AsyncValue[1], Machine!AsyncValue[2] + 1>>
    <3>1. v.promise = c + 1 /\ c + 1 # 0 /\ promises'[c + 1].inner = k /\ promises'[c + 1].handle = h
      BY <2>4, <2>13 DEF Machine!Promise
    <3>2. CASE k = 0
      <4>1. Machine!Held(y) = <<h, 0>>
        BY <2>3, <3>2 DEF Machine!Held
      <4>2. Machine!Held(v)' = <<h, 1>>
        BY <3>1, <3>2 DEF Machine!Held
      <4>3. QED
        BY <2>2, <4>1, <4>2
    <3>3. CASE k # 0
      <4>1. k \in DOMAIN promises /\ promises[k].inner = 0 /\ promises'[k].handle = promises[k].handle
        BY <2>2, <2>3, <2>13, <3>3, PromiseTyped DEF Machine!OperandTrue, Machine!RunInv, PromisesKept
      <4>2. Machine!Held(y) = <<promises[k].handle, 1>>
        BY <2>3, <3>3, <4>1 DEF Machine!Held
      <4>3. Machine!Held(v)' = <<promises[k].handle, 2>>
        BY <3>1, <3>3, <4>1 DEF Machine!Held
      <4>4. QED
        BY <2>2, <4>2, <4>3
    <3>4. QED
      BY <3>2, <3>3
  <2>15. Machine!OperandTrue(v, 1)'
    BY <2>4, <2>13 DEF Machine!OperandTrue, Machine!Promise
  <2>16. Machine!Expected(m)' = Append(Machine!Shape(q), Machine!Held(v)')
    <3>1. Machine!Matches(x)
      BY <1>1, <2>4, <2>9 DEF Machine!CoherentInv, Machine!MachinesMatch
    <3>2. Len(code) \in Nat /\ x.ip \in 1 .. Len(code)
      BY <1>1, <2>5, <2>10, MainCode
    <3>3. m.fn = x.fn /\ m.ip = x.ip + 1
      BY <2>10, <2>11
    <3>4. Machine!Expected(m) = Machine!Effect(Machine!Expected(x), code[x.ip], Returned(x.fn))
      BY <2>10, <3>2, <3>3, ExpectedIs
    <3>5. Machine!Expected(m)' = Machine!Expected(m)
      BY <1>1, CodeSame
    <3>6. PICK s : s = Machine!Shape(q)
      OBVIOUS
    <3>7. Machine!Expected(x) = s
      BY <2>5, <3>1, <3>6 DEF Machine!Matches
    <3>8. Returned(x.fn) = Machine!AsyncValue
      BY <2>10 DEF Returned
    <3>9. Machine!Effect(s, code[x.ip], Machine!AsyncValue) =
            Append(s, <<Machine!AsyncValue[1], Machine!AsyncValue[2] + 1>>)
      BY <2>10, EffectIs
    <3>10. QED
      BY <2>14, <3>4, <3>5, <3>6, <3>7, <3>8, <3>9
  <2>17. Machine!Matches(m)'
    <3>1. Machine!Shape(stack)' = Append(Machine!Shape(q), Machine!Held(v)')
      BY <2>6, <2>10, <2>13, ShapePushed DEF Machine!RunInv
    <3>2. QED
      BY <2>11, <2>16, <3>1 DEF Machine!Matches
  <2>18. \A j \in DOMAIN stack : Machine!OperandTrue(stack[j], 1)'
    <3>1. \A j \in DOMAIN q : Machine!OperandTrue(q[j], 1)
      BY <2>4, <2>5, <2>9 DEF Machine!CoherentInv, Machine!AllTrue
    <3>2. QED
      BY <2>6, <2>10, <2>13, <2>15, <3>1, OperandsPushed DEF Machine!RunInv
  <2>19. suspension' = 0
    BY <1>1, <2>9
  <2>20. QED
    BY <2>11, <2>12, <2>13, <2>17, <2>18, <2>19, OneMatches
<1>4. QED
  BY <1>2, <1>3

(* The promise n is settled as its handle is.                              *)
LEMMA PromiseSettled ==
  ASSUME Machine!PromisesInv, Machine!CoherentInv, host' = host, NEW n, n \in DOMAIN promises,
         promises[n].status = "pending", promises[n].handle \in Handles, NEW s, s = host[promises[n].handle],
         s # "pending", s \in Machine!HostState, promises' = [promises EXCEPT ![n].status = s]
  PROVE  PromisesKept /\ HandlesKept /\ \A p \in DOMAIN promises' : Machine!PromiseTrue(p)'
<1>1. PICK P, TH, S, u : P = promises /\ TH = Machine!Things /\ S = Machine!HostState /\ u = promises'
  OBVIOUS
<1>2. P \in Seq([handle : TH, inner : Nat, status : S]) /\ n \in DOMAIN P /\ s \in S /\ u = [P EXCEPT ![n].status = s]
  BY <1>1 DEF Machine!PromisesInv
<1>3. IsStatusSet(u, P, n, s)
  BY <1>2, StatusSet
<1>4. /\ Len(u) = Len(P) /\ DOMAIN u = DOMAIN P /\ u[n].status = s
      /\ \A i \in DOMAIN P : u[i].handle = P[i].handle /\ u[i].inner = P[i].inner /\ (i # n => u[i] = P[i])
  BY <1>3 DEF IsStatusSet
<1>5. Len(P) \in Nat /\ DOMAIN P = 1 .. Len(P) /\ \A p \in DOMAIN P : P[p].inner \in Nat /\ P[p].inner < p
  BY <1>1, PromiseTyped
<1>6. PromisesKept
  BY <1>1, <1>4, <1>5 DEF PromisesKept
<1>7. \A p \in DOMAIN P : Machine!PromiseTrue(p)
  BY <1>1 DEF Machine!CoherentInv, Machine!AllTrue
<1>8. ASSUME NEW p \in DOMAIN u PROVE Machine!PromiseTrue(p)'
  <2>1. p \in DOMAIN P /\ (P[p].inner # 0 => P[p].inner \in DOMAIN P)
    BY <1>4, <1>5, <1>8
  <2>2. /\ u[p].inner = P[p].inner /\ u[p].handle = P[p].handle
        /\ P[p].inner # 0 => u[P[p].inner].inner = P[P[p].inner].inner
    BY <1>4, <2>1
  <2>3. CASE p = n
    BY <1>1, <1>4, <1>7, <2>1, <2>2, <2>3 DEF Machine!PromiseTrue
  <2>4. CASE p # n
    <3>1. u[p] = P[p]
      BY <1>4, <2>1, <2>4
    <3>2. QED
      BY <1>1, <1>7, <2>1, <2>2, <3>1 DEF Machine!PromiseTrue
  <2>5. QED
    BY <2>3, <2>4
<1>9. QED
  BY <1>1, <1>6, <1>8 DEF HandlesKept

(* A resumed machine has the value it lacked.                              *)
LEMMA SettledMatches ==
  ASSUME Machine!TypeOK, Machine!RunInv, Machine!CoherentInv, Machine!Settled
  PROVE  Machine!CoherentInv'
<1>1. PICK h, s, n : h = op.handle /\ s = host[h] /\ n = suspension
  OBVIOUS
<1>2. /\ phase = "op" /\ op.kind \in {"resume", "wait", "pollWait"} /\ s # "pending" /\ program' = program /\ host' = host
      /\ promises' = [promises EXCEPT ![n].status = s] /\ suspension' = 0
  BY <1>1 DEF Machine!Settled, Machine!Answering, Machine!SettleAndResume, Machine!fixed
<1>3. /\ n # 0 /\ n \in DOMAIN promises /\ h \in Handles /\ h = promises[n].handle
      /\ Len(machines) = 1 /\ 1 \in DOMAIN machines /\ promises[n].status = "pending"
  BY <1>1, <1>2, WaitedIs DEF Machine!RunInv, Machine!SuspendInv
<1>4. s \in Machine!HostState
  BY <1>1, <1>3 DEF Machine!TypeOK
<1>5. PromisesKept /\ HandlesKept /\ \A p \in DOMAIN promises' : Machine!PromiseTrue(p)'
  BY <1>1, <1>2, <1>3, <1>4, PromiseSettled DEF Machine!RunInv
<1>6. ASSUME s = "ready" PROVE Machine!CoherentInv'
  <2>1. PICK v, x, q : v = Machine!Plain(h) /\ x = machines[1] /\ q = x.stack
    OBVIOUS
  <2>2. PICK stack : stack = Append(q, v)
    OBVIOUS
  <2>3. PICK m : m = [x EXCEPT !.stack = stack]
    OBVIOUS
  <2>4. /\ x \in [fn : {"main", "async"}, ip : Nat, stack : Machine!Operands]
        /\ q \in Seq([promise : 0 .. Len(promises), of : Machine!Things])
    BY <1>3, <2>1, MainIs DEF Machine!RunInv, Machine!Operands
  <2>5. m.fn = x.fn /\ m.ip = x.ip /\ m.stack = stack
    BY <2>3, <2>4
  <2>6. DOMAIN machines' = {1} /\ machines'[1] = m
    <3>1. machines' = [machines EXCEPT ![1].stack = Append(@, v)]
      BY <1>1, <1>6, <2>1 DEF Machine!Settled, Machine!SettleAndResume
    <3>2. machines' = [machines EXCEPT ![1] = m]
      BY <1>3, <2>1, <2>2, <2>3, <3>1
    <3>3. DOMAIN machines = {1}
      BY <1>3, MachineTyped DEF Machine!RunInv
    <3>4. QED
      BY <3>2, <3>3
  <2>7. Machine!Held(v)' = <<h, 0>> /\ Machine!OperandTrue(v, 1)'
    BY <1>1, <1>2, <1>6, <2>1 DEF Machine!Plain, Machine!Held, Machine!OperandTrue
  <2>8. Machine!Matches(m)'
    <3>1. Append(Machine!Shape(q), <<h, 0>>) = Machine!Expected(x)
      BY <1>1, <1>3, <2>1 DEF Machine!CoherentInv, Machine!SuspendedMatches
    <3>2. Machine!Expected(m)' = Machine!Expected(x)
      <4>1. Machine!Expected(m) = Machine!Expected(x)
        BY <2>5 DEF Machine!Expected, Machine!Code
      <4>2. QED
        BY <1>2, <4>1, CodeSame
    <3>3. Machine!Shape(stack)' = Append(Machine!Shape(q), Machine!Held(v)')
      BY <1>5, <2>2, <2>4, ShapePushed DEF Machine!RunInv
    <3>4. QED
      BY <2>5, <2>7, <3>1, <3>2, <3>3 DEF Machine!Matches
  <2>9. \A j \in DOMAIN stack : Machine!OperandTrue(stack[j], 1)'
    <3>1. \A j \in DOMAIN q : Machine!OperandTrue(q[j], 1)
      BY <1>3, <2>1 DEF Machine!CoherentInv, Machine!AllTrue
    <3>2. QED
      BY <1>5, <2>2, <2>4, <2>7, <3>1, OperandsPushed DEF Machine!RunInv
  <2>10. QED
    BY <1>2, <1>5, <2>5, <2>6, <2>8, <2>9, OneMatches
<1>7. ASSUME s # "ready" PROVE Machine!CoherentInv'
  <2>1. Machine!Return("rejected") /\ machines' = machines
    BY <1>1, <1>7 DEF Machine!Settled, Machine!SettleAndResume
  <2>2. phase' \in {"wait", "idle"} /\ op' = Machine!NoOp /\ (phase' = "idle" => result' = "rejected")
    BY <2>1 DEF Machine!Return
  <2>3. Machine!AllTrue'
    BY <1>5, <2>1, AllTrueKept
  <2>4. Machine!MachinesMatch'
    BY <2>2 DEF Machine!MachinesMatch, Machine!Computing, Machine!NoOp
  <2>5. Machine!SuspendedMatches'
    BY <1>2 DEF Machine!SuspendedMatches
  <2>6. QED
    BY <2>3, <2>4, <2>5 DEF Machine!CoherentInv
<1>8. QED
  BY <1>6, <1>7

(* Steps that move no machine.                                             *)
LEMMA StoppedOrUnmoved ==
  ASSUME Machine!RunInv, Machine!CoherentInv, phase # "new", program' = program, promises' = promises, host' = host,
         machines' = machines \/ machines' = <<machines[1]>>, suspension' = suspension \/ suspension' = 0,
         NEW r, r # "done", Machine!Return(r)
  PROVE  Machine!CoherentInv'
<1>1. phase' \in {"wait", "idle"} /\ op' = Machine!NoOp /\ (phase' = "idle" => result' = r)
  BY DEF Machine!Return
<1>2. ~Machine!Computing' /\ ~(phase' = "idle" /\ result' = "done")
  BY <1>1 DEF Machine!Computing, Machine!NoOp
<1>3. machines # <<>>
  BY TopIs
<1>4. QED
  BY <1>2, <1>3, StoppedMatches

LEMMA AnswerMatches ==
  ASSUME Machine!RunInv, Machine!CoherentInv,
         \/ Machine!OpTimesOut \/ Machine!OpContextEnds \/ Machine!OpFails
         \/ Machine!StillPending \/ Machine!WaitWokeEarly \/ Machine!InterpretEnds
  PROVE  Machine!CoherentInv'
<1>1. ASSUME NEW r, r # "done", phase # "new", Machine!Fail(r) PROVE Machine!CoherentInv'
  <2>1. /\ program' = program /\ promises' = promises /\ host' = host /\ machines' = <<machines[1]>>
        /\ suspension' = suspension \/ suspension' = 0
        /\ Machine!Return(r)
    BY <1>1 DEF Machine!Fail, Machine!fixed, Machine!Abandon
  <2>2. QED
    BY <1>1, <2>1, StoppedOrUnmoved
<1>2. ASSUME Machine!Retry, phase = "op" PROVE Machine!CoherentInv'
  <2>1. /\ UNCHANGED <<program, machines, promises, suspension>> /\ host' = host /\ phase' = phase /\ result' = result
        /\ op' = [op EXCEPT !.attempt = @ + 1]
    BY <1>2 DEF Machine!Retry, Machine!fixed
  <2>2. op'.kind = op.kind
    <3>1. op \in [kind : Machine!Kinds, handle : Machine!Things, attempt : 0 .. RetryCount]
      BY <1>2 DEF Machine!RunInv, Machine!OpInv
    <3>2. QED
      BY <2>1, <3>1
  <2>3. Machine!Computing' <=> Machine!Computing
    BY <2>1, <2>2 DEF Machine!Computing
  <2>4. HandlesKept
    BY <2>1 DEF HandlesKept
  <2>5. Machine!Computing \/ ~(Machine!Computing' \/ (phase' = "idle" /\ result' = "done"))
    BY <1>2, <2>1, <2>3
  <2>6. QED
    BY <2>1, <2>4, <2>5, UnmovedMatches
<1>3. ASSUME Machine!OpTimesOut \/ Machine!OpContextEnds \/ Machine!OpFails PROVE Machine!CoherentInv'
  <2>1. phase = "op" /\ (Machine!Retry \/ Machine!Fail("error") \/ Machine!Fail("ended"))
    BY <1>3 DEF Machine!OpTimesOut, Machine!OpContextEnds, Machine!OpFails, Machine!Answering
  <2>2. QED
    BY <1>1, <1>2, <2>1
<1>4. ASSUME Machine!StillPending, op.kind = "pollWait" PROVE Machine!CoherentInv'
  <2>1. /\ phase' = "sleep" /\ op' = Machine!NoOp /\ host' = host
        /\ UNCHANGED <<program, machines, promises, suspension>>
    BY <1>4 DEF Machine!StillPending, Machine!Answering, Machine!fixed
  <2>2. ~(Machine!Computing' \/ (phase' = "idle" /\ result' = "done"))
    BY <2>1 DEF Machine!Computing, Machine!NoOp
  <2>3. HandlesKept
    BY <2>1 DEF HandlesKept
  <2>4. QED
    BY <2>1, <2>2, <2>3, UnmovedMatches
<1>5. ASSUME \/ Machine!StillPending /\ op.kind # "pollWait"
             \/ Machine!WaitWokeEarly
             \/ Machine!InterpretEnds
      PROVE  Machine!CoherentInv'
  <2>1. /\ phase # "new" /\ program' = program /\ machines' = machines /\ promises' = promises
        /\ suspension' = suspension /\ host' = host
        /\ Machine!Return("pending") \/ Machine!Return("ended")
    BY <1>5 DEF Machine!StillPending, Machine!WaitWokeEarly, Machine!InterpretEnds, Machine!Answering, Machine!fixed
  <2>2. QED
    BY <2>1, StoppedOrUnmoved
<1>6. QED
  BY <1>3, <1>4, <1>5

LEMMA WaitingMatches ==
  ASSUME Machine!RunInv, Machine!CoherentInv,
         Machine!Wait \/ Machine!Sleep \/ Machine!ResumeSuspension \/ Machine!WaitSuspension
  PROVE  Machine!CoherentInv'
<1>1. phase # "new" /\ UNCHANGED <<program, machines, promises, suspension>> /\ host' = host
  BY DEF Machine!Wait, Machine!Sleep, Machine!ResumeSuspension, Machine!WaitSuspension, Machine!fixed
<1>2. HandlesKept
  BY <1>1 DEF HandlesKept
<1>3. ASSUME NEW kind \in {"resume", "wait", "pollWait"}, NEW h, Machine!BeginOp(kind, h) PROVE Machine!CoherentInv'
  <2>1. phase' = "op" /\ op'.kind = kind
    BY <1>3 DEF Machine!BeginOp
  <2>2. ~(Machine!Computing' \/ (phase' = "idle" /\ result' = "done"))
    BY <2>1 DEF Machine!Computing
  <2>3. QED
    BY <1>1, <1>2, <2>2, UnmovedMatches
<1>4. ASSUME NEW r \in {"error", "ended"}, Machine!Return(r) PROVE Machine!CoherentInv'
  BY <1>1, <1>4, StoppedOrUnmoved
<1>5. ASSUME Machine!WaitSuspension PROVE Machine!CoherentInv'
  <2>1. phase' = "wait" /\ op' = op /\ phase = "idle"
    BY <1>5 DEF Machine!WaitSuspension
  <2>2. op' = Machine!NoOp
    BY <2>1 DEF Machine!RunInv, Machine!OpInv
  <2>3. ~(Machine!Computing' \/ (phase' = "idle" /\ result' = "done"))
    BY <2>1, <2>2 DEF Machine!Computing, Machine!NoOp
  <2>4. QED
    BY <1>1, <1>2, <2>3, UnmovedMatches
<1>6. ASSUME Machine!ResumeSuspension PROVE Machine!CoherentInv'
  BY <1>3, <1>6 DEF Machine!ResumeSuspension
<1>7. ASSUME Machine!Wait \/ Machine!Sleep PROVE Machine!CoherentInv'
  <2>1. \/ Machine!Return("error") \/ Machine!Return("ended")
        \/ Machine!BeginOp("wait", promises[suspension].handle)
        \/ Machine!BeginOp("pollWait", promises[suspension].handle)
    BY <1>7 DEF Machine!Wait, Machine!Sleep
  <2>2. QED
    BY <1>3, <1>4, <2>1
<1>8. QED
  BY <1>5, <1>6, <1>7

LEMMA OperationMatches ==
  ASSUME Machine!RunInv, Machine!CoherentInv, Machine!HostOperation
  PROVE  Machine!CoherentInv'
<1>1. Machine!Computing /\ UNCHANGED <<program, machines, promises, suspension>> /\ host' = host
  BY DEF Machine!HostOperation, Machine!AtOp, Machine!Interpreting, Machine!Computing, Machine!fixed
<1>2. HandlesKept
  BY <1>1 DEF HandlesKept
<1>3. QED
  BY <1>1, <1>2, UnmovedMatches

(* A handle is done, a context ends, or nothing happens.                   *)
LEMMA OutsideMatches ==
  ASSUME Machine!RunInv, Machine!CoherentInv,
         \/ \E h \in Handles : Machine!HostCompletes(h)
         \/ \E c \in {"run", "wait"} : Machine!ContextEnds(c)
         \/ UNCHANGED Machine!vars
  PROVE  Machine!CoherentInv'
<1>1. UNCHANGED <<program, machines, promises, suspension>> /\ phase' = phase /\ op' = op /\ result' = result
  BY DEF Machine!HostCompletes, Machine!ContextEnds, Machine!vars, Machine!fixed
<1>2. HandlesKept
  <2>1. ASSUME NEW h \in Handles, Machine!HostCompletes(h) PROVE HandlesKept
    <3>1. host[h] = "pending" /\ \E s \in {"ready", "rejected"} : host' = [host EXCEPT ![h] = s]
      BY <2>1 DEF Machine!HostCompletes
    <3>2. QED
      BY <3>1 DEF HandlesKept
  <2>2. ASSUME (\E c \in {"run", "wait"} : Machine!ContextEnds(c)) \/ UNCHANGED Machine!vars PROVE HandlesKept
    <3>1. host' = host
      BY <2>2 DEF Machine!ContextEnds, Machine!vars
    <3>2. QED
      BY <3>1 DEF HandlesKept
  <2>3. QED
    BY <2>1, <2>2
<1>3. Machine!Computing' <=> Machine!Computing
  BY <1>1 DEF Machine!Computing
<1>4. QED
  BY <1>1, <1>2, <1>3, UnmovedMatches

LEMMA CoherentStarts == Machine!Init => Machine!CoherentInv
<1> SUFFICES ASSUME Machine!Init PROVE Machine!CoherentInv
  OBVIOUS
<1>1. machines = <<>> /\ promises = <<>> /\ suspension = 0 /\ phase = "new" /\ op = Machine!NoOp
  BY DEF Machine!Init
<1>2. DOMAIN machines = {} /\ DOMAIN promises = {}
  BY <1>1
<1>3. QED
  BY <1>1, <1>2 DEF Machine!CoherentInv, Machine!MachinesMatch, Machine!SuspendedMatches, Machine!AllTrue

LEMMA CoherentStep ==
  ASSUME Machine!TypeOK, Machine!RunInv, Machine!CoherentInv, [Machine!Next]_(Machine!vars)
  PROVE  Machine!CoherentInv'
<1>1. program \in Programs
  BY DEF Machine!TypeOK
<1>2. ASSUME Machine!Interpret PROVE Machine!CoherentInv'
  BY <1>1, <1>2, LoadMatches, OperationMatches, CallAsyncMatches, FunctionEndsMatches, AwaitSettledMatches,
     AwaitPendingMatches, AnswerMatches DEF Machine!Interpret
<1>3. ASSUME Machine!Answered PROVE Machine!CoherentInv'
  BY <1>1, <1>3, PolledMatches, CalledMatches, SettledMatches, AnswerMatches DEF Machine!Answered
<1>4. ASSUME \/ Machine!Wait \/ Machine!Sleep \/ Machine!ResumeSuspension \/ Machine!WaitSuspension
             \/ Machine!WaitWokeEarly \/ Machine!OpFails
      PROVE  Machine!CoherentInv'
  BY <1>4, WaitingMatches, AnswerMatches
<1>5. ASSUME Machine!Run("run") \/ Machine!Run("settle") PROVE Machine!CoherentInv'
  BY <1>1, <1>5, RunMatches
<1>6. QED
  BY <1>2, <1>3, <1>4, <1>5, OutsideMatches DEF Machine!Next, Machine!Proceed

LEMMA CoherentHolds == Machine!CoherentInv => Coherent
BY DEF Machine!CoherentInv, Machine!MachinesMatch, Machine!SuspendedMatches, Machine!AllTrue, Machine!PromiseTrue,
   Machine!Computing, Coherent, Machine!Coherent

(* Whatever the program, the handles of the host, what it answers and when,*)
(* and however often an operation is retried, a machine that computes has  *)
(* the operands its program has computed so far, a suspended one lacks just*)
(* the value it awaits, and a promise says what the host said.             *)
THEOREM RunsCoherent == Machine!Spec => []Coherent
<1>1. Machine!Init => Machine!TypeOK /\ Machine!RunInv /\ Machine!CoherentInv
  BY RunStarts, CoherentStarts
<1>2. Machine!TypeOK /\ Machine!RunInv /\ Machine!CoherentInv /\ [Machine!Next]_(Machine!vars) =>
        Machine!TypeOK' /\ Machine!RunInv' /\ Machine!CoherentInv'
  BY RunStep, CoherentStep
<1>3. Machine!CoherentInv => Coherent
  BY CoherentHolds
<1>4. QED
  BY <1>1, <1>2, <1>3, PTL DEF Machine!Spec

-----------------------------------------------------------------------------
(* Imports.                                                                *)

(* What replacing, appending and dropping the last leave of a sequence.    *)
LEMMA SequenceIs ==
  ASSUME NEW s, Loader!IsSequence(s)
  PROVE  Len(s) \in Nat /\ DOMAIN s = 1 .. Len(s)
BY DEF Loader!IsSequence

LEMMA FunctionIsSequence ==
  ASSUME NEW t, NEW n \in Nat, t = [i \in 1 .. n |-> t[i]]
  PROVE  Loader!IsSequence(t) /\ Len(t) = n /\ DOMAIN t = 1 .. n
<1> DEFINE T == {t[i] : i \in DOMAIN t}
<1>1. DOMAIN t = 1 .. n
  OBVIOUS
<1>2. t \in [1 .. n -> T]
  BY <1>1
<1> HIDE DEF T
<1>3. t \in Seq(T)
  BY <1>2
<1>4. Len(t) = n
  BY <1>1, <1>3, LenProperties
<1> QED BY <1>1, <1>3, <1>4 DEF Loader!IsSequence, T

Replaces(s, k, x, t) == Loader!IsSequence(s) /\ k \in DOMAIN s /\ t = [s EXCEPT ![k] = x]
LEMMA SequenceReplaced ==
  ASSUME NEW s, NEW k, NEW x, NEW t, Replaces(s, k, x, t)
  PROVE  /\ Loader!IsSequence(t) /\ Len(t) = Len(s) /\ DOMAIN t = DOMAIN s
         /\ t[k] = x /\ \A j \in DOMAIN s \ {k} : t[j] = s[j]
<1>1. Len(s) \in Nat /\ DOMAIN s = 1 .. Len(s)
  BY SequenceIs DEF Replaces
<1>2. t = [i \in 1 .. Len(s) |-> t[i]]
  BY <1>1 DEF Replaces
<1>3. Loader!IsSequence(t) /\ Len(t) = Len(s) /\ DOMAIN t = 1 .. Len(s)
  BY <1>1, <1>2, FunctionIsSequence
<1> QED BY <1>1, <1>3 DEF Replaces

Appends(s, x, t) == Loader!IsSequence(s) /\ t = Append(s, x)
LEMMA SequenceAppended ==
  ASSUME NEW s, NEW x, NEW t, Appends(s, x, t)
  PROVE  /\ Loader!IsSequence(t) /\ Len(t) = Len(s) + 1 /\ DOMAIN t = 1 .. Len(s) + 1
         /\ t[Len(s) + 1] = x /\ \A j \in DOMAIN s : t[j] = s[j]
<1> DEFINE S == {s[i] : i \in DOMAIN s} \cup {x}
<1>1. Len(s) \in Nat /\ DOMAIN s = 1 .. Len(s)
  BY SequenceIs DEF Appends
<1>2. s \in Seq(S) /\ x \in S
  BY SeqMonotonic DEF Appends, Loader!IsSequence
<1> HIDE DEF S
<1>3. t \in Seq(S) /\ Len(t) = Len(s) + 1 /\ t[Len(s) + 1] = x /\ \A j \in 1 .. Len(s) : t[j] = s[j]
  BY <1>2, AppendProperties DEF Appends
<1>4. t = [i \in 1 .. Len(s) + 1 |-> t[i]]
  BY <1>3, LenProperties
<1>5. Loader!IsSequence(t) /\ DOMAIN t = 1 .. Len(s) + 1
  BY <1>1, <1>4, FunctionIsSequence
<1> QED BY <1>1, <1>3, <1>5

LEMMA SequenceShortened ==
  ASSUME NEW s, Loader!IsSequence(s), s # <<>>, NEW t, t = Loader!Front(s)
  PROVE  /\ Loader!IsSequence(t) /\ Len(t) = Len(s) - 1 /\ DOMAIN t = 1 .. Len(s) - 1
         /\ Len(s) \in DOMAIN s /\ \A j \in DOMAIN t : t[j] = s[j]
<1> DEFINE S == {s[i] : i \in DOMAIN s}
<1>1. Len(s) \in Nat /\ DOMAIN s = 1 .. Len(s) /\ s \in Seq(S)
  BY SequenceIs DEF Loader!IsSequence
<1> HIDE DEF S
<1>2. Len(s) \in Nat \ {0}
  BY <1>1, EmptySeq
<1>3. t = SubSeq(s, 1, Len(s) - 1)
  BY DEF Loader!Front
<1>4. t \in Seq(S) /\ Len(t) = Len(s) - 1 /\ \A j \in 1 .. Len(s) - 1 : t[j] = s[j]
  BY <1>1, <1>2, <1>3, SubSeqProperties
<1>5. t = [i \in 1 .. Len(s) - 1 |-> t[i]] /\ Len(s) - 1 \in Nat
  BY <1>2, <1>4, LenProperties
<1>6. Loader!IsSequence(t) /\ DOMAIN t = 1 .. Len(s) - 1
  BY <1>5, FunctionIsSequence
<1> QED BY <1>1, <1>2, <1>4, <1>6

(* A goroutine after a step that keeps the bodies it is in.                *)
SameBodies(r, q) ==
  /\ Len(q.calls) = Len(r.calls) /\ DOMAIN q.calls = DOMAIN r.calls
  /\ \A i \in DOMAIN r.calls : q.calls[i].file = r.calls[i].file /\ q.calls[i].load = r.calls[i].load

(* It is still well formed, with at least as many loads and maps.          *)
LEMMA GoroutineStays ==
  ASSUME NEW r, NEW n \in Nat, NEW m \in Nat, Loader!GoroutineOK(r, n, m),
         NEW k \in Nat, NEW l \in Nat, n <= k, m <= l
  PROVE  Loader!GoroutineOK(r, k, l)
BY DEF Loader!GoroutineOK, Loader!CallOK, Loader!HasMap

(* What is well formed about it wherever it is.                            *)
GoroutineParts(r, n, m) ==
  /\ DOMAIN r = {"import", "calls", "at", "target", "stack", "load", "attempts", "answer"}
  /\ Loader!HasMap(r.import, m)
  /\ Loader!IsSequence(r.calls) /\ \A i \in DOMAIN r.calls : Loader!CallOK(r.calls[i], n, m)
  /\ r.attempts \in Nat \ {0} /\ r.answer \in Loader!Answers

LEMMA GoroutineHasParts ==
  ASSUME NEW r, NEW n, NEW m, Loader!GoroutineOK(r, n, m)
  PROVE  GoroutineParts(r, n, m)
BY DEF Loader!GoroutineOK, GoroutineParts

LEMMA GoroutineAdvances ==
  ASSUME NEW r, NEW n \in Nat, NEW m \in Nat, GoroutineParts(r, n, m), r.calls # <<>>,
         NEW q, q = Loader!Advanced(r)
  PROVE  /\ Loader!GoroutineOK(q, n, m) /\ SameBodies(r, q) /\ q.at = "body"
         /\ q.calls # <<>> /\ Loader!Top(q).load = Loader!Top(r).load
<1> DEFINE k == Len(r.calls)
<1>1. Loader!IsSequence(r.calls) /\ k \in DOMAIN r.calls
  BY SequenceShortened DEF GoroutineParts
<1>2. PICK c : c = [r.calls[k] EXCEPT !.pc = @ + 1]
  OBVIOUS
<1>3. Loader!CallOK(r.calls[k], n, m)
  BY <1>1 DEF GoroutineParts
<1>4. Loader!CallOK(c, n, m) /\ c.file = r.calls[k].file /\ c.load = r.calls[k].load
  BY <1>2, <1>3 DEF Loader!CallOK, Loader!HasMap
<1>5. q.calls = [r.calls EXCEPT ![k] = c]
  BY <1>1, <1>2 DEF Loader!Advanced, GoroutineParts
<1>6. /\ Loader!IsSequence(q.calls) /\ Len(q.calls) = k /\ DOMAIN q.calls = DOMAIN r.calls
      /\ q.calls[k] = c /\ \A j \in DOMAIN r.calls \ {k} : q.calls[j] = r.calls[j]
  <2>1. Replaces(r.calls, k, c, q.calls)
    BY <1>1, <1>5 DEF Replaces
  <2> QED BY <2>1, SequenceReplaced
<1>7. SameBodies(r, q)
  BY <1>4, <1>6 DEF SameBodies
<1>8. q.calls # <<>>
  BY <1>1, <1>6
<1>9. /\ DOMAIN q = DOMAIN r /\ q.at = "body" /\ q.answer = "none"
      /\ q.import = r.import /\ q.attempts = r.attempts
  BY DEF Loader!Advanced, GoroutineParts
<1>10. \A i \in DOMAIN q.calls : Loader!CallOK(q.calls[i], n, m)
  BY <1>4, <1>6 DEF GoroutineParts
<1>11. Loader!Top(q).load = Loader!Top(r).load
  BY <1>4, <1>6 DEF Loader!Top, Loader!Last
<1>12. Loader!GoroutineOK(q, n, m)
  BY <1>6, <1>8, <1>9, <1>10 DEF GoroutineParts, Loader!GoroutineOK, Loader!Resolving, Loader!Loading, Loader!Answers
<1> QED BY <1>7, <1>8, <1>9, <1>11, <1>12

LEMMA GoroutineFails ==
  ASSUME NEW r, NEW n \in Nat, NEW m \in Nat, GoroutineParts(r, n, m), r.calls # <<>>,
         NEW error \in Loader!Answers, NEW q, q = Loader!Failing(r, error)
  PROVE  Loader!GoroutineOK(q, n, m) /\ SameBodies(r, q) /\ q.at \in {"ended", "forget"}
<1>1. /\ DOMAIN q = DOMAIN r /\ q.answer = error /\ q.import = r.import
      /\ q.attempts = r.attempts /\ q.calls = r.calls
      /\ q.at = (IF Loader!Top(r).load = 0 THEN "ended" ELSE "forget")
  BY DEF Loader!Failing, GoroutineParts
<1>2. SameBodies(r, q)
  BY <1>1 DEF SameBodies
<1>3. Loader!Top(q) = Loader!Top(r)
  BY <1>1 DEF Loader!Top
<1>4. Loader!GoroutineOK(q, n, m)
  BY <1>1, <1>3 DEF GoroutineParts, Loader!GoroutineOK, Loader!Resolving, Loader!Loading
<1> QED BY <1>1, <1>2, <1>4

LEMMA GoroutineReturns ==
  ASSUME NEW r, NEW n \in Nat, NEW m \in Nat, GoroutineParts(r, n, m),
         NEW answer \in Loader!Answers, NEW q, q = Loader!Returned(r, answer)
  PROVE  Loader!GoroutineOK(q, n, m) /\ SameBodies(r, q) /\ q.at \in {"start", "body", "ended", "forget"}
<1>1. CASE r.calls # <<>>
  <2>1. q = Loader!Advanced(r) \/ q = Loader!Failing(r, answer)
    BY <1>1 DEF Loader!Returned
  <2> QED BY <1>1, <2>1, GoroutineAdvances, GoroutineFails
<1>2. CASE r.calls = <<>>
  <2>1. r.attempts \in Nat \ {0}
    BY DEF GoroutineParts
  <2>2. \/ q = [r EXCEPT !.at = "start", !.attempts = @ - 1] /\ r.attempts > 1
        \/ q = [r EXCEPT !.at = "ended", !.answer = answer]
    BY <1>2, <2>1 DEF Loader!Returned
  <2>3. /\ DOMAIN q = DOMAIN r /\ q.answer \in Loader!Answers /\ q.import = r.import
        /\ q.attempts \in Nat \ {0} /\ q.calls = r.calls /\ q.at \in {"start", "ended"}
    <3>1. /\ DOMAIN r = {"import", "calls", "at", "target", "stack", "load", "attempts", "answer"}
          /\ r.answer \in Loader!Answers
      BY DEF GoroutineParts
    <3>2. CASE q = [r EXCEPT !.at = "start", !.attempts = @ - 1] /\ r.attempts > 1
      <4>1. q.attempts = r.attempts - 1 /\ r.attempts - 1 \in Nat \ {0}
        BY <2>1, <3>1, <3>2
      <4> QED BY <3>1, <3>2, <4>1
    <3>3. CASE q = [r EXCEPT !.at = "ended", !.answer = answer]
      BY <2>1, <3>1, <3>3
    <3> QED BY <2>2, <3>2, <3>3
  <2>4. SameBodies(r, q)
    BY <2>3 DEF SameBodies
  <2>5. Loader!GoroutineOK(q, n, m)
    BY <2>3 DEF GoroutineParts, Loader!GoroutineOK, Loader!Resolving, Loader!Loading
  <2> QED BY <2>3, <2>4, <2>5
<1> QED BY <1>1, <1>2

LoaderOK == Loader!TypeOK /\ Loader!LoaderInv

LEMMA LoaderShape ==
  ASSUME Loader!TypeOK
  PROVE  /\ Len(loads) \in Nat /\ DOMAIN loads = 1 .. Len(loads)
         /\ Len(stacks) \in Nat /\ DOMAIN stacks = 1 .. Len(stacks)
         /\ Len(goroutines) \in Nat /\ DOMAIN goroutines = 1 .. Len(goroutines)
<1>1. Loader!IsSequence(stacks) /\ Loader!IsSequence(goroutines)
  BY DEF Loader!TypeOK
<1>2. loads \in Seq([done : BOOLEAN, answer : Loader!Answers])
  BY DEF Loader!TypeOK
<1> QED BY <1>1, <1>2, SequenceIs, LenProperties

(* A step of one goroutine, with at least as many loads and maps.          *)
LoaderReplaces(g, q) ==
  /\ g \in DOMAIN goroutines /\ goroutines' = [goroutines EXCEPT ![g] = q]
  /\ Len(loads') \in Nat /\ Len(loads) <= Len(loads')
  /\ Len(stacks') \in Nat /\ Len(stacks) <= Len(stacks')
  /\ Loader!GoroutineOK(q, Len(loads'), Len(stacks'))

LEMMA LoaderReplaced ==
  ASSUME LoaderOK, NEW g, NEW q, LoaderReplaces(g, q)
  PROVE  /\ Loader!IsSequence(goroutines') /\ DOMAIN goroutines' = DOMAIN goroutines
         /\ goroutines'[g] = q /\ \A h \in DOMAIN goroutines \ {g} : goroutines'[h] = goroutines[h]
         /\ \A h \in DOMAIN goroutines' : Loader!GoroutineOK(goroutines'[h], Len(loads'), Len(stacks'))
<1>1. Loader!IsSequence(goroutines) /\ g \in DOMAIN goroutines
  BY DEF LoaderOK, Loader!TypeOK, LoaderReplaces
<1>2. /\ Loader!IsSequence(goroutines') /\ DOMAIN goroutines' = DOMAIN goroutines
      /\ goroutines'[g] = q /\ \A h \in DOMAIN goroutines \ {g} : goroutines'[h] = goroutines[h]
  <2>1. Replaces(goroutines, g, q, goroutines')
    BY <1>1 DEF LoaderReplaces, Replaces
  <2> QED BY <2>1, SequenceReplaced
<1>3. /\ Len(loads) \in Nat /\ Len(stacks) \in Nat /\ Len(loads') \in Nat /\ Len(stacks') \in Nat
      /\ Len(loads) <= Len(loads') /\ Len(stacks) <= Len(stacks')
  BY LoaderShape DEF LoaderOK, LoaderReplaces
<1>4. ASSUME NEW h \in DOMAIN goroutines', h # g
      PROVE  Loader!GoroutineOK(goroutines'[h], Len(loads'), Len(stacks'))
  <2>1. goroutines'[h] = goroutines[h] /\ h \in DOMAIN goroutines
    BY <1>2, <1>4
  <2>2. Loader!GoroutineOK(goroutines[h], Len(loads), Len(stacks))
    BY <2>1 DEF LoaderOK, Loader!TypeOK
  <2> QED BY <1>3, <2>1, <2>2, GoroutineStays
<1>5. Loader!GoroutineOK(goroutines'[g], Len(loads'), Len(stacks'))
  BY <1>2 DEF LoaderReplaces
<1> QED BY <1>2, <1>4, <1>5

(* A step of one goroutine that keeps its bodies and the tables.           *)
LoaderMoves(g, q) ==
  /\ g \in DOMAIN goroutines /\ goroutines' = [goroutines EXCEPT ![g] = q]
  /\ Loader!GoroutineOK(q, Len(loads), Len(stacks'))
  /\ SameBodies(goroutines[g], q)
  /\ goroutines[g].at \in {"forget", "release", "close"} => q.at \in {"forget", "release", "close"}
  /\ q.at # "close"
  /\ goroutines[g].at # "close"
  /\ Loader!IsSequence(stacks') /\ Len(stacks) <= Len(stacks')
  /\ UNCHANGED <<project, cache, inflight, loads, crashed>>

LEMMA LoaderMoved ==
  ASSUME LoaderOK, NEW g, NEW q, LoaderMoves(g, q)
  PROVE  LoaderOK'
<1>1. Loader!TypeOK /\ Loader!LoaderInv /\ g \in DOMAIN goroutines
  BY DEF LoaderOK, LoaderMoves
<1>2. LoaderReplaces(g, q)
  BY <1>1, LoaderShape, SequenceIs DEF LoaderMoves, LoaderReplaces
<1>3. /\ Loader!IsSequence(goroutines') /\ DOMAIN goroutines' = DOMAIN goroutines
      /\ goroutines'[g] = q /\ \A h \in DOMAIN goroutines \ {g} : goroutines'[h] = goroutines[h]
      /\ \A h \in DOMAIN goroutines' : Loader!GoroutineOK(goroutines'[h], Len(loads'), Len(stacks'))
  BY <1>2, LoaderReplaced
<1>5. ASSUME NEW h \in DOMAIN goroutines'
      PROVE  /\ SameBodies(goroutines[h], goroutines'[h])
             /\ goroutines'[h].at \notin {"forget", "release", "close"}
                  => goroutines[h].at \notin {"forget", "release", "close"}
             /\ goroutines'[h].at # "close" => goroutines[h].at # "close"
  <2>1. CASE h = g
    BY <1>3, <2>1 DEF LoaderMoves
  <2>2. CASE h # g
    <3>1. goroutines'[h] = goroutines[h] /\ h \in DOMAIN goroutines
      BY <1>3, <2>2
    <3>2. SameBodies(goroutines[h], goroutines'[h])
      BY <3>1 DEF SameBodies
    <3> QED BY <3>1, <3>2
  <2> QED BY <2>1, <2>2
<1>6. Loader!TypeOK'
  BY <1>1, <1>3 DEF Loader!TypeOK, LoaderMoves
<1>7. \A h \in DOMAIN goroutines' :
        /\ h \in DOMAIN goroutines /\ SameBodies(goroutines[h], goroutines'[h])
        /\ goroutines'[h].at \notin {"forget", "release", "close"}
             => goroutines[h].at \notin {"forget", "release", "close"}
        /\ goroutines'[h].at # "close" => goroutines[h].at # "close"
  BY <1>3, <1>5
<1>8. Loader!OneBody'
  BY <1>1, <1>7 DEF Loader!LoaderInv, Loader!OneBody, Loader!Calls, SameBodies
<1>9. Loader!Claimed'
  BY <1>1, <1>7 DEF Loader!LoaderInv, Loader!Claimed, Loader!Claims, Loader!Calls, SameBodies, LoaderMoves
<1>10. Loader!Unstored'
  BY <1>1, <1>7 DEF Loader!LoaderInv, Loader!Unstored, Loader!Evaluates, Loader!Calls, SameBodies, LoaderMoves
<1> QED BY <1>6, <1>8, <1>9, <1>10 DEF LoaderOK, Loader!LoaderInv

LEMMA LoaderOf ==
  ASSUME LoaderOK, NEW g \in DOMAIN goroutines
  PROVE  Loader!GoroutineOK(goroutines[g], Len(loads), Len(stacks))
BY DEF LoaderOK, Loader!TypeOK

(* Steps of this kind: an import returns, ...                              *)
LEMMA LoaderReturned ==
  ASSUME LoaderOK, NEW g \in DOMAIN goroutines, goroutines[g].at \notin {"forget", "release", "close"},
         NEW answer \in Loader!Answers, Loader!Become(g, Loader!Returned(goroutines[g], answer)),
         UNCHANGED <<project, cache, inflight, loads, stacks, crashed>>
  PROVE  LoaderOK'
<1>1. PICK r, q : r = goroutines[g] /\ q = Loader!Returned(goroutines[g], answer)
  OBVIOUS
<1>2. Len(loads) \in Nat /\ Len(stacks) \in Nat /\ Loader!IsSequence(stacks)
  BY LoaderShape DEF LoaderOK, Loader!TypeOK
<1>3. Loader!GoroutineOK(r, Len(loads), Len(stacks))
  BY <1>1, LoaderOf
<1>4. /\ Loader!GoroutineOK(q, Len(loads), Len(stacks)) /\ SameBodies(r, q)
      /\ q.at \in {"start", "body", "ended", "forget"}
  BY <1>1, <1>2, <1>3, GoroutineReturns, GoroutineHasParts
<1>5. LoaderMoves(g, q)
  BY <1>1, <1>2, <1>4 DEF LoaderMoves, Loader!Become
<1> QED BY <1>5, LoaderMoved

(* ... a body fails, ...                                                   *)
LEMMA LoaderFailed ==
  ASSUME LoaderOK, NEW g \in DOMAIN goroutines, goroutines[g].at \in {"body", "enter"},
         NEW error \in Loader!Answers, Loader!Become(g, Loader!Failing(goroutines[g], error)),
         Loader!IsSequence(stacks'), Len(stacks') = Len(stacks),
         UNCHANGED <<project, cache, inflight, loads, crashed>>
  PROVE  LoaderOK'
<1>1. PICK r, q : r = goroutines[g] /\ q = Loader!Failing(goroutines[g], error)
  OBVIOUS
<1>2. Len(loads) \in Nat /\ Len(stacks) \in Nat
  BY LoaderShape DEF LoaderOK
<1>3. Loader!GoroutineOK(r, Len(loads), Len(stacks)) /\ r.calls # <<>>
  BY <1>1, LoaderOf DEF Loader!GoroutineOK, Loader!Loading
<1>4. Loader!GoroutineOK(q, Len(loads), Len(stacks)) /\ SameBodies(r, q) /\ q.at \in {"ended", "forget"}
  BY <1>1, <1>2, <1>3, GoroutineFails, GoroutineHasParts
<1>5. LoaderMoves(g, q)
  BY <1>1, <1>2, <1>4 DEF LoaderMoves, Loader!Become
<1> QED BY <1>5, LoaderMoved

(* ... or a goroutine is at its next place, with an answer and a load to   *)
(* wait for.                                                               *)
Passes(r, at) ==
  \/ r.at \in Loader!Resolving /\ at \in Loader!Resolving
  \/ r.at = "body" /\ Loader!Top(r).load # 0 /\ at = "store"
  \/ r.at = "body" /\ at = "ended"
  \/ r.at = "enter" /\ at = "body"
  \/ r.at = "forget" /\ at = "release"

LEMMA LoaderPassed ==
  ASSUME LoaderOK, NEW g \in DOMAIN goroutines, NEW at, Passes(goroutines[g], at),
         NEW answer \in Loader!Answers, NEW load, at = "wait" => load \in 1 .. Len(loads),
         goroutines' = [goroutines EXCEPT ![g] = [goroutines[g] EXCEPT !.at = at, !.answer = answer, !.load = load]],
         Loader!IsSequence(stacks'), Len(stacks') = Len(stacks),
         UNCHANGED <<project, cache, inflight, loads, crashed>>
  PROVE  LoaderOK'
<1>1. PICK r, q : r = goroutines[g] /\ q = [r EXCEPT !.at = at, !.answer = answer, !.load = load]
  OBVIOUS
<1>2. Len(loads) \in Nat /\ Len(stacks) \in Nat
  BY LoaderShape DEF LoaderOK
<1>3. Loader!GoroutineOK(r, Len(loads), Len(stacks))
  BY <1>1, LoaderOf
<1>4. /\ DOMAIN q = DOMAIN r /\ q.at = at /\ q.answer = answer /\ q.load = load /\ q.calls = r.calls
      /\ q.import = r.import /\ q.stack = r.stack /\ q.attempts = r.attempts
  BY <1>1, <1>3 DEF Loader!GoroutineOK
<1>5. Loader!Top(q) = Loader!Top(r) /\ SameBodies(r, q)
  BY <1>4 DEF Loader!Top, SameBodies
<1>6. Passes(r, at)
  BY <1>1
<1>7. Loader!GoroutineOK(q, Len(loads), Len(stacks))
  BY <1>3, <1>4, <1>5, <1>6 DEF Passes, Loader!GoroutineOK, Loader!Resolving, Loader!Loading
<1>8. LoaderMoves(g, q)
  BY <1>1, <1>2, <1>4, <1>5, <1>6, <1>7 DEF LoaderMoves, Passes, Loader!Resolving
<1> QED BY <1>8, LoaderMoved

(* An import is begun, by a body or by the goroutine it was spawned for.   *)
LEMMA LoaderResolves ==
  ASSUME LoaderOK, NEW g \in DOMAIN goroutines, goroutines[g].at \in {"body", "start"},
         NEW request, Loader!HasMap(request, Len(stacks)), Loader!Resolve(g, request)
  PROVE  LoaderOK'
<1>1. PICK r, q : r = goroutines[g] /\ q = [r EXCEPT !.at = "check", !.target = request.target, !.stack = Loader!StackOf(request)]
  OBVIOUS
<1>2. Len(loads) \in Nat /\ Len(stacks) \in Nat /\ Loader!IsSequence(stacks)
  BY LoaderShape DEF LoaderOK, Loader!TypeOK
<1>3. /\ Loader!IsSequence(stacks') /\ Len(stacks') \in Nat /\ Len(stacks) <= Len(stacks')
      /\ Loader!StackOf(request) \in 1 .. Len(stacks')
  <2>1. CASE request.load = 0
    <3>1. stacks' = Append(stacks, {})
      BY <2>1 DEF Loader!Resolve, Loader!StacksFor
    <3>2. Loader!IsSequence(stacks') /\ Len(stacks') = Len(stacks) + 1
      BY <1>2, <3>1, SequenceAppended DEF Appends
    <3> QED BY <1>2, <2>1, <3>2 DEF Loader!StackOf
  <2>2. CASE request.load # 0
    BY <1>2, <2>2 DEF Loader!Resolve, Loader!StacksFor, Loader!StackOf, Loader!HasMap
  <2> QED BY <2>1, <2>2
<1>4. Loader!GoroutineOK(r, Len(loads), Len(stacks'))
  BY <1>1, <1>2, <1>3, LoaderOf, GoroutineStays
<1>5. /\ DOMAIN q = DOMAIN r /\ q.at = "check" /\ q.answer = r.answer /\ q.calls = r.calls
      /\ q.import = r.import /\ q.stack = Loader!StackOf(request) /\ q.attempts = r.attempts
  BY <1>1, <1>4 DEF Loader!GoroutineOK
<1>6. SameBodies(r, q)
  BY <1>5 DEF SameBodies
<1>7. Loader!GoroutineOK(q, Len(loads), Len(stacks'))
  BY <1>3, <1>4, <1>5 DEF Loader!GoroutineOK, Loader!Resolving, Loader!Loading
<1>8. LoaderMoves(g, q)
  BY <1>1, <1>3, <1>5, <1>6, <1>7 DEF LoaderMoves, Loader!Resolve, Loader!Become
<1> QED BY <1>8, LoaderMoved

(* A body that a goroutine had before, which runs or claims a file only    *)
(* if it did.                                                              *)
BodyStays(r, q, i) ==
  /\ i \in DOMAIN r.calls /\ q.calls[i].file = r.calls[i].file /\ q.calls[i].load = r.calls[i].load
  /\ (i = Len(r.calls) /\ r.at \in {"forget", "release", "close"})
       => (i = Len(q.calls) /\ q.at \in {"forget", "release", "close"})
  /\ (i = Len(r.calls) /\ r.at = "close") => (i = Len(q.calls) /\ q.at = "close")
BodiesStay == \A h \in DOMAIN goroutines' : \A i \in DOMAIN goroutines'[h].calls :
  h \in DOMAIN goroutines /\ BodyStays(goroutines[h], goroutines'[h], i)

LEMMA InvariantStays ==
  ASSUME LoaderOK, BodiesStay
  PROVE  /\ Loader!OneBody'
         /\ UNCHANGED inflight => Loader!Claimed'
         /\ UNCHANGED cache => Loader!Unstored'
         /\ \A h \in DOMAIN goroutines' : \A i \in DOMAIN goroutines'[h].calls :
              /\ Loader!Evaluates(h, i)' => Loader!Evaluates(h, i)
              /\ Loader!Claims(h, i)' => Loader!Claims(h, i)
<1>1. ASSUME NEW h \in DOMAIN goroutines', NEW i \in DOMAIN goroutines'[h].calls
      PROVE  /\ Loader!Evaluates(h, i)' => Loader!Evaluates(h, i)
             /\ Loader!Claims(h, i)' => Loader!Claims(h, i)
             /\ h \in DOMAIN goroutines /\ i \in DOMAIN Loader!Calls(h)
             /\ Loader!Calls(h)'[i].file = Loader!Calls(h)[i].file
             /\ Loader!Calls(h)'[i].load = Loader!Calls(h)[i].load
  <2>1. h \in DOMAIN goroutines /\ BodyStays(goroutines[h], goroutines'[h], i)
    BY <1>1 DEF BodiesStay
  <2> QED BY <2>1 DEF BodyStays, Loader!Evaluates, Loader!Claims, Loader!Calls
<1>2. Loader!OneBody /\ Loader!Claimed /\ Loader!Unstored
  BY DEF LoaderOK, Loader!LoaderInv
<1>3. \A h : Loader!Calls(h)' = goroutines'[h].calls
  BY DEF Loader!Calls
<1>4. Loader!OneBody'
  <2> SUFFICES ASSUME NEW g \in DOMAIN goroutines', NEW h \in DOMAIN goroutines',
                      NEW i \in DOMAIN goroutines'[g].calls, NEW j \in DOMAIN goroutines'[h].calls,
                      Loader!Calls(g)'[i].load # 0, Loader!Calls(g)'[i].load = Loader!Calls(h)'[j].load
               PROVE  g = h /\ i = j
    BY <1>3 DEF Loader!OneBody
  <2> QED BY <1>1, <1>2 DEF Loader!OneBody
<1>5. ASSUME UNCHANGED inflight PROVE Loader!Claimed'
  BY <1>1, <1>2, <1>3, <1>5 DEF Loader!Claimed
<1>6. ASSUME UNCHANGED cache PROVE Loader!Unstored'
  BY <1>1, <1>2, <1>3, <1>6 DEF Loader!Unstored
<1> QED BY <1>1, <1>4, <1>5, <1>6

(* Two bodies of a file never claim it at a time.                          *)
LEMMA ClaimsApart ==
  ASSUME Loader!LoaderInv, NEW g \in DOMAIN goroutines, NEW h \in DOMAIN goroutines,
         NEW i \in DOMAIN Loader!Calls(g), NEW j \in DOMAIN Loader!Calls(h),
         Loader!Claims(g, i), Loader!Claims(h, j), Loader!Calls(g)[i].file = Loader!Calls(h)[j].file
  PROVE  g = h /\ i = j
<1>1. Loader!Calls(g)[i].load # 0 /\ Loader!Calls(g)[i].load = Loader!Calls(h)[j].load
  BY DEF Loader!LoaderInv, Loader!Claimed, Loader!Claims
<1> QED BY <1>1 DEF Loader!LoaderInv, Loader!OneBody

LEMMA EvaluatesClaims ==
  ASSUME NEW g, NEW i, Loader!Evaluates(g, i)
  PROVE  Loader!Claims(g, i)
BY DEF Loader!Evaluates, Loader!Claims

(* The body a goroutine is in.                                             *)
LEMMA TopOf ==
  ASSUME LoaderOK, NEW g \in DOMAIN goroutines, goroutines[g].at \in Loader!Loading \ {"body"}
  PROVE  LET r == goroutines[g] IN
         /\ Len(r.calls) \in DOMAIN r.calls /\ Loader!Top(r) = r.calls[Len(r.calls)]
         /\ Loader!Top(r).load \in DOMAIN loads /\ Loader!Top(r).load # 0
         /\ r.answer \in Loader!Answers
         /\ DOMAIN r = {"import", "calls", "at", "target", "stack", "load", "attempts", "answer"}
<1>1. PICK r : r = goroutines[g]
  OBVIOUS
<1>2. Loader!GoroutineOK(r, Len(loads), Len(stacks))
  BY <1>1, LoaderOf
<1>3. Len(loads) \in Nat /\ DOMAIN loads = 1 .. Len(loads)
  BY LoaderShape DEF LoaderOK
<1>4. Loader!IsSequence(r.calls) /\ r.calls # <<>> /\ Loader!Top(r).load # 0
  BY <1>1, <1>2 DEF Loader!GoroutineOK
<1>5. Len(r.calls) \in DOMAIN r.calls
  BY <1>4, SequenceShortened
<1>6. Loader!Top(r) = r.calls[Len(r.calls)]
  BY DEF Loader!Top, Loader!Last
<1>7. Loader!CallOK(r.calls[Len(r.calls)], Len(loads), Len(stacks))
  BY <1>2, <1>5 DEF Loader!GoroutineOK
<1>8. Loader!Top(r).load \in DOMAIN loads
  BY <1>3, <1>4, <1>6, <1>7 DEF Loader!CallOK
<1> QED BY <1>1, <1>2, <1>4, <1>5, <1>6, <1>8 DEF Loader!GoroutineOK

(* The exports of a module are stored: no other goroutine runs its body.   *)
LEMMA LoaderStores ==
  ASSUME LoaderOK, NEW g \in DOMAIN goroutines, Loader!Store(g)
  PROVE  LoaderOK'
<1>1. PICK r, q, c : r = goroutines[g] /\ q = [r EXCEPT !.at = "forget", !.answer = "exports"] /\ c = Loader!Top(r)
  OBVIOUS
<1>2. /\ r.at = "store" /\ goroutines' = [goroutines EXCEPT ![g] = q]
      /\ cache' = [f \in DOMAIN cache \cup {c.file} |-> IF f = c.file THEN c.load ELSE cache[f]]
      /\ UNCHANGED <<project, inflight, loads, stacks, crashed>>
  BY <1>1 DEF Loader!Store, Loader!At, Loader!Become, Loader!Moved, Loader!With
<1>3. /\ Len(r.calls) \in DOMAIN r.calls /\ c = r.calls[Len(r.calls)] /\ c.load \in DOMAIN loads /\ c.load # 0
      /\ DOMAIN r = {"import", "calls", "at", "target", "stack", "load", "attempts", "answer"}
  BY <1>1, <1>2, TopOf DEF Loader!Loading
<1>4. /\ DOMAIN q = DOMAIN r /\ q.at = "forget" /\ q.answer = "exports" /\ q.calls = r.calls
      /\ q.import = r.import /\ q.attempts = r.attempts /\ Loader!Top(q) = Loader!Top(r)
  BY <1>1, <1>3 DEF Loader!Top
<1>5. Loader!GoroutineOK(r, Len(loads), Len(stacks))
  BY <1>1, LoaderOf
<1>6. Loader!GoroutineOK(q, Len(loads), Len(stacks))
  BY <1>2, <1>4, <1>5 DEF Loader!GoroutineOK, Loader!Resolving, Loader!Loading, Loader!Answers
<1>7. Loader!TypeOK /\ Loader!LoaderInv
  BY DEF LoaderOK
<1>8. LoaderReplaces(g, q)
  BY <1>2, <1>6, <1>7, LoaderShape DEF LoaderReplaces
<1>9. /\ Loader!IsSequence(goroutines') /\ DOMAIN goroutines' = DOMAIN goroutines
      /\ goroutines'[g] = q /\ \A h \in DOMAIN goroutines \ {g} : goroutines'[h] = goroutines[h]
      /\ \A h \in DOMAIN goroutines' : Loader!GoroutineOK(goroutines'[h], Len(loads'), Len(stacks'))
  BY <1>8, LoaderReplaced
<1>10. Loader!TypeOK'
  <2>1. \A f \in DOMAIN cache' : cache'[f] \in DOMAIN loads'
    BY <1>2, <1>3, <1>7 DEF Loader!TypeOK
  <2> QED BY <1>2, <1>7, <1>9, <2>1 DEF Loader!TypeOK
<1>11. BodiesStay
  BY <1>1, <1>2, <1>4, <1>9 DEF BodiesStay, BodyStays
<1>12. /\ Loader!OneBody' /\ Loader!Claimed'
       /\ \A h \in DOMAIN goroutines' : \A i \in DOMAIN goroutines'[h].calls :
            Loader!Evaluates(h, i)' => Loader!Evaluates(h, i)
  BY <1>2, <1>11, InvariantStays
<1>13. Loader!Unstored'
  <2> SUFFICES ASSUME NEW h \in DOMAIN goroutines', NEW i \in DOMAIN goroutines'[h].calls,
                      Loader!Evaluates(h, i)', goroutines'[h].calls[i].file \in DOMAIN cache'
               PROVE  FALSE
    BY DEF Loader!Unstored, Loader!Calls
  <2>1. /\ Loader!Evaluates(h, i) /\ h \in DOMAIN goroutines /\ i \in DOMAIN Loader!Calls(h)
        /\ Loader!Calls(h)[i].file \in DOMAIN cache'
    BY <1>11, <1>12 DEF BodiesStay, BodyStays, Loader!Calls
  <2>2. Loader!Calls(h)[i].file = c.file
    BY <1>2, <1>7, <2>1 DEF Loader!LoaderInv, Loader!Unstored
  <2>3. /\ Len(r.calls) \in DOMAIN Loader!Calls(g) /\ Loader!Calls(g)[Len(r.calls)] = c
        /\ Loader!Claims(g, Len(r.calls)) /\ Loader!Claims(h, i)
    BY <1>1, <1>2, <1>3, <2>1, EvaluatesClaims DEF Loader!Calls, Loader!Claims
  <2>4. g = h /\ i = Len(r.calls)
    BY <1>7, <2>1, <2>2, <2>3, ClaimsApart
  <2> QED BY <1>4, <1>9, <2>4 DEF Loader!Evaluates, Loader!Calls
<1> QED BY <1>10, <1>12, <1>13 DEF LoaderOK, Loader!LoaderInv

(* A file is released: by the one body that claims it.                     *)
LEMMA LoaderReleases ==
  ASSUME LoaderOK, NEW g \in DOMAIN goroutines, Loader!Release(g)
  PROVE  LoaderOK'
<1>1. PICK r, q, c : r = goroutines[g] /\ q = [r EXCEPT !.at = "close"] /\ c = Loader!Top(r)
  OBVIOUS
<1>2. /\ r.at = "release" /\ goroutines' = [goroutines EXCEPT ![g] = q]
      /\ inflight' = [f \in DOMAIN inflight \ {c.file} |-> inflight[f]]
      /\ UNCHANGED <<project, cache, loads, stacks, crashed>>
  BY <1>1 DEF Loader!Release, Loader!At, Loader!Become, Loader!Moved
<1>3. /\ Len(r.calls) \in DOMAIN r.calls /\ c = r.calls[Len(r.calls)] /\ c.load # 0
      /\ DOMAIN r = {"import", "calls", "at", "target", "stack", "load", "attempts", "answer"}
  BY <1>1, <1>2, TopOf DEF Loader!Loading
<1>4. /\ DOMAIN q = DOMAIN r /\ q.at = "close" /\ q.answer = r.answer /\ q.calls = r.calls
      /\ q.import = r.import /\ q.attempts = r.attempts /\ Loader!Top(q) = Loader!Top(r)
  BY <1>1, <1>3 DEF Loader!Top
<1>5. Loader!GoroutineOK(r, Len(loads), Len(stacks))
  BY <1>1, LoaderOf
<1>6. Loader!GoroutineOK(q, Len(loads), Len(stacks))
  BY <1>2, <1>4, <1>5 DEF Loader!GoroutineOK, Loader!Resolving, Loader!Loading
<1>7. Loader!TypeOK /\ Loader!LoaderInv
  BY DEF LoaderOK
<1>8. LoaderReplaces(g, q)
  BY <1>2, <1>6, <1>7, LoaderShape DEF LoaderReplaces
<1>9. /\ Loader!IsSequence(goroutines') /\ DOMAIN goroutines' = DOMAIN goroutines
      /\ goroutines'[g] = q /\ \A h \in DOMAIN goroutines \ {g} : goroutines'[h] = goroutines[h]
      /\ \A h \in DOMAIN goroutines' : Loader!GoroutineOK(goroutines'[h], Len(loads'), Len(stacks'))
  BY <1>8, LoaderReplaced
<1>10. Loader!TypeOK'
  <2>1. \A f \in DOMAIN inflight' : inflight'[f] \in DOMAIN loads'
    BY <1>2, <1>7 DEF Loader!TypeOK
  <2> QED BY <1>2, <1>7, <1>9, <2>1 DEF Loader!TypeOK
<1>11. BodiesStay
  BY <1>1, <1>2, <1>4, <1>9 DEF BodiesStay, BodyStays
<1>12. /\ Loader!OneBody' /\ Loader!Unstored'
       /\ \A h \in DOMAIN goroutines' : \A i \in DOMAIN goroutines'[h].calls :
            Loader!Claims(h, i)' => Loader!Claims(h, i)
  BY <1>2, <1>11, InvariantStays
<1>13. Loader!Claimed'
  <2> SUFFICES ASSUME NEW h \in DOMAIN goroutines', NEW i \in DOMAIN goroutines'[h].calls, Loader!Claims(h, i)'
               PROVE  LET f == goroutines'[h].calls[i].file IN
                      f \in DOMAIN inflight' /\ inflight'[f] = goroutines'[h].calls[i].load
    BY DEF Loader!Claimed, Loader!Calls
  <2>1. /\ Loader!Claims(h, i) /\ h \in DOMAIN goroutines /\ i \in DOMAIN Loader!Calls(h)
        /\ goroutines'[h].calls[i].file = Loader!Calls(h)[i].file
        /\ goroutines'[h].calls[i].load = Loader!Calls(h)[i].load
    BY <1>11, <1>12 DEF BodiesStay, BodyStays, Loader!Calls
  <2>2. Loader!Calls(h)[i].file # c.file
    <3> SUFFICES ASSUME Loader!Calls(h)[i].file = c.file
                 PROVE  FALSE
      OBVIOUS
    <3>1. /\ Len(r.calls) \in DOMAIN Loader!Calls(g) /\ Loader!Calls(g)[Len(r.calls)] = c
          /\ Loader!Claims(g, Len(r.calls))
      BY <1>1, <1>2, <1>3 DEF Loader!Calls, Loader!Claims
    <3>2. g = h /\ i = Len(r.calls)
      BY <1>7, <2>1, <3>1, ClaimsApart
    <3> QED BY <1>4, <1>9, <3>2 DEF Loader!Claims, Loader!Calls
  <2> QED BY <1>2, <1>7, <2>1, <2>2 DEF Loader!LoaderInv, Loader!Claimed
<1> QED BY <1>10, <1>12, <1>13 DEF LoaderOK, Loader!LoaderInv

(* A goroutine begins a load: with a number no other has.                  *)
LEMMA LoaderRegisters ==
  ASSUME LoaderOK, NEW g \in DOMAIN goroutines, goroutines[g].at = "claim",
         goroutines[g].target \notin DOMAIN cache, goroutines[g].target \notin DOMAIN inflight,
         Loader!Register(g), UNCHANGED <<project, cache, stacks, crashed>>
  PROVE  LoaderOK'
<1> DEFINE n == Len(loads) + 1
<1>1. PICK r, c, q : /\ r = goroutines[g] /\ c = Loader!Call(r.target, n, r.stack)
                     /\ q = [r EXCEPT !.at = "enter", !.calls = Append(@, c)]
  OBVIOUS
<1>2. /\ goroutines' = [goroutines EXCEPT ![g] = q]
      /\ inflight' = [f \in DOMAIN inflight \cup {r.target} |-> IF f = r.target THEN n ELSE inflight[f]]
      /\ loads' = Append(loads, [done |-> FALSE, answer |-> "none"])
  BY <1>1 DEF Loader!Register, Loader!Become, Loader!Moved, Loader!With
<1>3. /\ Loader!TypeOK /\ Loader!LoaderInv /\ Len(loads) \in Nat /\ Len(stacks) \in Nat /\ DOMAIN loads = 1 .. Len(loads)
      /\ loads \in Seq([done : BOOLEAN, answer : Loader!Answers])
  BY LoaderShape DEF LoaderOK, Loader!TypeOK
<1>4. /\ loads' \in Seq([done : BOOLEAN, answer : Loader!Answers])
      /\ Len(loads') = n /\ DOMAIN loads' = 1 .. n
  <2>1. [done |-> FALSE, answer |-> "none"] \in [done : BOOLEAN, answer : Loader!Answers]
    BY DEF Loader!Answers
  <2> QED BY <1>2, <1>3, <2>1, AppendProperties, LenProperties
<1>5. Loader!GoroutineOK(r, Len(loads), Len(stacks))
  BY <1>1, LoaderOf
<1>6. Loader!GoroutineOK(r, n, Len(stacks))
  BY <1>3, <1>5, GoroutineStays
<1>7. /\ c.file = r.target /\ c.load = n /\ n # 0 /\ Loader!CallOK(c, n, Len(stacks))
  BY <1>1, <1>3, <1>5 DEF Loader!Call, Loader!CallOK, Loader!HasMap, Loader!GoroutineOK, Loader!Resolving
<1>8. /\ DOMAIN q = DOMAIN r /\ q.at = "enter" /\ q.answer = r.answer /\ q.calls = Append(r.calls, c)
      /\ q.import = r.import /\ q.attempts = r.attempts
  BY <1>1, <1>6 DEF Loader!GoroutineOK
<1>9. Loader!IsSequence(r.calls) /\ Len(r.calls) \in Nat /\ DOMAIN r.calls = 1 .. Len(r.calls)
  BY <1>5, SequenceIs DEF Loader!GoroutineOK
<1>10. /\ Loader!IsSequence(q.calls) /\ Len(q.calls) = Len(r.calls) + 1 /\ DOMAIN q.calls = 1 .. Len(r.calls) + 1
       /\ q.calls[Len(r.calls) + 1] = c /\ \A j \in DOMAIN r.calls : q.calls[j] = r.calls[j]
  <2>1. Appends(r.calls, c, q.calls)
    BY <1>8, <1>9 DEF Appends
  <2> QED BY <2>1, SequenceAppended
<1>11. Loader!Top(q) = c /\ q.calls # <<>>
  BY <1>9, <1>10 DEF Loader!Top, Loader!Last
<1>12. \A i \in DOMAIN q.calls : Loader!CallOK(q.calls[i], n, Len(stacks))
  BY <1>6, <1>7, <1>9, <1>10 DEF Loader!GoroutineOK
<1>13. Loader!GoroutineOK(q, n, Len(stacks))
  BY <1>6, <1>7, <1>8, <1>10, <1>11, <1>12 DEF Loader!GoroutineOK, Loader!Resolving, Loader!Loading
<1>14. LoaderReplaces(g, q)
  BY <1>2, <1>3, <1>4, <1>13 DEF LoaderReplaces
<1>15. /\ Loader!IsSequence(goroutines') /\ DOMAIN goroutines' = DOMAIN goroutines
       /\ goroutines'[g] = q /\ \A h \in DOMAIN goroutines \ {g} : goroutines'[h] = goroutines[h]
       /\ \A h \in DOMAIN goroutines' : Loader!GoroutineOK(goroutines'[h], Len(loads'), Len(stacks'))
  BY <1>14, LoaderReplaced
<1>16. Loader!TypeOK'
  <2>1. /\ \A f \in DOMAIN cache' : cache'[f] \in DOMAIN loads'
        /\ \A f \in DOMAIN inflight' : inflight'[f] \in DOMAIN loads'
    BY <1>2, <1>3, <1>4 DEF Loader!TypeOK
  <2> QED BY <1>3, <1>4, <1>15, <2>1 DEF Loader!TypeOK
(* A body is the new one, or was there before.                             *)
<1> DEFINE k == Len(r.calls) + 1
<1>17. \A h \in DOMAIN goroutines' : \A i \in DOMAIN Loader!Calls(h)' :
         \/ h = g /\ i = k /\ Loader!Calls(h)'[i] = c
         \/ /\ <<h, i>> # <<g, k>> /\ h \in DOMAIN goroutines /\ i \in DOMAIN Loader!Calls(h)
            /\ Loader!Calls(h)'[i] = Loader!Calls(h)[i]
            /\ Loader!Calls(h)[i].load # n
            /\ Loader!Claims(h, i)' => Loader!Claims(h, i)
            /\ Loader!Evaluates(h, i)' => Loader!Evaluates(h, i)
  <2> SUFFICES ASSUME NEW h \in DOMAIN goroutines', NEW i \in DOMAIN Loader!Calls(h)', ~(h = g /\ i = k)
               PROVE  /\ h \in DOMAIN goroutines /\ i \in DOMAIN Loader!Calls(h)
                      /\ Loader!Calls(h)'[i] = Loader!Calls(h)[i]
                      /\ Loader!Calls(h)[i].load # n
                      /\ Loader!Claims(h, i)' => Loader!Claims(h, i)
                      /\ Loader!Evaluates(h, i)' => Loader!Evaluates(h, i)
    <3>1. Loader!Calls(g)'[k] = c
      BY <1>10, <1>15 DEF Loader!Calls
    <3> HIDE DEF k, n
    <3> QED BY <3>1
  <2>0. Loader!Calls(g)' = q.calls /\ Loader!Calls(g) = r.calls
    BY <1>1, <1>15 DEF Loader!Calls
  <2>1. /\ h \in DOMAIN goroutines /\ i \in DOMAIN Loader!Calls(h)
        /\ Loader!Calls(h)'[i] = Loader!Calls(h)[i]
    <3>1. CASE h = g
      <4>1. i \in DOMAIN r.calls
        BY <1>9, <1>10, <2>0, <3>1
      <4> QED BY <1>10, <2>0, <3>1, <4>1
    <3>2. CASE h # g
      BY <1>15, <3>2 DEF Loader!Calls
    <3> QED BY <3>1, <3>2
  <2>2. Loader!GoroutineOK(goroutines[h], Len(loads), Len(stacks))
    BY <2>1, LoaderOf
  <2>3. Loader!CallOK(Loader!Calls(h)[i], Len(loads), Len(stacks))
    BY <2>1, <2>2 DEF Loader!GoroutineOK, Loader!Calls
  <2>4. Loader!Calls(h)[i].load # n
    BY <1>3, <2>3 DEF Loader!CallOK
  <2>5. CASE h = g
    BY <1>1, <2>1, <2>4, <2>5 DEF Loader!Claims, Loader!Evaluates
  <2>6. CASE h # g
    <3>1. goroutines'[h] = goroutines[h]
      BY <1>15, <2>1, <2>6
    <3> QED BY <2>1, <2>4, <3>1 DEF Loader!Claims, Loader!Evaluates, Loader!Calls
  <2> QED BY <2>5, <2>6
<1> HIDE DEF n, k
<1>18. Loader!OneBody /\ Loader!Claimed /\ Loader!Unstored
  BY <1>3 DEF Loader!LoaderInv
<1>19. Loader!OneBody'
  <2> SUFFICES ASSUME NEW h \in DOMAIN goroutines', NEW i \in DOMAIN Loader!Calls(h)',
                      NEW l \in DOMAIN goroutines', NEW j \in DOMAIN Loader!Calls(l)',
                      Loader!Calls(h)'[i].load # 0, Loader!Calls(h)'[i].load = Loader!Calls(l)'[j].load
               PROVE  h = l /\ i = j
    BY DEF Loader!OneBody
  <2>1. CASE h = g /\ i = k /\ Loader!Calls(h)'[i] = c
    BY <1>7, <1>17, <2>1
  <2>2. CASE l = g /\ j = k /\ Loader!Calls(l)'[j] = c
    BY <1>7, <1>17, <2>2
  <2>3. CASE /\ h \in DOMAIN goroutines /\ i \in DOMAIN Loader!Calls(h) /\ Loader!Calls(h)'[i] = Loader!Calls(h)[i]
             /\ l \in DOMAIN goroutines /\ j \in DOMAIN Loader!Calls(l) /\ Loader!Calls(l)'[j] = Loader!Calls(l)[j]
    BY <1>18, <2>3 DEF Loader!OneBody
  <2> QED BY <1>17, <2>1, <2>2, <2>3
<1>20. Loader!Claimed'
  <2> SUFFICES ASSUME NEW h \in DOMAIN goroutines', NEW i \in DOMAIN Loader!Calls(h)', Loader!Claims(h, i)'
               PROVE  LET f == Loader!Calls(h)'[i].file IN f \in DOMAIN inflight' /\ inflight'[f] = Loader!Calls(h)'[i].load
    BY DEF Loader!Claimed
  <2>1. CASE Loader!Calls(h)'[i] = c
    BY <1>2, <1>7, <2>1
  <2>2. CASE /\ h \in DOMAIN goroutines /\ i \in DOMAIN Loader!Calls(h)
             /\ Loader!Calls(h)'[i] = Loader!Calls(h)[i] /\ Loader!Claims(h, i)
    <3>1. LET f == Loader!Calls(h)[i].file IN f \in DOMAIN inflight /\ inflight[f] = Loader!Calls(h)[i].load
      BY <1>18, <2>2 DEF Loader!Claimed
    <3> QED BY <1>1, <1>2, <2>2, <3>1
  <2> QED BY <1>17, <2>1, <2>2
<1>21. Loader!Unstored'
  <2> SUFFICES ASSUME NEW h \in DOMAIN goroutines', NEW i \in DOMAIN Loader!Calls(h)', Loader!Evaluates(h, i)'
               PROVE  Loader!Calls(h)'[i].file \notin DOMAIN cache'
    BY DEF Loader!Unstored
  <2>1. CASE Loader!Calls(h)'[i] = c
    BY <1>1, <1>7, <2>1
  <2>2. CASE /\ h \in DOMAIN goroutines /\ i \in DOMAIN Loader!Calls(h)
             /\ Loader!Calls(h)'[i] = Loader!Calls(h)[i] /\ Loader!Evaluates(h, i)
    BY <1>18, <2>2 DEF Loader!Unstored
  <2> QED BY <1>17, <2>1, <2>2
<1> QED BY <1>16, <1>19, <1>20, <1>21 DEF LoaderOK, Loader!LoaderInv

(* A load is closed, and its body left.                                    *)
LEMMA LoaderCloses ==
  ASSUME LoaderOK, NEW g \in DOMAIN goroutines, Loader!Close(g)
  PROVE  LoaderOK'
<1>1. PICK r, s, q : /\ r = goroutines[g] /\ s = [r EXCEPT !.calls = Loader!Front(@)]
                     /\ q = Loader!Returned(s, r.answer)
  OBVIOUS
<1>2. /\ r.at = "close" /\ goroutines' = [goroutines EXCEPT ![g] = q]
      /\ loads' = [loads EXCEPT ![Loader!Top(r).load] = [done |-> TRUE, answer |-> r.answer]]
      /\ UNCHANGED <<project, cache, inflight, stacks, crashed>>
  BY <1>1 DEF Loader!Close, Loader!At, Loader!Become
<1>3. /\ Loader!TypeOK /\ Loader!LoaderInv /\ Len(loads) \in Nat /\ Len(stacks) \in Nat /\ DOMAIN loads = 1 .. Len(loads)
      /\ loads \in Seq([done : BOOLEAN, answer : Loader!Answers])
  BY LoaderShape DEF LoaderOK, Loader!TypeOK
<1>4. Loader!Top(r).load \in DOMAIN loads /\ r.answer \in Loader!Answers
  BY <1>1, <1>2, TopOf DEF Loader!Loading
<1>5. loads' \in Seq([done : BOOLEAN, answer : Loader!Answers]) /\ Len(loads') = Len(loads) /\ DOMAIN loads' = DOMAIN loads
  <2>1. PICK x : x = [done |-> TRUE, answer |-> r.answer]
    OBVIOUS
  <2>2. x \in [done : BOOLEAN, answer : Loader!Answers]
    BY <1>4, <2>1
  <2> QED BY <1>2, <1>3, <1>4, <2>1, <2>2, ExceptSeq
<1>6. Loader!GoroutineOK(r, Len(loads), Len(stacks)) /\ r.calls # <<>>
  BY <1>1, <1>2, LoaderOf DEF Loader!GoroutineOK, Loader!Loading
<1>7. DOMAIN s = DOMAIN r /\ s.calls = Loader!Front(r.calls) /\ s.import = r.import
      /\ s.attempts = r.attempts /\ s.answer = r.answer
  BY <1>1, <1>6 DEF Loader!GoroutineOK
<1>8. /\ Loader!IsSequence(s.calls) /\ Len(s.calls) = Len(r.calls) - 1 /\ DOMAIN s.calls = 1 .. Len(r.calls) - 1
      /\ Len(r.calls) \in DOMAIN r.calls /\ \A j \in DOMAIN s.calls : s.calls[j] = r.calls[j]
      /\ Len(r.calls) \in Nat /\ DOMAIN r.calls = 1 .. Len(r.calls)
  BY <1>6, <1>7, SequenceShortened, SequenceIs DEF Loader!GoroutineOK
<1>9. GoroutineParts(s, Len(loads), Len(stacks))
  <2>1. \A j \in DOMAIN s.calls : j \in DOMAIN r.calls
    BY <1>8
  <2> QED BY <1>6, <1>7, <1>8, <2>1 DEF GoroutineParts, Loader!GoroutineOK
<1>10. Loader!GoroutineOK(q, Len(loads), Len(stacks)) /\ SameBodies(s, q)
  BY <1>1, <1>3, <1>4, <1>9, GoroutineReturns
<1>11. LoaderReplaces(g, q)
  BY <1>2, <1>3, <1>5, <1>10 DEF LoaderReplaces
<1>12. /\ Loader!IsSequence(goroutines') /\ DOMAIN goroutines' = DOMAIN goroutines
       /\ goroutines'[g] = q /\ \A h \in DOMAIN goroutines \ {g} : goroutines'[h] = goroutines[h]
       /\ \A h \in DOMAIN goroutines' : Loader!GoroutineOK(goroutines'[h], Len(loads'), Len(stacks'))
  BY <1>11, LoaderReplaced
<1>13. Loader!TypeOK'
  BY <1>2, <1>3, <1>5, <1>12 DEF Loader!TypeOK
<1>14. \A i \in DOMAIN q.calls : BodyStays(r, q, i)
  <2> SUFFICES ASSUME NEW i \in DOMAIN q.calls PROVE BodyStays(r, q, i)
    OBVIOUS
  <2>1. i \in DOMAIN r.calls /\ i # Len(r.calls) /\ i \in DOMAIN s.calls
    BY <1>8, <1>10 DEF SameBodies
  <2> QED BY <1>8, <1>10, <2>1 DEF SameBodies, BodyStays
<1>15. BodiesStay
  BY <1>1, <1>12, <1>14 DEF BodiesStay, BodyStays
<1>16. Loader!OneBody' /\ Loader!Claimed' /\ Loader!Unstored'
  BY <1>2, <1>15, InvariantStays
<1> QED BY <1>13, <1>16 DEF LoaderOK, Loader!LoaderInv

(* An import is spawned: a goroutine for it, which has no body yet.        *)
LEMMA LoaderSpawns ==
  ASSUME LoaderOK, NEW g \in DOMAIN goroutines, Loader!ImportDynamic(g)
  PROVE  LoaderOK'
<1> DEFINE n == Len(goroutines) + 1
<1>1. PICK r, p, q, new, gs :
        /\ r = goroutines[g] /\ p = Loader!Advanced(r) /\ q = [p EXCEPT !.calls[Len(r.calls)].promise = n]
        /\ new = Loader!Goroutine(Loader!Requested(r), <<>>, "start") /\ gs = [goroutines EXCEPT ![g] = q]
  OBVIOUS
<1>2. /\ r.at = "body" /\ goroutines' = Append(gs, new)
      /\ UNCHANGED <<project, cache, inflight, loads, stacks, crashed>>
  BY <1>1 DEF Loader!ImportDynamic, Loader!Executes, Loader!At
<1>3. /\ Loader!TypeOK /\ Loader!LoaderInv /\ Loader!IsSequence(goroutines)
      /\ Len(loads) \in Nat /\ Len(stacks) \in Nat
      /\ Len(goroutines) \in Nat /\ DOMAIN goroutines = 1 .. Len(goroutines)
  BY LoaderShape DEF LoaderOK, Loader!TypeOK
<1>4. Loader!GoroutineOK(r, Len(loads), Len(stacks)) /\ r.calls # <<>>
  BY <1>1, <1>2, LoaderOf DEF Loader!GoroutineOK, Loader!Loading
<1>5. /\ Loader!GoroutineOK(p, Len(loads), Len(stacks)) /\ SameBodies(r, p) /\ p.at = "body" /\ p.calls # <<>>
  <2>1. GoroutineParts(r, Len(loads), Len(stacks)) /\ r.calls # <<>> /\ p = Loader!Advanced(r)
    BY <1>1, <1>4, GoroutineHasParts
  <2> QED BY <1>3, <2>1, GoroutineAdvances
<1>6. /\ Loader!IsSequence(p.calls) /\ Len(p.calls) = Len(r.calls) /\ DOMAIN p.calls = DOMAIN r.calls
      /\ Len(r.calls) \in DOMAIN p.calls
  BY <1>5, SequenceShortened DEF Loader!GoroutineOK, SameBodies
<1>7. PICK c : c = [p.calls[Len(r.calls)] EXCEPT !.promise = n]
  OBVIOUS
<1>8. Loader!CallOK(p.calls[Len(r.calls)], Len(loads), Len(stacks))
  BY <1>5, <1>6 DEF Loader!GoroutineOK
<1>9. /\ Loader!CallOK(c, Len(loads), Len(stacks))
      /\ c.file = p.calls[Len(r.calls)].file /\ c.load = p.calls[Len(r.calls)].load
  BY <1>7, <1>8 DEF Loader!CallOK, Loader!HasMap
<1>10. /\ DOMAIN q = DOMAIN p /\ q.calls = [p.calls EXCEPT ![Len(r.calls)] = c]
       /\ q.at = p.at /\ q.import = p.import /\ q.attempts = p.attempts /\ q.answer = p.answer
  BY <1>1, <1>5, <1>6, <1>7 DEF Loader!GoroutineOK
<1>11. /\ Loader!IsSequence(q.calls) /\ Len(q.calls) = Len(p.calls) /\ DOMAIN q.calls = DOMAIN p.calls
       /\ q.calls[Len(r.calls)] = c /\ \A j \in DOMAIN p.calls \ {Len(r.calls)} : q.calls[j] = p.calls[j]
  <2>1. Replaces(p.calls, Len(r.calls), c, q.calls)
    BY <1>6, <1>10 DEF Replaces
  <2> QED BY <1>6, <2>1, SequenceReplaced
<1>12. SameBodies(r, q)
  BY <1>5, <1>6, <1>9, <1>11 DEF SameBodies
<1>13. \A j \in DOMAIN q.calls : Loader!CallOK(q.calls[j], Len(loads), Len(stacks))
  BY <1>5, <1>9, <1>11 DEF Loader!GoroutineOK
<1>14. q.calls # <<>>
  BY <1>6, <1>11
<1>15. Loader!GoroutineOK(q, Len(loads), Len(stacks))
  BY <1>5, <1>10, <1>11, <1>13, <1>14 DEF Loader!GoroutineOK, Loader!Resolving, Loader!Loading
<1>16. /\ Loader!IsSequence(gs) /\ Len(gs) = Len(goroutines) /\ DOMAIN gs = DOMAIN goroutines
       /\ gs[g] = q /\ \A j \in DOMAIN goroutines \ {g} : gs[j] = goroutines[j]
  <2>1. Replaces(goroutines, g, q, gs)
    BY <1>1, <1>3 DEF Replaces
  <2> QED BY <2>1, SequenceReplaced
<1>17. /\ Loader!IsSequence(goroutines') /\ DOMAIN goroutines' = 1 .. n
       /\ goroutines'[n] = new
       /\ \A j \in DOMAIN gs : goroutines'[j] = gs[j]
  <2>1. Appends(gs, new, goroutines')
    BY <1>2, <1>16 DEF Appends
  <2> QED BY <1>16, <2>1, SequenceAppended
<1>18. /\ DOMAIN new = DOMAIN r /\ new.import = Loader!Requested(r) /\ new.calls = <<>> /\ new.at = "start"
       /\ new.attempts = project.attempts /\ new.answer = "none"
  BY <1>1, <1>4 DEF Loader!Goroutine, Loader!GoroutineOK
<1>19. Loader!HasMap(Loader!Requested(r), Len(stacks))
  <2>1. Loader!Top(r) = r.calls[Len(r.calls)] /\ Len(r.calls) \in DOMAIN r.calls
    BY <1>6 DEF Loader!Top, Loader!Last
  <2>2. Loader!CallOK(Loader!Top(r), Len(loads), Len(stacks))
    BY <1>4, <2>1 DEF Loader!GoroutineOK
  <2>3. Loader!Requested(r).load = Loader!Top(r).load /\ Loader!Requested(r).stack = Loader!Top(r).stack
    BY DEF Loader!Requested, Loader!Request
  <2> QED BY <2>2, <2>3 DEF Loader!CallOK, Loader!HasMap
<1>20. Loader!IsSequence(<<>>)
  BY DEF Loader!IsSequence
<1>21. Loader!GoroutineOK(new, Len(loads), Len(stacks))
  BY <1>3, <1>4, <1>18, <1>19, <1>20 DEF Loader!TypeOK, Loader!GoroutineOK, Loader!Resolving, Loader!Loading, Loader!Answers
<1>22. Loader!TypeOK'
  <2>1. ASSUME NEW h \in DOMAIN goroutines'
        PROVE  Loader!GoroutineOK(goroutines'[h], Len(loads), Len(stacks))
    <3>1. CASE h = n
      BY <1>17, <1>21, <3>1
    <3>2. CASE h = g
      BY <1>15, <1>16, <1>17, <3>2
    <3>3. CASE h # n /\ h # g
      <4>1. h \in DOMAIN goroutines /\ goroutines'[h] = goroutines[h]
        BY <1>3, <1>16, <1>17, <3>3
      <4> QED BY <4>1, LoaderOf
    <3> QED BY <3>1, <3>2, <3>3
  <2> QED BY <1>2, <1>3, <1>17, <2>1 DEF Loader!TypeOK
<1>23. BodiesStay
  <2> SUFFICES ASSUME NEW h \in DOMAIN goroutines', NEW i \in DOMAIN goroutines'[h].calls
               PROVE  h \in DOMAIN goroutines /\ BodyStays(goroutines[h], goroutines'[h], i)
    BY DEF BodiesStay
  <2>1. CASE h = n
    BY <1>17, <1>18, <2>1
  <2>2. CASE h = g
    <3>1. goroutines'[h] = q /\ goroutines[h] = r
      BY <1>1, <1>16, <1>17, <2>2
    <3> QED BY <1>2, <1>12, <2>2, <3>1 DEF SameBodies, BodyStays
  <2>3. CASE h # n /\ h # g
    <3>1. h \in DOMAIN goroutines /\ goroutines'[h] = goroutines[h]
      BY <1>3, <1>16, <1>17, <2>3
    <3> QED BY <3>1 DEF BodyStays
  <2> QED BY <2>1, <2>2, <2>3
<1>24. Loader!OneBody' /\ Loader!Claimed' /\ Loader!Unstored'
  BY <1>2, <1>23, InvariantStays
<1> QED BY <1>22, <1>24 DEF LoaderOK, Loader!LoaderInv

LEMMA LoaderStarts == ASSUME Loader!Init PROVE LoaderOK
<1>2. PICK s, r : /\ s = Loader!Call(project.entry, 0, 0)
                  /\ r = Loader!Goroutine(Loader!Request(s, Loader!NotFound), <<s>>, "body")
  OBVIOUS
<1>3. /\ cache = <<>> /\ inflight = <<>> /\ loads = <<>> /\ stacks = <<>> /\ crashed = FALSE
      /\ goroutines = <<r>> /\ project.attempts \in Nat \ {0}
  BY <1>2, RuntimeAssumption DEF Loader!Init
<1>4. /\ DOMAIN s = {"file", "load", "stack", "pc", "promise"} /\ s.load = 0
      /\ DOMAIN r = {"import", "calls", "at", "target", "stack", "load", "attempts", "answer"}
      /\ r.import.load = 0 /\ r.calls = <<s>> /\ r.at = "body" /\ r.attempts = project.attempts /\ r.answer = "none"
  BY <1>2 DEF Loader!Call, Loader!Goroutine, Loader!Request
<1>5. Len(loads) = 0 /\ Len(stacks) = 0 /\ Loader!IsSequence(stacks) /\ loads \in Seq([done : BOOLEAN, answer : Loader!Answers])
  BY <1>3 DEF Loader!IsSequence
<1>6. \A x : Loader!IsSequence(<<x>>) /\ DOMAIN <<x>> = {1} /\ <<x>> # <<>>
  BY DEF Loader!IsSequence
<1>7. Loader!GoroutineOK(r, 0, 0)
  <2>1. Loader!IsSequence(r.calls) /\ r.calls # <<>> /\ \A i \in DOMAIN r.calls : r.calls[i] = s
    BY <1>4, <1>6
  <2>2. Loader!CallOK(s, 0, 0)
    BY <1>4 DEF Loader!CallOK, Loader!HasMap
  <2> QED BY <1>3, <1>4, <2>1, <2>2 DEF Loader!GoroutineOK, Loader!HasMap, Loader!Resolving, Loader!Loading, Loader!Answers
<1>8. Loader!TypeOK
  <2>1. /\ \A f \in DOMAIN cache : cache[f] \in DOMAIN loads
        /\ \A f \in DOMAIN inflight : inflight[f] \in DOMAIN loads
    BY <1>3
  <2>2. \A g \in DOMAIN goroutines : Loader!GoroutineOK(goroutines[g], Len(loads), Len(stacks))
    BY <1>3, <1>5, <1>6, <1>7
  <2>3. Loader!IsSequence(goroutines) /\ crashed \in BOOLEAN /\ project.attempts \in Nat \ {0}
    BY <1>3, <1>6
  <2> QED BY <1>5, <2>1, <2>2, <2>3 DEF Loader!TypeOK
<1>9. \A g \in DOMAIN goroutines : \A i \in DOMAIN Loader!Calls(g) : g = 1 /\ i = 1 /\ Loader!Calls(g)[i].load = 0
  BY <1>3, <1>4, <1>6 DEF Loader!Calls
<1>10. Loader!LoaderInv
  BY <1>9 DEF Loader!LoaderInv, Loader!OneBody, Loader!Claimed, Loader!Unstored, Loader!Claims, Loader!Evaluates
<1> QED BY <1>8, <1>10 DEF LoaderOK

(* A goroutine at its next place, and nothing else of it. *)
LEMMA LoaderArrives ==
  ASSUME LoaderOK, NEW g \in DOMAIN goroutines, NEW at, Passes(goroutines[g], at), at # "wait",
         Loader!Become(g, Loader!Moved(g, at)),
         Loader!IsSequence(stacks'), Len(stacks') = Len(stacks),
         UNCHANGED <<project, cache, inflight, loads, crashed>>
  PROVE  LoaderOK'
<1>1. PICK r : r = goroutines[g]
  OBVIOUS
<1>2. Loader!GoroutineOK(r, Len(loads), Len(stacks))
  BY <1>1, LoaderOf
<1>3. r.answer \in Loader!Answers
  BY <1>2 DEF Loader!GoroutineOK
<1>4. [r EXCEPT !.at = at] = [r EXCEPT !.at = at, !.answer = r.answer, !.load = r.load]
  BY <1>2 DEF Loader!GoroutineOK
<1>5. goroutines' = [goroutines EXCEPT ![g] = [goroutines[g] EXCEPT !.at = at, !.answer = r.answer, !.load = r.load]]
  BY <1>1, <1>4 DEF Loader!Become, Loader!Moved
<1>6. at = "wait" => r.load \in 1 .. Len(loads)
  OBVIOUS
<1> QED BY <1>3, <1>5, <1>6, LoaderPassed

LEMMA LoaderStep ==
  ASSUME LoaderOK, Loader!Next
  PROVE  LoaderOK'
<1>1. /\ Loader!TypeOK /\ Loader!LoaderInv /\ Len(loads) \in Nat /\ Len(stacks) \in Nat
      /\ DOMAIN loads = 1 .. Len(loads) /\ Loader!IsSequence(stacks)
      /\ loads \in Seq([done : BOOLEAN, answer : Loader!Answers])
  BY LoaderShape DEF LoaderOK, Loader!TypeOK
<1>2. CASE Loader!ConcurrentMapAccess
  <2>1. crashed' = TRUE /\ UNCHANGED <<project, cache, inflight, loads, stacks, goroutines>>
    BY <1>2 DEF Loader!ConcurrentMapAccess
  <2>2. Loader!TypeOK'
    BY <1>1, <2>1 DEF Loader!TypeOK
  <2>3. Loader!LoaderInv'
    BY <1>1, <2>1 DEF Loader!LoaderInv, Loader!OneBody, Loader!Claimed, Loader!Unstored, Loader!Claims, Loader!Evaluates, Loader!Calls
  <2> QED BY <2>2, <2>3 DEF LoaderOK
<1>3. ASSUME NEW g \in DOMAIN goroutines,
             \/ Loader!ImportName(g) \/ Loader!ImportDynamic(g) \/ Loader!RunImport(g) \/ Loader!Await(g)
             \/ Loader!Throws(g) \/ Loader!RunEnds(g)
             \/ Loader!CheckStack(g) \/ Loader!LookUp(g) \/ Loader!Claim(g) \/ Loader!Wait(g)
             \/ Loader!Enter(g) \/ Loader!Store(g) \/ Loader!Forget(g) \/ Loader!Release(g) \/ Loader!Close(g)
      PROVE  LoaderOK'
  <2>1. PICK r, c : r = goroutines[g] /\ c = Loader!Top(r)
    OBVIOUS
  <2>2. Loader!GoroutineOK(r, Len(loads), Len(stacks))
    BY <2>1, LoaderOf
  <2>3. r.at \in Loader!Loading => Loader!CallOK(c, Len(loads), Len(stacks))
    <3> SUFFICES ASSUME r.at \in Loader!Loading PROVE Loader!CallOK(c, Len(loads), Len(stacks))
      OBVIOUS
    <3>1. Loader!IsSequence(r.calls) /\ r.calls # <<>>
      BY <2>2 DEF Loader!GoroutineOK
    <3>2. Len(r.calls) \in DOMAIN r.calls
      BY <3>1, SequenceShortened
    <3>3. c = r.calls[Len(r.calls)]
      BY <2>1 DEF Loader!Top, Loader!Last
    <3> QED BY <2>2, <3>2, <3>3 DEF Loader!GoroutineOK
  <2>4. CASE Loader!ImportName(g)
    <3>1. r.at = "body" /\ Loader!Resolve(g, Loader!Requested(r))
      BY <2>1, <2>4 DEF Loader!ImportName, Loader!Executes, Loader!At
    <3>2. Loader!HasMap(Loader!Requested(r), Len(stacks))
      BY <2>1, <2>3, <3>1 DEF Loader!Requested, Loader!Request, Loader!HasMap, Loader!CallOK, Loader!Loading
    <3> QED BY <2>1, <3>1, <3>2, LoaderResolves
  <2>5. CASE Loader!ImportDynamic(g)
    BY <2>5, LoaderSpawns
  <2>6. CASE Loader!RunImport(g)
    <3>1. r.at = "start" /\ Loader!Resolve(g, r.import) /\ Loader!HasMap(r.import, Len(stacks))
      BY <2>1, <2>2, <2>6 DEF Loader!RunImport, Loader!At, Loader!GoroutineOK
    <3> QED BY <2>1, <3>1, LoaderResolves
  <2>7. CASE Loader!Await(g)
    <3>1. PICK h : h = c.promise
      OBVIOUS
    <3>2. /\ r.at = "body" /\ h \in DOMAIN goroutines
          /\ Loader!Become(g, Loader!Returned(r, goroutines[h].answer))
          /\ UNCHANGED <<project, cache, inflight, loads, stacks, crashed>>
      BY <2>1, <2>7, <3>1 DEF Loader!Await, Loader!Executes, Loader!At
    <3>3. goroutines[h].answer \in Loader!Answers
      BY <3>2, LoaderOf DEF Loader!GoroutineOK
    <3> QED BY <2>1, <3>2, <3>3, LoaderReturned
  <2>8. CASE Loader!Throws(g)
    <3>1. /\ r.at = "body" /\ Loader!Become(g, Loader!Failing(r, "failed"))
          /\ UNCHANGED <<project, cache, inflight, loads, stacks, crashed>>
      BY <2>1, <2>8 DEF Loader!Throws, Loader!Executes, Loader!At
    <3>2. "failed" \in Loader!Answers
      BY DEF Loader!Answers
    <3> QED BY <1>1, <2>1, <3>1, <3>2, LoaderFailed
  <2>9. CASE Loader!RunEnds(g)
    <3>1. r.at = "body" /\ UNCHANGED <<project, cache, inflight, loads, stacks, crashed>>
      BY <2>1, <2>9 DEF Loader!RunEnds, Loader!At
    <3>2. CASE c.load = 0
      <4>1. Loader!Become(g, [r EXCEPT !.at = "ended", !.answer = "exports"])
        BY <2>1, <2>9, <3>2 DEF Loader!RunEnds
      <4>2. [r EXCEPT !.at = "ended", !.answer = "exports"] = [r EXCEPT !.at = "ended", !.answer = "exports", !.load = r.load]
        BY <2>2 DEF Loader!GoroutineOK
      <4>3. goroutines' = [goroutines EXCEPT ![g] = [goroutines[g] EXCEPT !.at = "ended", !.answer = "exports", !.load = r.load]]
        BY <2>1, <4>1, <4>2 DEF Loader!Become
      <4>4. Passes(goroutines[g], "ended") /\ "exports" \in Loader!Answers /\ ("ended" = "wait" => r.load \in 1 .. Len(loads))
        BY <2>1, <3>1 DEF Passes, Loader!Answers
      <4> QED BY <1>1, <3>1, <4>3, <4>4, LoaderPassed
    <3>3. CASE c.load # 0
      <4>1. Loader!Become(g, Loader!Moved(g, "store")) /\ Passes(goroutines[g], "store") /\ "store" # "wait"
        BY <2>1, <2>9, <3>1, <3>3 DEF Loader!RunEnds, Passes
      <4> QED BY <1>1, <3>1, <4>1, LoaderArrives
    <3> QED BY <3>2, <3>3
  <2>10. CASE Loader!CheckStack(g)
    <3>1. r.at = "check" /\ UNCHANGED <<project, cache, inflight, loads, stacks, crashed>>
      BY <2>1, <2>10 DEF Loader!CheckStack, Loader!At
    <3>2. \/ \E answer \in Loader!Answers : Loader!Become(g, Loader!Returned(r, answer))
          \/ Loader!Become(g, Loader!Moved(g, "lookup"))
      BY <2>1, <2>10 DEF Loader!CheckStack, Loader!Answers
    <3>3. Passes(goroutines[g], "lookup") /\ "lookup" # "wait"
      BY <2>1, <3>1 DEF Passes, Loader!Resolving
    <3> QED BY <1>1, <2>1, <3>1, <3>2, <3>3, LoaderReturned, LoaderArrives
  <2>11. CASE Loader!LookUp(g)
    <3>1. r.at = "lookup" /\ UNCHANGED <<project, cache, inflight, loads, stacks, crashed>>
      BY <2>1, <2>11 DEF Loader!LookUp, Loader!At
    <3>2. \/ \E answer \in Loader!Answers : Loader!Become(g, Loader!Returned(r, answer))
          \/ Loader!Become(g, Loader!Moved(g, "claim"))
      BY <2>1, <2>11 DEF Loader!LookUp, Loader!Answers
    <3>3. Passes(goroutines[g], "claim") /\ "claim" # "wait"
      BY <2>1, <3>1 DEF Passes, Loader!Resolving
    <3> QED BY <1>1, <2>1, <3>1, <3>2, <3>3, LoaderReturned, LoaderArrives
  <2>12. CASE Loader!Claim(g)
    <3>1. r.at = "claim" /\ UNCHANGED <<project, cache, stacks, crashed>>
      BY <2>1, <2>12 DEF Loader!Claim, Loader!At
    <3>2. CASE r.target \in DOMAIN cache
      <4>1. Loader!Become(g, Loader!Returned(r, "exports")) /\ UNCHANGED <<inflight, loads>> /\ "exports" \in Loader!Answers
        BY <2>1, <2>12, <3>2 DEF Loader!Claim, Loader!Answers
      <4> QED BY <2>1, <3>1, <4>1, LoaderReturned
    <3>3. CASE r.target \notin DOMAIN cache /\ r.target \in DOMAIN inflight
      <4>1. Loader!Join(g) /\ UNCHANGED <<inflight, loads>>
        BY <2>1, <2>12, <3>3 DEF Loader!Claim
      <4>2. PICK l : l = inflight[r.target]
        OBVIOUS
      <4>3. l \in 1 .. Len(loads)
        BY <1>1, <3>3, <4>2 DEF Loader!TypeOK
      <4>4. [[r EXCEPT !.at = "wait"] EXCEPT !.load = l] = [r EXCEPT !.at = "wait", !.answer = r.answer, !.load = l]
        BY <2>2 DEF Loader!GoroutineOK
      <4>5. goroutines' = [goroutines EXCEPT ![g] = [goroutines[g] EXCEPT !.at = "wait", !.answer = r.answer, !.load = l]]
        BY <2>1, <4>1, <4>2, <4>4 DEF Loader!Join, Loader!Become, Loader!Moved
      <4>6. Passes(goroutines[g], "wait") /\ r.answer \in Loader!Answers
        BY <2>1, <2>2, <3>1 DEF Passes, Loader!Resolving, Loader!GoroutineOK
      <4> QED BY <1>1, <3>1, <4>1, <4>3, <4>5, <4>6, LoaderPassed
    <3>4. CASE r.target \notin DOMAIN cache /\ r.target \notin DOMAIN inflight
      <4>1. Loader!Register(g)
        BY <2>1, <2>12, <3>4 DEF Loader!Claim
      <4> QED BY <2>1, <3>1, <3>4, <4>1, LoaderRegisters
    <3> QED BY <3>2, <3>3, <3>4
  <2>13. CASE Loader!Wait(g)
    <3>1. PICK l : l = loads[r.load]
      OBVIOUS
    <3>2. /\ r.at = "wait" /\ Loader!Become(g, Loader!Returned(r, l.answer))
          /\ UNCHANGED <<project, cache, inflight, loads, stacks, crashed>>
      BY <2>1, <2>13, <3>1 DEF Loader!Wait, Loader!At
    <3>3. r.load \in DOMAIN loads
      BY <1>1, <2>2, <3>2 DEF Loader!GoroutineOK
    <3>4. l \in [done : BOOLEAN, answer : Loader!Answers]
      BY <1>1, <3>1, <3>3, ElementOfSeq
    <3>5. l.answer \in Loader!Answers
      BY <3>4
    <3> QED BY <2>1, <3>2, <3>5, LoaderReturned
  <2>14. CASE Loader!Enter(g)
    <3>1. /\ r.at = "enter" /\ stacks' = [stacks EXCEPT ![c.stack] = @ \cup {c.file}]
          /\ UNCHANGED <<project, cache, inflight, loads, crashed>>
      BY <2>1, <2>14 DEF Loader!Enter, Loader!At
    <3>2. c.stack \in DOMAIN stacks
      BY <1>1, <2>1, <2>2, <2>3, <3>1, LoaderShape DEF Loader!GoroutineOK, Loader!CallOK, Loader!HasMap, Loader!Loading
    <3>3. Loader!IsSequence(stacks') /\ Len(stacks') = Len(stacks)
      <4>1. Replaces(stacks, c.stack, stacks[c.stack] \cup {c.file}, stacks')
        BY <1>1, <3>1, <3>2 DEF Replaces
      <4> QED BY <4>1, SequenceReplaced
    <3>4. \/ Loader!Become(g, Loader!Moved(g, "body"))
          \/ Loader!Become(g, Loader!Failing(r, "failed"))
      BY <2>1, <2>14 DEF Loader!Enter
    <3>5. "failed" \in Loader!Answers /\ Passes(goroutines[g], "body") /\ "body" # "wait"
      BY <2>1, <3>1 DEF Passes, Loader!Answers
    <3>6. CASE Loader!Become(g, Loader!Moved(g, "body"))
      BY <3>1, <3>3, <3>5, <3>6, LoaderArrives
    <3>7. CASE Loader!Become(g, Loader!Failing(r, "failed"))
      BY <2>1, <3>1, <3>3, <3>5, <3>7, LoaderFailed
    <3> QED BY <3>4, <3>6, <3>7
  <2>15. CASE Loader!Store(g)
    BY <2>15, LoaderStores
  <2>16. CASE Loader!Forget(g)
    <3>1. /\ r.at = "forget" /\ stacks' = [stacks EXCEPT ![c.stack] = @ \ {c.file}]
          /\ UNCHANGED <<project, cache, inflight, loads, crashed>>
          /\ Loader!Become(g, Loader!Moved(g, "release"))
      BY <2>1, <2>16 DEF Loader!Forget, Loader!At
    <3>2. c.stack \in DOMAIN stacks
      BY <1>1, <2>1, <2>2, <2>3, <3>1, LoaderShape DEF Loader!GoroutineOK, Loader!CallOK, Loader!HasMap, Loader!Loading
    <3>3. Loader!IsSequence(stacks') /\ Len(stacks') = Len(stacks)
      <4>1. Replaces(stacks, c.stack, stacks[c.stack] \ {c.file}, stacks')
        BY <1>1, <3>1, <3>2 DEF Replaces
      <4> QED BY <4>1, SequenceReplaced
    <3>4. Passes(goroutines[g], "release") /\ "release" # "wait"
      BY <2>1, <3>1 DEF Passes
    <3> QED BY <3>1, <3>3, <3>4, LoaderArrives
  <2>17. CASE Loader!Release(g)
    BY <2>17, LoaderReleases
  <2>18. CASE Loader!Close(g)
    BY <2>18, LoaderCloses
  <2> QED BY <1>3, <2>4, <2>5, <2>6, <2>7, <2>8, <2>9, <2>10, <2>11, <2>12, <2>13, <2>14, <2>15, <2>16, <2>17, <2>18
<1> QED BY <1>2, <1>3 DEF Loader!Next, Loader!Run

LEMMA LoaderSteps ==
  ASSUME LoaderOK, [Loader!Next]_(Loader!vars)
  PROVE  LoaderOK'
<1>1. CASE Loader!Next
  BY <1>1, LoaderStep
<1>2. CASE UNCHANGED Loader!vars
  <2>1. UNCHANGED <<project, cache, inflight, loads, stacks, goroutines, crashed>>
    BY <1>2 DEF Loader!vars
  <2>2. Loader!TypeOK'
    BY <2>1 DEF LoaderOK, Loader!TypeOK
  <2>3. Loader!LoaderInv'
    BY <2>1 DEF LoaderOK, Loader!LoaderInv, Loader!OneBody, Loader!Claimed, Loader!Unstored,
                Loader!Claims, Loader!Evaluates, Loader!Calls
  <2> QED BY <2>2, <2>3 DEF LoaderOK
<1> QED BY <1>1, <1>2

LEMMA OneRunOfEach == LoaderOK => LoadedOnce
<1> SUFFICES ASSUME LoaderOK, NEW f \in DOMAIN inflight \cup DOMAIN cache
             PROVE  Loader!Cardinality(Loader!Evaluations(f)) <= (IF f \in DOMAIN cache THEN 0 ELSE 1)
  BY DEF LoadedOnce, Loader!LoadedOnce
<1> DEFINE E == Loader!Evaluations(f)
<1>1. \A S : Loader!Cardinality(S) = Cardinality(S)
  BY DEF Loader!Cardinality, Cardinality, Loader!IsFiniteSet, IsFiniteSet
<1>2. \A x \in E : \E g \in DOMAIN goroutines : \E i \in DOMAIN Loader!Calls(g) :
        x = <<g, i>> /\ Loader!Evaluates(g, i) /\ Loader!Calls(g)[i].file = f
  BY DEF Loader!Evaluations
<1>3. \A x, y \in E : x = y
  <2> SUFFICES ASSUME NEW x \in E, NEW y \in E PROVE x = y
    OBVIOUS
  <2> HIDE DEF E
  <2>1. PICK g \in DOMAIN goroutines : \E i \in DOMAIN Loader!Calls(g) :
          x = <<g, i>> /\ Loader!Evaluates(g, i) /\ Loader!Calls(g)[i].file = f
    BY <1>2
  <2>2. PICK i \in DOMAIN Loader!Calls(g) :
          x = <<g, i>> /\ Loader!Evaluates(g, i) /\ Loader!Calls(g)[i].file = f
    BY <2>1
  <2>3. PICK h \in DOMAIN goroutines : \E j \in DOMAIN Loader!Calls(h) :
          y = <<h, j>> /\ Loader!Evaluates(h, j) /\ Loader!Calls(h)[j].file = f
    BY <1>2
  <2>4. PICK j \in DOMAIN Loader!Calls(h) :
          y = <<h, j>> /\ Loader!Evaluates(h, j) /\ Loader!Calls(h)[j].file = f
    BY <2>3
  <2>5. Loader!LoaderInv /\ Loader!Claims(g, i) /\ Loader!Claims(h, j)
    BY <2>2, <2>4, EvaluatesClaims DEF LoaderOK
  <2>6. g = h /\ i = j
    BY <2>2, <2>4, <2>5, ClaimsApart
  <2> QED BY <2>2, <2>4, <2>6
<1>4. f \in DOMAIN cache => E = {}
  <2> HIDE DEF E
  <2> QED BY <1>2 DEF LoaderOK, Loader!LoaderInv, Loader!Unstored
<1> HIDE DEF E
<1>5. CASE E = {}
  BY <1>1, <1>5, FS_EmptySet DEF E
<1>6. CASE E # {}
  <2>1. PICK x : E = {x}
    BY <1>3, <1>6
  <2>2. Cardinality(E) = 1
    BY <2>1, FS_Singleton
  <2> QED BY <1>1, <1>4, <1>6, <2>2 DEF E
<1> QED BY <1>5, <1>6

(* A module is run by one importer at a time, and by none once its exports *)
(* are in the cache, for any projects, cyclic or failing, however many     *)
(* goroutines import and in whatever order they get the lock.              *)
THEOREM ModulesLoadOnce == Loader!Spec => []LoadedOnce
<1>1. Loader!Init => LoaderOK
  BY LoaderStarts
<1>2. LoaderOK /\ [Loader!Next]_(Loader!vars) => LoaderOK'
  BY LoaderSteps
<1>3. LoaderOK => LoadedOnce
  BY OneRunOfEach
<1> QED BY <1>1, <1>2, <1>3, PTL DEF Loader!Spec

-----------------------------------------------------------------------------
(* The run puts these parts side by side: a step of the suite is a step of *)
(* one of them and leaves the variables of the others alone, so that what  *)
(* is proved of each under its own specification is true of the suite.     *)

RuntimeInv ==
  /\ TypeInv
  /\ Async!TypeOK /\ Async!AsyncInv
  /\ Combinators!TypeOK /\ Combinators!CombineInv
  /\ Timers!TypeOK /\ Timers!TimerInv
  /\ LoaderOK
  /\ Arrays!Roomy /\ Arrays!FirstShortest
  /\ Machine!TypeOK /\ Machine!RunInv

RuntimeNext ==
  Steps(Async!Next, Combinators!Next, Timers!Next, Loader!Next, Arrays!Next, Machine!Next, Next)

LEMMA RuntimeMoves ==
  [RuntimeNext]_suiteVars =>
    /\ [Next]_vars /\ [Async!Next]_(Async!vars) /\ [Combinators!Next]_(Combinators!vars)
    /\ [Timers!Next]_(Timers!vars) /\ [Loader!Next]_(Loader!vars) /\ [Arrays!Next]_(Arrays!vars)
    /\ [Machine!Next]_(Machine!vars)
<1>0. /\ UNCHANGED asyncVars => UNCHANGED Async!vars
      /\ UNCHANGED promiseVars => UNCHANGED Combinators!vars
      /\ UNCHANGED timerVars => UNCHANGED Timers!vars
      /\ UNCHANGED loaderVars => UNCHANGED Loader!vars
      /\ UNCHANGED arrayVars => UNCHANGED Arrays!vars
      /\ UNCHANGED machineVars => UNCHANGED Machine!vars
  BY DEF arrayVars, Arrays!vars, asyncVars, promiseVars, timerVars, loaderVars, Loader!vars, machineVars, Async!vars, Async!managerVars, Async!awaitVars,
         Combinators!vars, Timers!vars, Timers!timerVars, Machine!vars, Machine!fixed
<1> SUFFICES ASSUME [RuntimeNext]_suiteVars
             PROVE  /\ Next \/ UNCHANGED vars
                    /\ Async!Next \/ UNCHANGED asyncVars
                    /\ Combinators!Next \/ UNCHANGED promiseVars
                    /\ Timers!Next \/ UNCHANGED timerVars
                    /\ Loader!Next \/ UNCHANGED loaderVars
                    /\ Arrays!Next \/ UNCHANGED arrayVars
                    /\ Machine!Next \/ UNCHANGED machineVars
  BY <1>0, Zenon
<1>1. CASE RuntimeNext
  BY <1>1, Zenon DEF RuntimeNext, Steps
<1>2. CASE UNCHANGED suiteVars
  BY <1>2 DEF suiteVars
<1>3. QED
  BY <1>1, <1>2

LEMMA RuntimeStarts == SuiteInit => RuntimeInv
<1> SUFFICES ASSUME SuiteInit PROVE RuntimeInv
  OBVIOUS
<1>1. Init /\ Async!Init /\ Combinators!Init /\ Timers!Init /\ Loader!Init /\ Machine!Init
  BY DEF SuiteInit
<1>2. Arrays!Init \/ (buffers = <<>> /\ arrays = <<>>)
  BY DEF SuiteInit
<1>3. Arrays!Roomy /\ Arrays!FirstShortest
  BY <1>2, Arrays!InitRoomy, Arrays!NoneRoomy, ArraysAssumption
<1>4. QED
  BY <1>1, <1>3, InitTypeInv, AsyncInit, CombinatorsInit, TimersInit, LoaderStarts, RunStarts DEF RuntimeInv

LEMMA RuntimeSteps ==
  RuntimeInv /\ [RuntimeNext]_suiteVars => RuntimeInv' /\ [Arrays!Kept]_(Arrays!vars)
<1> SUFFICES ASSUME RuntimeInv, [RuntimeNext]_suiteVars
             PROVE  RuntimeInv' /\ [Arrays!Kept]_(Arrays!vars)
  OBVIOUS
<1>1. /\ [Next]_vars /\ [Async!Next]_(Async!vars) /\ [Combinators!Next]_(Combinators!vars)
      /\ [Timers!Next]_(Timers!vars) /\ [Loader!Next]_(Loader!vars) /\ [Arrays!Next]_(Arrays!vars)
      /\ [Machine!Next]_(Machine!vars)
  BY RuntimeMoves
<1>2. TypeInv'
  BY <1>1, NextTypeInv DEF RuntimeInv
<1>3. Async!TypeOK' /\ Async!AsyncInv'
  BY <1>1, AsyncTyped, AsyncStep DEF RuntimeInv
<1>4. Combinators!TypeOK' /\ Combinators!CombineInv'
  BY <1>1, CombinatorsTyped, CombinatorsStep DEF RuntimeInv
<1>5. Timers!TypeOK' /\ Timers!TimerInv'
  BY <1>1, TimersStep DEF RuntimeInv
<1>6. Machine!TypeOK' /\ Machine!RunInv'
  BY <1>1, RunStep DEF RuntimeInv
<1>7. LoaderOK'
  BY <1>1, LoaderSteps DEF RuntimeInv
<1>8. Arrays!Roomy' /\ Arrays!FirstShortest' /\ [Arrays!Kept]_(Arrays!vars)
  BY <1>1, Arrays!StepKeeps, ArraysAssumption DEF RuntimeInv
<1>9. QED
  BY <1>2, <1>3, <1>4, <1>5, <1>6, <1>7, <1>8 DEF RuntimeInv

LEMMA RuntimeHolds == SuiteSpec => []RuntimeInv
BY RuntimeStarts, RuntimeSteps, PTL DEF SuiteSpec, RuntimeNext

(* In the specification of the run all parts keep their declared types:    *)
(* counts of runs, awaits, ticks and retries stay in their bounds, and     *)
(* what a table, a promise or a stack refers to exists.                    *)
THEOREM RuntimeTyped == SuiteSpec => []SuiteTypeOK
<1>1. RuntimeInv => SuiteTypeOK
  BY DEF RuntimeInv, SuiteTypeOK, TypeInv, LoaderOK
<1>2. QED
  BY <1>1, RuntimeHolds, PTL

(* And they keep what they promise: every invariant of the run but         *)
(* AnswersFit holds of every behaviour of the suite, and so do its action  *)
(* properties.                                                             *)
THEOREM RuntimeKept ==
  SuiteSpec =>
    /\ [](Answered /\ CombinatorsFaithful /\ ClearedNeverRuns /\ LoadedOnce /\ Coherent /\ Accounted)
    /\ SuspensionKept /\ HandleFixed
<1>1. SuiteInit => RuntimeInv /\ Accounted /\ Machine!CoherentInv
  BY RuntimeStarts, InitAccounted, CoherentStarts DEF SuiteInit
<1>2. RuntimeInv /\ Accounted /\ Machine!CoherentInv /\ [RuntimeNext]_suiteVars =>
        RuntimeInv' /\ Accounted' /\ Machine!CoherentInv'
  BY RuntimeSteps, RuntimeMoves, NextAccounted, CoherentStep DEF RuntimeInv
<1>3. RuntimeInv => Answered /\ CombinatorsFaithful /\ ClearedNeverRuns /\ LoadedOnce
  BY CombinatorsReport, AnswersEarned, ClearedSilent, OneRunOfEach DEF RuntimeInv
<1>4. RuntimeInv /\ [RuntimeNext]_suiteVars =>
        [suspension # 0 /\ suspension' # suspension =>
           suspension' = 0 /\ (call = "resume" \/ promises'[suspension].status # "pending")]_(Machine!vars)
  BY RuntimeMoves, GivenUp DEF RuntimeInv
<1>5. RuntimeInv /\ [RuntimeNext]_suiteVars => [\A id \in Ids : table'[id] \in {table[id], 0}]_vars
  BY RuntimeMoves, TableSteps DEF RuntimeInv
<1>6. QED
  BY <1>1, <1>2, <1>3, <1>4, <1>5, CoherentHolds, PTL
  DEF SuiteSpec, RuntimeNext, SuspensionKept, Machine!SuspensionKept, HandleFixed

(* No call of a method or of a function of the modules array and sort      *)
(* changes an array the script has (array_proto.go, array.go, sort.go),    *)
(* whatever arrays there are and whatever it is called with.  Only an      *)
(* array that push made is overwritten, by a second push onto what the     *)
(* first one was pushed onto.                                              *)
THEOREM CallsKeepArrays == SuiteSpec => ArraysKept
BY RuntimeStarts, RuntimeSteps, PTL DEF SuiteSpec, RuntimeNext, ArraysKept, Arrays!ArraysKept
=============================================================================
