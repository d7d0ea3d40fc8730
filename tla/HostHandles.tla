---------------------------- MODULE HostHandles ----------------------------
(***************************************************************************)
(* The capabilities and handles of the default host                        *)
(* (iacommon/pkg/host/api/default_host.go), which several machines may     *)
(* share.  h.mu guards the tables only: a call looks an entry up, or takes *)
(* it out, and then works on the provider's object without the lock; an    *)
(* object is opened first and stored afterwards.                           *)
(***************************************************************************)
EXTENDS Naturals, Sequences

CONSTANTS
  Clients,      (* machines, or other goroutines of the embedding program    *)
  MaxCalls,     (* bound: calls of a client                                  *)
  MaxCaps       (* bound: capabilities acquired                              *)

VARIABLES
  capabilities, (* of each capability: its kind, or released                 *)
  lastCap,      (* lastCapabilityID of a client, 0 for none                  *)
  table,        (* of each handle id: the object it stands for, 0 when gone  *)
  objects,      (* the files, sockets and listeners that were opened         *)
  pc, object,   (* where a client is, and the object it works on             *)
  calls         (* calls of a client so far                                  *)

vars == <<capabilities, lastCap, table, objects, pc, object, calls>>

Kinds == {"file", "socket", "listener"}
Group(kind) == IF kind = "file" THEN "fs" ELSE "network"
Opening == [file |-> "openFile", socket |-> "openSocket", listener |-> "openListener"]
Location == {Opening[kind] : kind \in Kinds} \cup {"idle", "accepting", "opened", "using", "closing"}

(* "abandoned": its handle is gone and its close has failed. *)
TypeOK ==
  /\ capabilities \in Seq({"fs", "network", "released"})
  /\ lastCap \in [Clients -> Nat] /\ \A c \in Clients : lastCap[c] <= Len(capabilities)
  /\ objects \in Seq([kind : Kinds, state : {"open", "closed", "abandoned"}])
  /\ table \in Seq(0 .. Len(objects))
  /\ pc \in [Clients -> Location]
  /\ object \in [Clients -> 0 .. Len(objects)]
  /\ calls \in [Clients -> Nat]

Init ==
  /\ capabilities = <<>>
  /\ lastCap = [c \in Clients |-> 0]
  /\ table = <<>> /\ objects = <<>>
  /\ pc = [c \in Clients |-> "idle"]
  /\ object = [c \in Clients |-> 0]
  /\ calls = [c \in Clients |-> 0]

-----------------------------------------------------------------------------
(* Capabilities. *)

AcquireCapability(c, group) ==
  /\ pc[c] = "idle" /\ Len(capabilities) < MaxCaps
  /\ capabilities' = Append(capabilities, group)
  /\ lastCap' = [lastCap EXCEPT ![c] = Len(capabilities) + 1]
  /\ UNCHANGED <<table, objects, pc, object, calls>>

ReleaseCapability(cap) ==
  /\ capabilities[cap] # "released"
  /\ capabilities' = [capabilities EXCEPT ![cap] = "released"]
  /\ UNCHANGED <<lastCap, table, objects, pc, object, calls>>

(* lookupCapability.  A call that fails changes nothing. *)
Granted(c, group) ==
  /\ pc[c] = "idle" /\ calls[c] < MaxCalls
  /\ lastCap[c] # 0 /\ capabilities[lastCap[c]] = group

-----------------------------------------------------------------------------
(* Calls.  To look an id up for an operation is to find it in the table of *)
(* that operation's kind. *)

Ids == DOMAIN table
Found(id, kinds) == table[id] # 0 /\ objects[table[id]].kind \in kinds

Goto(c, place, o) ==
  /\ pc' = [pc EXCEPT ![c] = place]
  /\ object' = [object EXCEPT ![c] = o]
Count(c) == calls' = [calls EXCEPT ![c] = @ + 1]

CallOpens(c, kind) ==
  /\ Granted(c, Group(kind)) /\ Count(c)
  /\ Goto(c, Opening[kind], 0)
  /\ UNCHANGED <<capabilities, lastCap, table, objects>>

CallAccepts(c, id) ==
  /\ Granted(c, "network") /\ Count(c)
  /\ Found(id, {"listener"})
  /\ Goto(c, "accepting", table[id])
  /\ UNCHANGED <<capabilities, lastCap, table, objects>>

(* Read, write, seek, send and receive. *)
CallUses(c, id, kind) ==
  /\ Granted(c, Group(kind)) /\ Count(c)
  /\ kind \in {"file", "socket"} /\ Found(id, {kind})
  /\ Goto(c, "using", table[id])
  /\ UNCHANGED <<capabilities, lastCap, table, objects>>

(* network.close looks among the sockets, then among the listeners. *)
CallClosesKeepingEntry(c, id, group) ==
  /\ Granted(c, group) /\ Count(c)
  /\ Found(id, {k \in Kinds : Group(k) = group})
  /\ Goto(c, "closing", table[id])
  /\ UNCHANGED <<capabilities, lastCap, table, objects>>

CallCloses(c, id, group) ==
  /\ Granted(c, group) /\ Count(c)
  /\ Found(id, {k \in Kinds : Group(k) = group})
  /\ Goto(c, "closing", table[id])
  /\ table' = [table EXCEPT ![id] = 0]
  /\ UNCHANGED <<capabilities, lastCap, objects>>

-----------------------------------------------------------------------------
(* The provider. *)

(* A listener that was closed meanwhile accepts nothing. *)
ProviderOpens(c) ==
  /\ \E kind \in Kinds :
       /\ \/ pc[c] = Opening[kind]
          \/ pc[c] = "accepting" /\ kind = "socket" /\ objects[object[c]].state = "open"
       /\ objects' = Append(objects, [kind |-> kind, state |-> "open"])
  /\ Goto(c, "opened", Len(objects) + 1)
  /\ UNCHANGED <<capabilities, lastCap, table, calls>>

(* An operation is over, with a result or an error; nothing was opened. *)
ProviderReturns(c) ==
  /\ pc[c] \in Location \ {"idle", "opened", "closing"}
  /\ Goto(c, "idle", 0)
  /\ UNCHANGED <<capabilities, lastCap, table, objects, calls>>

FreeId == CHOOSE id \in 1 .. Len(table) + 1 : id \in Ids => table[id] = 0

StoreHandleInFreeId(c) ==
  /\ pc[c] = "opened"
  /\ table' = IF FreeId \in Ids THEN [table EXCEPT ![FreeId] = object[c]] ELSE Append(table, object[c])
  /\ Goto(c, "idle", 0)
  /\ UNCHANGED <<capabilities, lastCap, objects, calls>>

(* nextHandleID, which all three tables share, is never used again. *)
StoreHandle(c) ==
  /\ pc[c] = "opened"
  /\ table' = Append(table, object[c])
  /\ Goto(c, "idle", 0)
  /\ UNCHANGED <<capabilities, lastCap, objects, calls>>

(* Close tests its context, and the system's close may fail. *)
CloseReturns(c) ==
  /\ pc[c] = "closing"
  /\ \E s \in {"closed", "abandoned"} : objects' = [objects EXCEPT ![object[c]] = [kind |-> @.kind, state |-> s]]
  /\ Goto(c, "idle", 0)
  /\ UNCHANGED <<capabilities, lastCap, table, calls>>

-----------------------------------------------------------------------------
Call(c) ==
  \/ \E kind \in Kinds : CallOpens(c, kind)
  \/ \E id \in Ids : CallAccepts(c, id)
  \/ \E id \in Ids, kind \in Kinds : CallUses(c, id, kind)
  \/ \E id \in Ids, group \in {"fs", "network"} : CallCloses(c, id, group)

Provider(c) == ProviderOpens(c) \/ ProviderReturns(c) \/ StoreHandle(c) \/ CloseReturns(c)

Next ==
  \/ \E c \in Clients : Call(c) \/ Provider(c)
  \/ \E c \in Clients, group \in {"fs", "network"} : AcquireCapability(c, group)
  \/ \E cap \in DOMAIN capabilities : ReleaseCapability(cap)

Spec == Init /\ [][Next]_vars

-----------------------------------------------------------------------------
(* Properties. *)

Holding(c, o) == pc[c] \in {"opened", "closing"} /\ object[c] = o
Stored(o) == \E id \in Ids : table[id] = o
Held(o) == \E c \in Clients : Holding(c, o)

(* Whatever the clients do at once, an open object is either in the table  *)
(* under one id or in the hands of the one call that stores or closes it,  *)
(* and one that was closed or abandoned is in neither: nothing is lost,    *)
(* closed twice, or found after its close.                                 *)
Accounted ==
  \A o \in DOMAIN objects :
    /\ objects[o].state = "open" <=> Stored(o) \/ Held(o)
    /\ ~(Stored(o) /\ Held(o))
    /\ \A i, j \in Ids : table[i] = o /\ table[j] = o => i = j
    /\ \A c, d \in Clients : Holding(c, o) /\ Holding(d, o) => c = d

(* A handle means one object for ever: an id that a client kept never      *)
(* comes to name something that was opened later.                          *)
HandleFixed ==
  [][\A id \in Ids : table'[id] \in {table[id], 0}]_vars
=============================================================================
