------------------------- MODULE PoolManagerProofs -------------------------
(***************************************************************************)
(* Proofs about PoolManager, for any number of callers and calls in any    *)
(* order, any pool types and any options, refused ones among them.         *)
(***************************************************************************)
EXTENDS PoolManager, TLAPS

(* The steps of the manager, one disjunct each. *)
LEMMA NextCases ==
  ASSUME Next
  PROVE  \/ \E c \in Callers : \/ Initialize(c) \/ EnsureTestsInitialized(c)
                               \/ EnsureTestsShutdown(c) \/ EnsureLocked(c)
                               \/ GetPool(c) \/ PoolSubmit(c)
                               \/ TaskSucceeds(c) \/ TaskFails(c)
         \/ \E c \in Closers : Shutdown(c) \/ ShutdownReturns(c)
         \/ \E c \in Callers, ty \in Types : RegisterPool(c, ty)
         \/ \E p \in PoolIds : PoolTerminates(p)
         \/ \E c \in Closers, p \in PoolIds : PoolCloses(c, p) \/ PoolShutdownReturns(c, p)
  BY DEF Next, CallStep, CloseStep

(* Where a caller may be: what Ensure and Shutdown do, they do to callers  *)
(* that made these calls.                                                  *)
LEMMA InitRoles == Init => RolesInv
  BY DEF Init, RolesInv

(* A caller that goes somewhere leaves the others where they are. *)
LEMMA RolesFrame ==
  ASSUME TypeOK, RolesInv, NEW c \in Callers, NEW to, pc' = [pc EXCEPT ![c] = to],
         to \in {"unready", "permitted"} => Ensures(c),
         c \in Closers => to \in {"idle", "closing", "ok", "error"}
  PROVE  RolesInv'
<1>1. pc'[c] = to /\ \A d \in Callers \ {c} : pc'[d] = pc[d]
  BY DEF TypeOK
<1>2. QED
  BY <1>1 DEF RolesInv, Ensures, Closers

LEMMA ClosersCall == \A c \in Callers : c \in Closers <=> Call[c] = "shutdown"
  BY DEF Closers

LEMMA StepRoles == TypeOK /\ RolesInv /\ [Next]_vars => RolesInv'
<1> SUFFICES ASSUME TypeOK, RolesInv, [Next]_vars PROVE RolesInv'
  OBVIOUS
<1>1. ASSUME UNCHANGED pc PROVE RolesInv'
  BY <1>1 DEF RolesInv, Ensures, Closers
<1>2. ASSUME NEW c \in Callers, Ensures(c) \/ Call[c] = "initialize", NEW conf,
             InitializePools(c, conf)
      PROVE  RolesInv'
  <2>1. PICK to \in {"ready", "ok", "error"} : pc' = [pc EXCEPT ![c] = to]
    BY <1>2 DEF InitializePools, Ensured
  <2>2. c \notin Closers
    BY <1>2, ClosersCall DEF Ensures
  <2>3. QED
    BY <2>1, <2>2, RolesFrame
<1>3. ASSUME NEW c \in Callers, Initialize(c) PROVE RolesInv'
  BY <1>2, <1>3, RolesFrame, ClosersCall DEF Initialize, Goto
<1>4. ASSUME NEW c \in Callers, EnsureTestsInitialized(c) PROVE RolesInv'
  BY <1>4, RolesFrame, ClosersCall DEF EnsureTestsInitialized, Goto, Ensures, Ensured
<1>5. ASSUME NEW c \in Callers, pc[c] \in {"unready", "permitted"}
      PROVE  Ensures(c) /\ c \notin Closers
  BY <1>5, ClosersCall DEF RolesInv, Ensures
<1>6. ASSUME NEW c \in Callers, EnsureTestsShutdown(c) PROVE RolesInv'
  BY <1>5, <1>6, RolesFrame DEF EnsureTestsShutdown, Goto
<1>7. ASSUME NEW c \in Callers, EnsureLocked(c) PROVE RolesInv'
  BY <1>2, <1>5, <1>7, RolesFrame DEF EnsureLocked, Ensured
<1>8. ASSUME NEW c \in Callers, GetPool(c) PROVE RolesInv'
  BY <1>8, RolesFrame, ClosersCall DEF GetPool
<1>9. ASSUME NEW c \in Callers, pc[c] \in {"holding", "accepted"} PROVE c \notin Closers
  BY <1>9 DEF RolesInv
<1>10. ASSUME NEW c \in Callers, PoolSubmit(c) PROVE RolesInv'
  BY <1>9, <1>10, RolesFrame DEF PoolSubmit
<1>11. ASSUME NEW c \in Callers, TaskSucceeds(c) \/ TaskFails(c) PROVE RolesInv'
  BY <1>1, <1>9, <1>11, RolesFrame DEF TaskSucceeds, TaskFails, Goto
<1>12. ASSUME NEW c \in Closers, Shutdown(c) \/ ShutdownReturns(c) PROVE RolesInv'
  BY <1>12, RolesFrame DEF Shutdown, ShutdownReturns, Goto, Closers
<1>13. ASSUME NEW c \in Callers, NEW ty \in Types, RegisterPool(c, ty) PROVE RolesInv'
  BY <1>13, RolesFrame, ClosersCall DEF RegisterPool, Goto
<1>14. ASSUME NEW p \in PoolIds, PoolTerminates(p) PROVE RolesInv'
  BY <1>1, <1>14 DEF PoolTerminates
<1>15. ASSUME NEW c \in Closers, NEW p \in PoolIds, PoolCloses(c, p) \/ PoolShutdownReturns(c, p)
       PROVE  RolesInv'
  BY <1>1, <1>15 DEF PoolCloses, PoolShutdownReturns
<1>16. CASE UNCHANGED vars
  BY <1>1, <1>16 DEF vars
<1>17. QED
  BY <1>3, <1>4, <1>6, <1>7, <1>8, <1>10, <1>11, <1>12, <1>13, <1>14, <1>15, <1>16, NextCases

-----------------------------------------------------------------------------
(* Types. *)

LEMMA AppliedTyped == ASSUME NEW S PROVE Applied(S) \in [Types -> Config]
  BY DEF Applied, Config

LEMMA InitTyped == Init => TypeOK
<1> SUFFICES ASSUME Init PROVE TypeOK
  OBVIOUS
<1>1. configs \in [Types -> Config]
  BY AppliedTyped DEF Init
<1>2. /\ pools \in [Types -> Creators \cup {None}]
      /\ phase \in [PoolIds -> Phase]
      /\ pc \in [Callers -> Location]
      /\ got \in [Callers -> PoolIds \cup {None}]
  BY DEF Init, NoPools, Phase, Location
<1>3. attempts \in [Callers -> 0 .. MaxRetries]
  BY TypesAssumption DEF Init
<1>4. closing \in [Closers -> [PoolIds -> Helper]]
  BY DEF Init, Helper
<1>5. QED
  BY <1>1, <1>2, <1>3, <1>4 DEF Init, TypeOK

(* What an initialisation leaves, whatever it was given to start. *)
LEMMA InitializeTyped ==
  ASSUME TypeOK, NEW c \in Creators, NEW conf, InitializePools(c, conf)
  PROVE  /\ isInitialized' \in BOOLEAN
         /\ pools' \in [Types -> Creators \cup {None}]
         /\ phase' \in [PoolIds -> Phase]
         /\ pc' \in [Callers -> Location]
<1>1. PICK started \in SUBSET Types :
        /\ phase' = [p \in PoolIds |-> IF p[1] \in started /\ p[2] = c THEN "open" ELSE phase[p]]
        /\ pools' = [ty \in Types |-> IF ty \in started THEN c ELSE pools[ty]]
  BY DEF InitializePools
<1>2. PICK to \in {"ready", "ok", "error"} : pc' = [pc EXCEPT ![c] = to]
  BY DEF InitializePools, Ensured
<1>3. isInitialized' \in BOOLEAN
  BY DEF InitializePools
<1>4. pools' \in [Types -> Creators \cup {None}]
  BY <1>1 DEF TypeOK
<1>5. phase' \in [PoolIds -> Phase]
  BY <1>1 DEF TypeOK, Phase
<1>6. pc' \in [Callers -> Location]
  BY <1>2 DEF TypeOK, Location
<1>7. QED
  BY <1>3, <1>4, <1>5, <1>6

(* A goroutine of a closer takes a step for one pool. *)
LEMMA ClosingMoves ==
  ASSUME TypeOK, NEW c \in Closers, NEW p \in PoolIds, NEW to \in Helper,
         closing' = [closing EXCEPT ![c][p] = to]
  PROVE  /\ closing' \in [Closers -> [PoolIds -> Helper]]
         /\ closing'[c][p] = to
         /\ \A d \in Closers, q \in PoolIds : d # c \/ q # p => closing'[d][q] = closing[d][q]
<1>1. closing[c] \in [PoolIds -> Helper]
  BY DEF TypeOK
<1>2. closing' = [closing EXCEPT ![c] = [closing[c] EXCEPT ![p] = to]]
  OBVIOUS
<1>3. closing'[c] = [closing[c] EXCEPT ![p] = to] /\ \A d \in Closers : d # c => closing'[d] = closing[d]
  BY <1>2 DEF TypeOK
<1>4. closing' \in [Closers -> [PoolIds -> Helper]]
  BY <1>1, <1>2 DEF TypeOK
<1>5. QED
  BY <1>1, <1>3, <1>4

LEMMA StepTyped == TypeOK /\ RolesInv /\ [Next]_vars => TypeOK'
<1> SUFFICES ASSUME TypeOK, RolesInv, [Next]_vars PROVE TypeOK'
  OBVIOUS
<1> USE DEF registryVars, totals
<1>0. ASSUME NEW c \in Callers, Ensures(c) \/ Call[c] = "initialize" PROVE c \in Creators
  BY <1>0 DEF Creators
<1>1. ASSUME NEW c \in Callers, Initialize(c) PROVE TypeOK'
  <2>1. CASE InitializePools(c, configs)
    BY <1>0, <1>1, <2>1, InitializeTyped DEF Initialize, TypeOK
  <2>2. CASE ~InitializePools(c, configs)
    BY <1>1, <2>2 DEF Initialize, Goto, TypeOK, Location
  <2>3. QED
    BY <2>1, <2>2
<1>2. ASSUME NEW c \in Callers, EnsureTestsInitialized(c) PROVE TypeOK'
  BY <1>2 DEF EnsureTestsInitialized, Ensured, Goto, TypeOK, Location
<1>3. ASSUME NEW c \in Callers, EnsureTestsShutdown(c) PROVE TypeOK'
  BY <1>3 DEF EnsureTestsShutdown, Goto, TypeOK, Location
<1>4. ASSUME NEW c \in Callers, EnsureLocked(c) PROVE TypeOK'
  <2>1. Ensures(c)
    BY <1>4 DEF EnsureLocked, RolesInv
  <2>2. CASE isInitialized
    BY <1>4, <2>2 DEF EnsureLocked, Ensured, TypeOK, Location
  <2>3. CASE ~isInitialized
    <3>1. configs' \in {Applied(Options), Applied({DefaultPool}), configs}
      BY <1>4, <2>3 DEF EnsureLocked
    <3>2. configs' \in [Types -> Config]
      BY <3>1, AppliedTyped DEF TypeOK
    <3>3. InitializePools(c, configs')
      BY <1>4, <2>3 DEF EnsureLocked
    <3>4. PICK conf : InitializePools(c, conf)
      BY <3>3
    <3>5. QED
      BY <1>0, <1>4, <2>1, <3>2, <3>4, InitializeTyped DEF EnsureLocked, TypeOK
  <2>4. QED
    BY <2>2, <2>3
<1>5. ASSUME NEW c \in Callers, GetPool(c) PROVE TypeOK'
  <2>1. PoolTypeOf(c) \in Types
    BY TypesAssumption DEF PoolTypeOf
  <2>2. pools[PoolTypeOf(c)] # None => <<PoolTypeOf(c), pools[PoolTypeOf(c)]>> \in PoolIds
    BY <2>1 DEF TypeOK, PoolIds
  <2>3. got' \in [Callers -> PoolIds \cup {None}] /\ pc' \in [Callers -> Location]
    BY <1>5, <2>2 DEF GetPool, TypeOK, Location
  <2>4. QED
    BY <1>5, <2>3 DEF GetPool, TypeOK
<1>6. ASSUME NEW c \in Callers, PoolSubmit(c) PROVE TypeOK'
  BY <1>6 DEF PoolSubmit, TypeOK, Location
<1>7. ASSUME NEW c \in Callers, TaskSucceeds(c) PROVE TypeOK'
  BY <1>7 DEF TaskSucceeds, CountAttempt, Goto, TypeOK, Location
<1>8. ASSUME NEW c \in Callers, TaskFails(c) PROVE TypeOK'
  <2>1. attempts' \in [Callers -> 0 .. MaxRetries]
    BY <1>8, TypesAssumption DEF TaskFails, TypeOK
  <2>2. pc' \in [Callers -> Location]
    BY <1>8 DEF TaskFails, TypeOK, Location
  <2>3. totalSubmitted' \in Nat /\ totalFailed' \in Nat
    BY <1>8 DEF TaskFails, CountAttempt, TypeOK
  <2>4. QED
    BY <1>8, <2>1, <2>2, <2>3 DEF TaskFails, TypeOK
<1>9. ASSUME NEW c \in Closers, Shutdown(c) PROVE TypeOK'
  <2>1. pc' \in [Callers -> Location]
    BY <1>9 DEF Shutdown, Goto, TypeOK, Location
  <2>2. closing' \in [Closers -> [PoolIds -> Helper]]
    BY <1>9 DEF Shutdown, TypeOK, Helper
  <2>3. QED
    BY <1>9, <2>1, <2>2 DEF Shutdown, TypeOK
<1>10. ASSUME NEW c \in Closers, ShutdownReturns(c) PROVE TypeOK'
  BY <1>10 DEF ShutdownReturns, NoPools, TypeOK, Location
<1>11. ASSUME NEW c \in Callers, NEW ty \in Types, RegisterPool(c, ty) PROVE TypeOK'
  BY <1>11 DEF RegisterPool, Goto, TypeOK, Location, Config
<1>12. ASSUME NEW p \in PoolIds, PoolTerminates(p) PROVE TypeOK'
  BY <1>12 DEF PoolTerminates, TypeOK, Phase
<1>13. ASSUME NEW c \in Closers, NEW p \in PoolIds, PoolCloses(c, p) PROVE TypeOK'
  BY <1>13, ClosingMoves DEF PoolCloses, TypeOK, Phase, Helper
<1>14. ASSUME NEW c \in Closers, NEW p \in PoolIds, PoolShutdownReturns(c, p) PROVE TypeOK'
  BY <1>14, ClosingMoves DEF PoolShutdownReturns, TypeOK, Helper
<1>15. CASE UNCHANGED vars
  BY <1>15 DEF vars, TypeOK
<1>16. QED
  BY <1>1, <1>2, <1>3, <1>4, <1>5, <1>6, <1>7, <1>8, <1>9, <1>10, <1>11, <1>12, <1>13, <1>14,
     <1>15, NextCases

-----------------------------------------------------------------------------
(* What a step does to the registry, the pools and their closers.          *)

Early == {"idle", "unready", "permitted"}

OthersStay(c) == \A d \in Callers \ {c} : pc'[d] = pc[d] /\ got'[d] = got[d]

Nothing == UNCHANGED <<isShutdown, pools, phase, closing, pc, got>>

CallerMoves(c) ==
  /\ UNCHANGED <<isShutdown, pools, phase, closing>>
  /\ OthersStay(c)
  /\ pc'[c] \in Early => pc[c] \in Early
  /\ c \in Closers => pc'[c] = "error"
  /\ pc'[c] = "accepted" =>
       got'[c] = got[c] /\ (pc[c] = "accepted" \/ phase[got[c]] = "open")

Initializes(c) ==
  /\ c \in Creators /\ c \notin Closers /\ pc[c] \in Early /\ pc'[c] \in {"ready", "ok", "error"}
  /\ OthersStay(c)
  /\ UNCHANGED <<isShutdown, closing>>
  /\ \E started \in SUBSET Types :
       /\ phase' = [p \in PoolIds |-> IF p[1] \in started /\ p[2] = c THEN "open" ELSE phase[p]]
       /\ pools' = [ty \in Types |-> IF ty \in started THEN c ELSE pools[ty]]

Begins(c) ==
  /\ ~isShutdown /\ isShutdown' /\ pc[c] = "idle"
  /\ OthersStay(c)
  /\ UNCHANGED <<pools, phase>>
  /\ \/ pc'[c] = "ok" /\ closing' = closing
     \/ /\ pc'[c] = "closing"
        /\ closing' = [closing EXCEPT ![c] =
                         [p \in PoolIds |-> IF p \in Registered THEN "starting" ELSE "none"]]

Returns(c) ==
  /\ pc[c] = "closing" /\ pc'[c] = "ok"
  /\ \A p \in PoolIds : closing[c][p] \in {"none", "ok"}
  /\ OthersStay(c)
  /\ pools' = NoPools
  /\ UNCHANGED <<isShutdown, phase, closing>>

Terminates(p) ==
  /\ phase[p] = "closed"
  /\ \A c \in Callers : ~(pc[c] = "accepted" /\ got[c] = p)
  /\ phase' = [phase EXCEPT ![p] = "terminated"]
  /\ UNCHANGED <<isShutdown, pools, closing, pc, got>>

Closes(c, p) ==
  /\ closing[c][p] = "starting"
  /\ phase' = [phase EXCEPT ![p] = "closed"]
  /\ closing' = [closing EXCEPT ![c][p] = "waiting"]
  /\ UNCHANGED <<isShutdown, pools, pc, got>>

Waited(c, p) ==
  /\ closing[c][p] = "waiting"
  /\ \/ phase[p] = "terminated" /\ closing' = [closing EXCEPT ![c][p] = "ok"]
     \/ closing' = [closing EXCEPT ![c][p] = "timeout"]
  /\ UNCHANGED <<isShutdown, pools, phase, pc, got>>

ManagerCases ==
  \/ Nothing
  \/ \E c \in Callers : CallerMoves(c) \/ Initializes(c)
  \/ \E c \in Closers : Begins(c) \/ Returns(c)
  \/ \E p \in PoolIds : Terminates(p)
  \/ \E c \in Closers, p \in PoolIds : Closes(c, p) \/ Waited(c, p)

LEMMA StepCases == TypeOK /\ RolesInv /\ [Next]_vars => ManagerCases
<1> SUFFICES ASSUME TypeOK, RolesInv, [Next]_vars PROVE ManagerCases
  OBVIOUS
<1> USE DEF registryVars, totals
<1>0. ASSUME NEW c \in Callers, NEW to, pc' = [pc EXCEPT ![c] = to], UNCHANGED got
      PROVE  pc'[c] = to /\ OthersStay(c)
  BY <1>0 DEF TypeOK, OthersStay
<1>1. ASSUME NEW c \in Callers, NEW to, pc' = [pc EXCEPT ![c] = to], to # "accepted",
             to \in Early => pc[c] \in Early, c \in Closers => to = "error",
             UNCHANGED <<got, isShutdown, pools, phase, closing>>
      PROVE  ManagerCases
  BY <1>0, <1>1 DEF CallerMoves, ManagerCases
<1>2. ASSUME NEW c \in Callers, Ensures(c) \/ Call[c] = "initialize", pc[c] \in Early, NEW conf,
             InitializePools(c, conf), UNCHANGED <<isShutdown, got, closing>>
      PROVE  ManagerCases
  <2>1. PICK to \in {"ready", "ok", "error"} : pc' = [pc EXCEPT ![c] = to]
    BY <1>2 DEF InitializePools, Ensured
  <2>2. c \in Creators /\ c \notin Closers
    BY <1>2 DEF Creators, Closers, Ensures
  <2>3. \E started \in SUBSET Types :
          /\ phase' = [p \in PoolIds |-> IF p[1] \in started /\ p[2] = c THEN "open" ELSE phase[p]]
          /\ pools' = [ty \in Types |-> IF ty \in started THEN c ELSE pools[ty]]
    BY <1>2 DEF InitializePools
  <2>4. Initializes(c)
    BY <1>0, <1>2, <2>1, <2>2, <2>3 DEF Initializes
  <2>5. QED
    BY <2>4 DEF ManagerCases
<1>3. ASSUME NEW c \in Callers, Ensures(c) \/ Call[c] # "shutdown" PROVE c \notin Closers
  BY <1>3 DEF Closers, Ensures
<1>4. ASSUME NEW c \in Callers, Initialize(c) PROVE ManagerCases
  BY <1>1, <1>2, <1>3, <1>4 DEF Initialize, Goto, Early
<1>5. ASSUME NEW c \in Callers, EnsureTestsInitialized(c) PROVE ManagerCases
  BY <1>1, <1>3, <1>5 DEF EnsureTestsInitialized, Ensured, Goto, Early
<1>6. ASSUME NEW c \in Callers, EnsureTestsShutdown(c) PROVE ManagerCases
  BY <1>1, <1>3, <1>6 DEF EnsureTestsShutdown, Goto, RolesInv, Early
<1>7. ASSUME NEW c \in Callers, EnsureLocked(c) PROVE ManagerCases
  <2>1. Ensures(c) /\ pc[c] \in Early
    BY <1>7 DEF EnsureLocked, RolesInv, Early
  <2>2. CASE isInitialized
    BY <1>1, <1>3, <1>7, <2>1, <2>2 DEF EnsureLocked, Ensured, Early
  <2>3. CASE ~isInitialized
    <3>1. PICK conf : InitializePools(c, conf)
      BY <1>7, <2>3 DEF EnsureLocked
    <3>2. QED
      BY <1>2, <1>7, <2>1, <3>1 DEF EnsureLocked
  <2>4. QED
    BY <2>2, <2>3
<1>8. ASSUME NEW c \in Callers, GetPool(c) PROVE ManagerCases
  <2>1. c \notin Closers /\ UNCHANGED <<isShutdown, pools, phase, closing>>
    BY <1>3, <1>8 DEF GetPool
  <2>2. pc'[c] \in {"error", "holding"} /\ OthersStay(c)
    BY <1>8 DEF GetPool, TypeOK, OthersStay
  <2>3. CallerMoves(c)
    BY <2>1, <2>2 DEF CallerMoves, Early
  <2>4. QED
    BY <2>3 DEF ManagerCases
<1>9. ASSUME NEW c \in Callers, PoolSubmit(c) PROVE ManagerCases
  <2>1. c \notin Closers /\ UNCHANGED <<isShutdown, pools, phase, closing, got>>
    BY <1>9 DEF PoolSubmit, RolesInv
  <2>2. PICK to \in {"accepted", "refused"} :
          pc' = [pc EXCEPT ![c] = to] /\ (to = "accepted" => phase[got[c]] = "open")
    BY <1>9 DEF PoolSubmit
  <2>3. CallerMoves(c)
    BY <1>0, <2>1, <2>2 DEF CallerMoves, Early
  <2>4. QED
    BY <2>3 DEF ManagerCases
<1>10. ASSUME NEW c \in Callers, TaskSucceeds(c) PROVE ManagerCases
  BY <1>1, <1>10 DEF TaskSucceeds, Goto, RolesInv, Early
<1>11. ASSUME NEW c \in Callers, TaskFails(c) PROVE ManagerCases
  <2>1. CASE UNCHANGED pc
    BY <1>11, <2>1 DEF TaskFails, Nothing, ManagerCases
  <2>2. CASE ~UNCHANGED pc
    BY <1>1, <1>11, <2>2 DEF TaskFails, RolesInv, Early
  <2>3. QED
    BY <2>1, <2>2
<1>12. ASSUME NEW c \in Closers, Shutdown(c) PROVE ManagerCases
  <2>0. c \in Callers
    BY DEF Closers
  <2>1. CASE isShutdown
    BY <1>1, <1>12, <2>0, <2>1 DEF Shutdown, Goto, Early
  <2>2. CASE ~isShutdown
    <3>1. PICK to \in {"ok", "closing"} :
            /\ pc[c] = "idle" /\ pc' = [pc EXCEPT ![c] = to]
            /\ to = "ok" => closing' = closing
            /\ to = "closing" =>
                 closing' = [closing EXCEPT ![c] =
                               [p \in PoolIds |-> IF p \in Registered THEN "starting" ELSE "none"]]
      BY <1>12, <2>2 DEF Shutdown, Goto
    <3>2. Begins(c)
      BY <1>0, <1>12, <2>0, <2>2, <3>1 DEF Shutdown, Begins
    <3>3. QED
      BY <3>2 DEF ManagerCases
  <2>3. QED
    BY <2>1, <2>2
<1>13. ASSUME NEW c \in Closers, ShutdownReturns(c) PROVE ManagerCases
  <2>0. c \in Callers
    BY DEF Closers
  <2>1. CASE \E p \in PoolIds : closing[c][p] = "timeout"
    BY <1>1, <1>13, <2>0, <2>1 DEF ShutdownReturns, Early
  <2>2. CASE \A p \in PoolIds : closing[c][p] # "timeout"
    <3>1. /\ pc[c] = "closing" /\ pc' = [pc EXCEPT ![c] = "ok"] /\ pools' = NoPools
          /\ UNCHANGED <<isShutdown, phase, closing, got>>
      BY <1>13, <2>2 DEF ShutdownReturns
    <3>2. \A p \in PoolIds : closing[c][p] \in {"none", "ok"}
      BY <1>13, <2>2 DEF ShutdownReturns, TypeOK, Helper
    <3>3. Returns(c)
      BY <1>0, <2>0, <3>1, <3>2 DEF Returns
    <3>4. QED
      BY <3>3 DEF ManagerCases
  <2>3. QED
    BY <2>1, <2>2
<1>14. ASSUME NEW c \in Callers, NEW ty \in Types, RegisterPool(c, ty) PROVE ManagerCases
  BY <1>1, <1>3, <1>14 DEF RegisterPool, Goto, Early
<1>15. ASSUME NEW p \in PoolIds, PoolTerminates(p) PROVE ManagerCases
  BY <1>15 DEF PoolTerminates, Terminates, ManagerCases
<1>16. ASSUME NEW c \in Closers, NEW p \in PoolIds, PoolCloses(c, p) PROVE ManagerCases
  BY <1>16 DEF PoolCloses, Closes, ManagerCases
<1>17. ASSUME NEW c \in Closers, NEW p \in PoolIds, PoolShutdownReturns(c, p) PROVE ManagerCases
  BY <1>17 DEF PoolShutdownReturns, Waited, ManagerCases
<1>18. CASE UNCHANGED vars
  BY <1>18 DEF vars, Nothing, ManagerCases
<1>19. QED
  BY <1>4, <1>5, <1>6, <1>7, <1>8, <1>9, <1>10, <1>11, <1>12, <1>13, <1>14, <1>15, <1>16, <1>17,
     <1>18, NextCases

-----------------------------------------------------------------------------
(* ManagerInv is inductive, part by part.                                  *)

LEMMA InitManager == Init => ManagerInv
<1> SUFFICES ASSUME Init PROVE ManagerInv
  OBVIOUS
<1>1. CreationInv
  BY DEF Init, CreationInv, PoolIds
<1>2. /\ \A c \in Closers : pc[c] = "idle" /\ \A p \in PoolIds : closing[c][p] = "none"
      /\ \A p \in PoolIds : phase[p] = "absent"
      /\ \A ty \in Types : pools[ty] = None
  BY DEF Init, Closers, NoPools
<1>3. ClosingInv /\ OwesNothing
  BY <1>2 DEF ClosingInv, OwesNothing
<1>4. PoolsKept
  BY <1>2 DEF PoolsKept, ShutdownWaits, OpenUntilClosed, RegistryOpen, ClosedOnce
<1>5. QED
  BY <1>1, <1>3, <1>4, InitRoles DEF ManagerInv

LEMMA StepCreation ==
  ASSUME TypeOK, ManagerInv, ManagerCases
  PROVE  CreationInv'
<1>1. SUFFICES ASSUME NEW c \in Creators, pc'[c] \in Early, NEW ty \in Types
               PROVE  phase'[<<ty, c>>] = "absent"
  BY DEF CreationInv, Early
<1>2. <<ty, c>> \in PoolIds /\ c \in Callers
  BY DEF PoolIds, Creators
<1>3. pc[c] \in Early => phase[<<ty, c>>] = "absent"
  BY DEF ManagerInv, CreationInv, Early
<1>4. CASE Nothing
  BY <1>1, <1>3, <1>4 DEF Nothing
<1>5. ASSUME NEW d \in Callers, CallerMoves(d) PROVE phase'[<<ty, c>>] = "absent"
  BY <1>1, <1>2, <1>3, <1>5 DEF CallerMoves, OthersStay
<1>6. ASSUME NEW d \in Callers, Initializes(d) PROVE phase'[<<ty, c>>] = "absent"
  <2>1. c # d
    BY <1>1, <1>6 DEF Initializes, Early
  <2>2. pc[c] \in Early
    BY <1>1, <1>2, <1>6, <2>1 DEF Initializes, OthersStay
  <2>3. phase'[<<ty, c>>] = phase[<<ty, c>>]
    BY <1>2, <1>6, <2>1 DEF Initializes
  <2>4. QED
    BY <1>3, <2>2, <2>3
<1>7. ASSUME NEW d \in Closers, Begins(d) \/ Returns(d) PROVE phase'[<<ty, c>>] = "absent"
  BY <1>1, <1>2, <1>3, <1>7 DEF Begins, Returns, OthersStay, Early
<1>8. ASSUME NEW p \in PoolIds, Terminates(p) PROVE phase'[<<ty, c>>] = "absent"
  BY <1>1, <1>2, <1>3, <1>8 DEF Terminates, TypeOK
<1>9. ASSUME NEW d \in Closers, NEW p \in PoolIds, Closes(d, p) PROVE phase'[<<ty, c>>] = "absent"
  <2>1. phase[p] = "open"
    BY <1>9 DEF Closes, ManagerInv, PoolsKept, OpenUntilClosed, ClosedOnce
  <2>2. QED
    BY <1>1, <1>2, <1>3, <1>9, <2>1 DEF Closes, TypeOK
<1>10. ASSUME NEW d \in Closers, NEW p \in PoolIds, Waited(d, p) PROVE phase'[<<ty, c>>] = "absent"
  BY <1>1, <1>3, <1>10 DEF Waited
<1>11. QED
  BY <1>4, <1>5, <1>6, <1>7, <1>8, <1>9, <1>10 DEF ManagerCases

(* A pool that is down stays down. *)
LEMMA DownStaysDown ==
  ASSUME TypeOK, ManagerInv, ManagerCases, NEW p \in PoolIds, phase[p] = "terminated"
  PROVE  phase'[p] = "terminated"
<1>1. ASSUME NEW d \in Callers, Initializes(d) PROVE phase'[p] = "terminated"
  <2>1. phase[<<p[1], d>>] = "absent"
    BY <1>1 DEF Initializes, ManagerInv, CreationInv, Early, PoolIds
  <2>2. p[2] # d
    BY <2>1 DEF PoolIds
  <2>3. QED
    BY <1>1, <2>2 DEF Initializes
<1>2. ASSUME NEW d \in Closers, NEW q \in PoolIds, Closes(d, q) PROVE phase'[p] = "terminated"
  <2>1. phase[q] = "open"
    BY <1>2 DEF Closes, ManagerInv, PoolsKept, OpenUntilClosed, ClosedOnce
  <2>2. QED
    BY <1>2, <2>1 DEF Closes, TypeOK
<1>3. ASSUME NEW q \in PoolIds, Terminates(q) PROVE phase'[p] = "terminated"
  BY <1>3 DEF Terminates, TypeOK
<1>4. QED
  BY <1>1, <1>2, <1>3 DEF ManagerCases, Nothing, CallerMoves, Begins, Returns, Waited

LEMMA StepClosing ==
  ASSUME TypeOK, ManagerInv, ManagerCases
  PROVE  ClosingInv'
<1>0. ClosingInv
  BY DEF ManagerInv
<1>1. \A p \in PoolIds : phase[p] = "terminated" => phase'[p] = "terminated"
  BY DownStaysDown
<1>2. ASSUME isShutdown => isShutdown',
             \A c \in Closers : pc[c] # "idle" => pc'[c] # "idle",
             \A c \in Closers, p \in PoolIds :
               /\ closing'[c][p] # "none" => closing[c][p] # "none"
               /\ closing'[c][p] = "ok" => closing[c][p] = "ok" \/ phase[p] = "terminated"
      PROVE  ClosingInv'
  <2>1. SUFFICES ASSUME NEW c \in Closers, NEW p \in PoolIds
                 PROVE  /\ closing'[c][p] # "none" => isShutdown' /\ pc'[c] # "idle"
                        /\ closing'[c][p] = "ok" => phase'[p] = "terminated"
                        /\ \A d \in Closers, q \in PoolIds :
                             closing'[c][p] # "none" /\ closing'[d][q] # "none" => c = d
    BY DEF ClosingInv
  <2>2. QED
    BY <1>0, <1>1, <1>2 DEF ClosingInv
<1>3. CASE Nothing
  BY <1>2, <1>3 DEF Nothing
<1>4. ASSUME NEW d \in Callers, CallerMoves(d) \/ Initializes(d) PROVE ClosingInv'
  <2>1. \A c \in Closers : pc[c] # "idle" => pc'[c] # "idle"
    BY <1>4 DEF CallerMoves, Initializes, OthersStay, Closers
  <2>2. UNCHANGED <<isShutdown, closing>>
    BY <1>4 DEF CallerMoves, Initializes
  <2>3. QED
    BY <1>2, <2>1, <2>2
<1>5. ASSUME NEW d \in Closers, Returns(d) PROVE ClosingInv'
  <2>1. \A c \in Closers : pc[c] # "idle" => pc'[c] # "idle"
    BY <1>5 DEF Returns, OthersStay, Closers
  <2>2. UNCHANGED <<isShutdown, closing>>
    BY <1>5 DEF Returns
  <2>3. QED
    BY <1>2, <2>1, <2>2
<1>6. ASSUME NEW d \in Closers, Begins(d) PROVE ClosingInv'
  <2>1. \A c \in Closers, p \in PoolIds : closing[c][p] = "none"
    BY <1>0, <1>6 DEF Begins, ClosingInv
  <2>2. \A c \in Closers, p \in PoolIds :
          /\ closing'[c][p] # "none" => c = d
          /\ closing'[c][p] \in {"none", "starting"}
    BY <1>6, <2>1 DEF Begins, TypeOK
  <2>3. isShutdown' /\ pc'[d] # "idle"
    BY <1>6 DEF Begins
  <2>4. QED
    BY <2>2, <2>3 DEF ClosingInv
<1>7. ASSUME NEW p \in PoolIds, Terminates(p) PROVE ClosingInv'
  BY <1>2, <1>7 DEF Terminates
<1>8. ASSUME NEW d \in Closers, NEW p \in PoolIds, Closes(d, p) PROVE ClosingInv'
  <2>1. /\ closing'[d][p] = "waiting" /\ closing[d][p] = "starting"
        /\ \A c \in Closers, q \in PoolIds : c # d \/ q # p => closing'[c][q] = closing[c][q]
    BY <1>8, ClosingMoves DEF Closes, Helper
  <2>2. UNCHANGED <<isShutdown, pc>>
    BY <1>8 DEF Closes
  <2>3. QED
    BY <1>2, <2>1, <2>2
<1>9. ASSUME NEW d \in Closers, NEW p \in PoolIds, Waited(d, p) PROVE ClosingInv'
  <2>1. /\ closing[d][p] = "waiting"
        /\ closing'[d][p] = "timeout" \/ (closing'[d][p] = "ok" /\ phase[p] = "terminated")
        /\ \A c \in Closers, q \in PoolIds : c # d \/ q # p => closing'[c][q] = closing[c][q]
    BY <1>9, ClosingMoves DEF Waited, Helper
  <2>2. UNCHANGED <<isShutdown, pc>>
    BY <1>9 DEF Waited
  <2>3. QED
    BY <1>2, <2>1, <2>2
<1>10. QED
  BY <1>3, <1>4, <1>5, <1>6, <1>7, <1>8, <1>9 DEF ManagerCases

LEMMA StepOwes ==
  ASSUME TypeOK, ManagerInv, ManagerCases
  PROVE  OwesNothing'
<1>1. SUFFICES ASSUME NEW p \in PoolIds, phase'[p] = "terminated", NEW d \in Callers,
                      got'[d] = p, pc'[d] = "accepted"
               PROVE  FALSE
  BY DEF OwesNothing
<1>2. ~(phase[p] = "terminated" /\ got[d] = p /\ pc[d] = "accepted")
  BY DEF ManagerInv, OwesNothing
<1>3. CASE Nothing
  BY <1>1, <1>2, <1>3 DEF Nothing
<1>4. ASSUME NEW c \in Callers, CallerMoves(c) PROVE FALSE
  BY <1>1, <1>2, <1>4 DEF CallerMoves, OthersStay
<1>5. ASSUME NEW c \in Callers, Initializes(c) PROVE FALSE
  <2>1. phase[p] = "terminated"
    BY <1>1, <1>5 DEF Initializes
  <2>2. d # c
    BY <1>1, <1>5 DEF Initializes
  <2>3. QED
    BY <1>1, <1>2, <1>5, <2>1, <2>2 DEF Initializes, OthersStay
<1>6. ASSUME NEW c \in Closers, Begins(c) \/ Returns(c) PROVE FALSE
  BY <1>1, <1>2, <1>6 DEF Begins, Returns, OthersStay
<1>7. ASSUME NEW q \in PoolIds, Terminates(q) PROVE FALSE
  BY <1>1, <1>2, <1>7 DEF Terminates, TypeOK
<1>8. ASSUME NEW c \in Closers, NEW q \in PoolIds, Closes(c, q) PROVE FALSE
  BY <1>1, <1>2, <1>8 DEF Closes, TypeOK
<1>9. ASSUME NEW c \in Closers, NEW q \in PoolIds, Waited(c, q) PROVE FALSE
  BY <1>1, <1>2, <1>9 DEF Waited
<1>10. QED
  BY <1>3, <1>4, <1>5, <1>6, <1>7, <1>8, <1>9 DEF ManagerCases

(* Nobody closes a pool before isShutdown is set. *)
LEMMA StepRegistry ==
  ASSUME TypeOK, ManagerInv, ManagerCases
  PROVE  RegistryOpen'
<1>1. SUFFICES ASSUME NEW ty \in Types, pools'[ty] # None, ~isShutdown'
               PROVE  phase'[<<ty, pools'[ty]>>] = "open"
  BY DEF RegistryOpen
<1>2. pools[ty] # None /\ ~isShutdown => phase[<<ty, pools[ty]>>] = "open"
  BY DEF ManagerInv, PoolsKept, OpenUntilClosed, RegistryOpen
<1>3. pools[ty] # None => <<ty, pools[ty]>> \in PoolIds
  BY DEF PoolIds, TypeOK
<1>4. CASE Nothing
  BY <1>1, <1>2, <1>4 DEF Nothing
<1>5. ASSUME NEW c \in Callers, CallerMoves(c) PROVE phase'[<<ty, pools'[ty]>>] = "open"
  BY <1>1, <1>2, <1>5 DEF CallerMoves
<1>6. ASSUME NEW c \in Callers, Initializes(c) PROVE phase'[<<ty, pools'[ty]>>] = "open"
  <2>1. PICK started \in SUBSET Types :
          /\ phase' = [p \in PoolIds |-> IF p[1] \in started /\ p[2] = c THEN "open" ELSE phase[p]]
          /\ pools' = [u \in Types |-> IF u \in started THEN c ELSE pools[u]]
    BY <1>6 DEF Initializes
  <2>2. CASE ty \in started
    <3>1. pools'[ty] = c /\ <<ty, c>> \in PoolIds
      BY <1>6, <2>1, <2>2 DEF Initializes, PoolIds
    <3>2. phase'[<<ty, c>>] = "open"
      BY <2>1, <2>2, <3>1
    <3>3. QED
      BY <3>1, <3>2
  <2>3. CASE ty \notin started
    <3>1. pools'[ty] = pools[ty] /\ ~isShutdown
      BY <1>1, <1>6, <2>1, <2>3 DEF Initializes
    <3>2. phase[<<ty, pools[ty]>>] = "open" /\ <<ty, pools[ty]>> \in PoolIds
      BY <1>1, <1>2, <1>3, <3>1
    <3>3. phase'[<<ty, pools[ty]>>] = "open"
      BY <2>1, <3>2
    <3>4. QED
      BY <3>1, <3>3
  <2>4. QED
    BY <2>2, <2>3
<1>7. ASSUME NEW c \in Closers, Begins(c) \/ Returns(c) PROVE phase'[<<ty, pools'[ty]>>] = "open"
  BY <1>1, <1>7 DEF Begins, Returns, NoPools
<1>8. ASSUME NEW q \in PoolIds, Terminates(q) PROVE phase'[<<ty, pools'[ty]>>] = "open"
  <2>1. /\ UNCHANGED <<pools, isShutdown>> /\ phase[q] = "closed"
        /\ \A p \in PoolIds : p # q => phase'[p] = phase[p]
    BY <1>8 DEF Terminates, TypeOK
  <2>2. QED
    BY <1>1, <1>2, <1>3, <2>1
<1>9. ASSUME NEW c \in Closers, NEW q \in PoolIds, Closes(c, q)
      PROVE  phase'[<<ty, pools'[ty]>>] = "open"
  BY <1>1, <1>9 DEF Closes, ManagerInv, ClosingInv
<1>10. ASSUME NEW c \in Closers, NEW q \in PoolIds, Waited(c, q)
       PROVE  phase'[<<ty, pools'[ty]>>] = "open"
  BY <1>1, <1>2, <1>10 DEF Waited
<1>11. QED
  BY <1>4, <1>5, <1>6, <1>7, <1>8, <1>9, <1>10 DEF ManagerCases

LEMMA StepClosedOnce ==
  ASSUME TypeOK, ManagerInv, ManagerCases
  PROVE  ClosedOnce'
<1>1. SUFFICES ASSUME NEW c \in Closers, NEW p \in PoolIds, closing'[c][p] = "starting"
               PROVE  phase'[p] = "open"
  BY DEF ClosedOnce
<1>2. closing[c][p] = "starting" => phase[p] = "open"
  BY DEF ManagerInv, PoolsKept, OpenUntilClosed, ClosedOnce
<1>3. CASE Nothing
  BY <1>1, <1>2, <1>3 DEF Nothing
<1>4. ASSUME NEW d \in Callers, CallerMoves(d) \/ Initializes(d) PROVE phase'[p] = "open"
  BY <1>1, <1>2, <1>4 DEF CallerMoves, Initializes
<1>5. ASSUME NEW d \in Closers, Begins(d) PROVE phase'[p] = "open"
  <2>1. closing[c][p] = "none" /\ ~isShutdown
    BY <1>5 DEF Begins, ManagerInv, ClosingInv
  <2>2. p \in Registered
    BY <1>1, <1>5, <2>1 DEF Begins, TypeOK
  <2>3. phase[p] = "open"
    BY <2>1, <2>2 DEF Registered, ManagerInv, PoolsKept, OpenUntilClosed, RegistryOpen
  <2>4. QED
    BY <1>5, <2>3 DEF Begins
<1>6. ASSUME NEW d \in Closers, Returns(d) PROVE phase'[p] = "open"
  BY <1>1, <1>2, <1>6 DEF Returns
<1>7. ASSUME NEW q \in PoolIds, Terminates(q) PROVE phase'[p] = "open"
  BY <1>1, <1>2, <1>7 DEF Terminates, TypeOK
<1>8. ASSUME NEW d \in Closers, NEW q \in PoolIds, Closes(d, q) PROVE phase'[p] = "open"
  <2>1. /\ closing'[d][q] = "waiting" /\ closing[d][q] = "starting"
        /\ \A e \in Closers, r \in PoolIds : e # d \/ r # q => closing'[e][r] = closing[e][r]
    BY <1>8, ClosingMoves DEF Closes, Helper
  <2>2. c = d
    BY <1>1, <2>1 DEF ManagerInv, ClosingInv
  <2>3. p # q
    BY <1>1, <2>1, <2>2
  <2>4. QED
    BY <1>1, <1>2, <1>8, <2>1, <2>3 DEF Closes, TypeOK
<1>9. ASSUME NEW d \in Closers, NEW q \in PoolIds, Waited(d, q) PROVE phase'[p] = "open"
  <2>1. /\ closing'[d][q] \in {"ok", "timeout"}
        /\ \A e \in Closers, r \in PoolIds : e # d \/ r # q => closing'[e][r] = closing[e][r]
    BY <1>9, ClosingMoves DEF Waited, Helper
  <2>2. QED
    BY <1>1, <1>2, <1>9, <2>1 DEF Waited
<1>10. QED
  BY <1>3, <1>4, <1>5, <1>6, <1>7, <1>8, <1>9 DEF ManagerCases

LEMMA StepWaits ==
  ASSUME TypeOK, ManagerInv, ManagerCases, OwesNothing'
  PROVE  ShutdownWaits'
<1>1. SUFFICES ASSUME NEW c \in Closers, pc'[c] = "ok", NEW p \in PoolIds, closing'[c][p] # "none"
               PROVE  phase'[p] = "terminated"
  BY DEF ShutdownWaits, OwesNothing
<1>2. /\ pc[c] = "ok" /\ closing[c][p] # "none" => phase[p] = "terminated"
      /\ closing[c][p] = "ok" => phase[p] = "terminated"
      /\ closing[c][p] # "none" => pc[c] # "idle"
  BY DEF ManagerInv, PoolsKept, ShutdownWaits, ClosingInv
<1>3. SUFFICES phase[p] = "terminated"
  BY DownStaysDown
<1>4. CASE Nothing
  BY <1>1, <1>2, <1>4 DEF Nothing
<1>5. ASSUME NEW d \in Callers, CallerMoves(d) \/ Initializes(d) PROVE phase[p] = "terminated"
  BY <1>1, <1>2, <1>5 DEF CallerMoves, Initializes, OthersStay, Closers
<1>6. ASSUME NEW d \in Closers, Begins(d) PROVE phase[p] = "terminated"
  <2>1. closing[c][p] = "none"
    BY <1>6 DEF Begins, ManagerInv, ClosingInv
  <2>2. closing' # closing /\ pc'[d] = "closing" /\ c # d
    BY <1>1, <1>6, <2>1 DEF Begins
  <2>3. closing'[c][p] = closing[c][p]
    BY <1>6, <2>2 DEF Begins, TypeOK
  <2>4. QED
    BY <1>1, <2>1, <2>3
<1>7. ASSUME NEW d \in Closers, Returns(d) PROVE phase[p] = "terminated"
  BY <1>1, <1>2, <1>7 DEF Returns, OthersStay, Closers
<1>8. ASSUME NEW q \in PoolIds, Terminates(q) PROVE phase[p] = "terminated"
  BY <1>1, <1>2, <1>8 DEF Terminates
<1>9. ASSUME NEW d \in Closers, NEW q \in PoolIds, Closes(d, q) \/ Waited(d, q)
      PROVE  phase[p] = "terminated"
  <2>1. /\ closing[d][q] # "none" /\ UNCHANGED pc
        /\ \A e \in Closers, r \in PoolIds : e # d \/ r # q => closing'[e][r] = closing[e][r]
    BY <1>9, ClosingMoves DEF Closes, Waited, Helper
  <2>2. QED
    BY <1>1, <1>2, <2>1
<1>10. QED
  BY <1>4, <1>5, <1>6, <1>7, <1>8, <1>9 DEF ManagerCases

LEMMA ManagerStarts == Init => TypeOK /\ ManagerInv
BY InitTyped, InitManager

LEMMA ManagerStep == TypeOK /\ ManagerInv /\ [Next]_vars => (TypeOK /\ ManagerInv)'
<1> SUFFICES ASSUME TypeOK, ManagerInv, [Next]_vars PROVE (TypeOK /\ ManagerInv)'
  OBVIOUS
<1>1. RolesInv
  BY DEF ManagerInv
<1>2. TypeOK' /\ RolesInv' /\ ManagerCases
  BY <1>1, StepTyped, StepRoles, StepCases
<1>3. CreationInv' /\ ClosingInv' /\ OwesNothing'
  BY <1>2, StepCreation, StepClosing, StepOwes
<1>4. RegistryOpen' /\ ClosedOnce' /\ ShutdownWaits'
  BY <1>2, <1>3, StepRegistry, StepClosedOnce, StepWaits
<1>5. QED
  BY <1>2, <1>3, <1>4 DEF ManagerInv, PoolsKept, OpenUntilClosed

LEMMA ManagerCorrect == Spec => [](TypeOK /\ ManagerInv)
  BY ManagerStarts, ManagerStep, PTL DEF Spec

(* The state keeps its declared types: what a caller has looked up is a    *)
(* pool that was created, and a task has at most MaxRetries retries.       *)
THEOREM TypeCorrect == Spec => []TypeOK
  BY ManagerCorrect, PTL

(* However many callers register, initialise, submit and shut down at      *)
(* once: a registered pool is open until isShutdown is set, every pool is  *)
(* closed once, and a nil error of Shutdown means that the pools it found  *)
(* are down and owe nobody a result.                                       *)
THEOREM PoolsAreKept == Spec => []PoolsKept
<1>1. TypeOK /\ ManagerInv => PoolsKept
  BY DEF ManagerInv
<1>2. QED
  BY <1>1, ManagerCorrect, PTL

(* The registry is filled by one initialisation, and later only emptied.   *)
THEOREM InitializedOnce == Spec => OneInitialization
<1>1. [Next]_vars => [isInitialized => isInitialized' /\ pools' \in {pools, NoPools}]_vars
  <2> SUFFICES ASSUME Next, isInitialized PROVE isInitialized' /\ pools' \in {pools, NoPools}
    OBVIOUS
  <2> USE DEF registryVars
  <2>1. QED
    BY NextCases DEF Initialize, EnsureTestsInitialized, EnsureTestsShutdown, EnsureLocked,
       GetPool, PoolSubmit, TaskSucceeds, TaskFails, Shutdown, ShutdownReturns, RegisterPool,
       PoolTerminates, PoolCloses, PoolShutdownReturns
<1>2. QED
  BY <1>1, PTL DEF Spec, OneInitialization
=============================================================================
