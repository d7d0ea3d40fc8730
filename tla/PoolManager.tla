---------------------------- MODULE PoolManager ----------------------------
(***************************************************************************)
(* The manager of the named goroutine pools                                *)
(* (src/ialang/pkg/pool/pool_manager.go) and the script module that uses   *)
(* it (runtime/builtin/goroutine_pool.go).  A caller makes one call, in    *)
(* steps that end where the code releases pm.mu: EnsureInitialized tests   *)
(* two flags, each under a lock of its own, before it locks to initialise; *)
(* a submission looks its pool up and then uses it; a shutdown copies the  *)
(* registry and closes the copies without the lock.                        *)
(*                                                                         *)
(* A pool is what module TaskExecutor promises of it: open, closed once,   *)
(* terminated when all it accepted is settled.  A pool is named by its     *)
(* type and by the caller that created it.                                 *)
(***************************************************************************)
EXTENDS Integers, FiniteSets

CONSTANTS
  Callers,      (* goroutines, each of which makes the call Call[c]          *)
  Call,
  Types,        (* PoolType                                                  *)
  DefaultPool,
  IOPool,
  Options,      (* the types enabled by the options of "ensureWith"          *)
  BadTypes,     (* types registered with options NewGoroutinePool refuses    *)
  MaxRetries,   (* options.MaxRetries of every pool                          *)
  None

Calls == {"register", "initialize", "ensure", "ensureWith", "submit", "spawn", "shutdown"}

ASSUME CallersAssumption ==
  /\ IsFiniteSet(Callers) /\ None \notin Callers
  /\ Call \in [Callers -> Calls]

ASSUME TypesAssumption ==
  /\ {DefaultPool, IOPool} \cup Options \cup BadTypes \subseteq Types
  /\ MaxRetries \in Nat

VARIABLES
  isInitialized, isShutdown,
  configs,      (* of each type: absent, or enabled with good or bad options *)
  pools,        (* the registry: of each type, the caller that created it    *)
  phase,        (* of each pool ever created                                 *)
  pc, got,      (* where a caller is, and the pool it has looked up          *)
  attempts,     (* failed attempts of the task that a caller submitted       *)
  closing,      (* of each closer, its goroutine for each pool it copied     *)
  totalSubmitted, totalCompleted, totalFailed

registryVars == <<isInitialized, isShutdown, configs, pools>>
totals == <<totalSubmitted, totalCompleted, totalFailed>>
vars == <<registryVars, phase, pc, got, attempts, closing, totals>>

Ensures(c) == Call[c] \in {"ensure", "ensureWith", "submit"}
Creators == {c \in Callers : Ensures(c) \/ Call[c] = "initialize"}
Closers == {c \in Callers : Call[c] = "shutdown"}
PoolIds == Types \X Creators
NoPools == [ty \in Types |-> None]

Config == {"none", "enabled", "bad"}
Phase == {"absent", "open", "closed", "terminated"}
Helper == {"none", "starting", "waiting", "ok", "timeout"}

(* "unready": saw isInitialized false; "permitted": saw isShutdown false;  *)
(* "ready": about to look its pool up; "holding": has the pool.            *)
Location == {"idle", "unready", "permitted", "ready", "holding", "accepted", "refused",
             "done", "failed", "closing", "ok", "error"}

TypeOK ==
  /\ isInitialized \in BOOLEAN /\ isShutdown \in BOOLEAN
  /\ configs \in [Types -> Config]
  /\ pools \in [Types -> Creators \cup {None}]
  /\ phase \in [PoolIds -> Phase]
  /\ pc \in [Callers -> Location]
  /\ got \in [Callers -> PoolIds \cup {None}]
  /\ attempts \in [Callers -> 0 .. MaxRetries]
  /\ closing \in [Closers -> [PoolIds -> Helper]]
  /\ totalSubmitted \in Nat /\ totalCompleted \in Nat /\ totalFailed \in Nat

(* applyOptionsLocked replaces every configuration. *)
Applied(enabled) == [ty \in Types |-> IF ty \in enabled THEN "enabled" ELSE "none"]

(* GetPoolManager starts without configurations, NewPoolManager with those *)
(* of its options.                                                         *)
Init ==
  /\ isInitialized = FALSE /\ isShutdown = FALSE
  /\ configs \in {Applied({}), Applied(Options)}
  /\ pools = NoPools
  /\ phase = [p \in PoolIds |-> "absent"]
  /\ pc = [c \in Callers |-> "idle"]
  /\ got = [c \in Callers |-> None]
  /\ attempts = [c \in Callers |-> 0]
  /\ closing = [c \in Closers |-> [p \in PoolIds |-> "none"]]
  /\ totalSubmitted = 0 /\ totalCompleted = 0 /\ totalFailed = 0

Goto(c, from, to) == pc[c] = from /\ pc' = [pc EXCEPT ![c] = to]

-----------------------------------------------------------------------------
(* Configuration and initialisation. *)

RegisterPool(c, ty) ==
  /\ Call[c] = "register"
  /\ \/ /\ isShutdown
        /\ Goto(c, "idle", "error")
        /\ UNCHANGED configs
     \/ /\ ~isShutdown
        /\ Goto(c, "idle", "ok")
        /\ configs' = [configs EXCEPT ![ty] = IF ty \in BadTypes THEN "bad" ELSE "enabled"]
  /\ UNCHANGED <<isInitialized, isShutdown, pools, phase, got, attempts, closing, totals>>

Ensured(c) == IF Call[c] = "submit" THEN "ready" ELSE "ok"

InitializeRegistersFirst(c, conf) ==
  LET enabled == {ty \in Types : conf[ty] = "enabled"}
      refused == {ty \in Types : conf[ty] = "bad"}
  IN  \E started \in SUBSET enabled :
        /\ refused = {} => started = enabled
        /\ phase' = [p \in PoolIds |-> IF p[1] \in started /\ p[2] = c THEN "open" ELSE phase[p]]
        /\ pools' = [ty \in Types |-> IF ty \in enabled \cup refused THEN c ELSE pools[ty]]
        /\ isInitialized' = (refused = {})
        /\ pc' = [pc EXCEPT ![c] = IF refused = {} THEN Ensured(c) ELSE "error"]

(* initializeEnabledPoolsLocked walks the configurations in the order of a *)
(* Go map and stops at the first one that is refused: some of the others   *)
(* have been started and registered by then.                               *)
InitializePools(c, conf) ==
  LET enabled == {ty \in Types : conf[ty] = "enabled"}
      refused == {ty \in Types : conf[ty] = "bad"}
  IN  \E started \in SUBSET enabled :
        /\ refused = {} => started = enabled
        /\ phase' = [p \in PoolIds |-> IF p[1] \in started /\ p[2] = c THEN "open" ELSE phase[p]]
        /\ pools' = [ty \in Types |-> IF ty \in started THEN c ELSE pools[ty]]
        /\ isInitialized' = (refused = {})
        /\ pc' = [pc EXCEPT ![c] = IF refused = {} THEN Ensured(c) ELSE "error"]

Initialize(c) ==
  /\ Call[c] = "initialize"
  /\ \/ /\ isInitialized \/ isShutdown
        /\ Goto(c, "idle", "error")
        /\ UNCHANGED <<isInitialized, pools, phase>>
     \/ /\ ~isInitialized /\ ~isShutdown
        /\ pc[c] = "idle"
        /\ InitializePools(c, configs)
  /\ UNCHANGED <<isShutdown, configs, got, attempts, closing, totals>>

EnsureTestsInitialized(c) ==
  /\ Ensures(c)
  /\ Goto(c, "idle", IF isInitialized THEN Ensured(c) ELSE "unready")
  /\ UNCHANGED <<registryVars, phase, got, attempts, closing, totals>>

EnsureTestsShutdown(c) ==
  /\ Goto(c, "unready", IF isShutdown THEN "error" ELSE "permitted")
  /\ UNCHANGED <<registryVars, phase, got, attempts, closing, totals>>

EnsureUnchecked(c) ==
  /\ pc[c] = "permitted"
  /\ InitializePools(c, configs)
  /\ UNCHANGED <<isShutdown, configs, got, attempts, closing, totals>>

(* Under the lock isInitialized is tested again, isShutdown is not. *)
EnsureLocked(c) ==
  /\ pc[c] = "permitted"
  /\ \/ /\ isInitialized
        /\ pc' = [pc EXCEPT ![c] = Ensured(c)]
        /\ UNCHANGED <<isInitialized, configs, pools, phase>>
     \/ /\ ~isInitialized
        /\ configs' = CASE Call[c] = "ensureWith"     -> Applied(Options)
                        [] Call[c] # "ensureWith" /\ configs = Applied({}) -> Applied({DefaultPool})
                        [] Call[c] # "ensureWith" /\ configs # Applied({}) -> configs
        /\ InitializePools(c, configs')
  /\ UNCHANGED <<isShutdown, got, attempts, closing, totals>>

-----------------------------------------------------------------------------
(* Submission: the script's submit uses the default pool itself, Submit of *)
(* the manager the IO pool and a wrapper that counts.                      *)

PoolTypeOf(c) == IF Call[c] = "submit" THEN DefaultPool ELSE IOPool

GetPool(c) ==
  /\ pc[c] = IF Call[c] = "submit" THEN "ready" ELSE "idle"
  /\ Call[c] \in {"submit", "spawn"}
  /\ LET ty == PoolTypeOf(c) IN
       \/ /\ ~isInitialized \/ pools[ty] = None
          /\ pc' = [pc EXCEPT ![c] = "error"]
          /\ UNCHANGED got
       \/ /\ isInitialized /\ pools[ty] # None
          /\ pc' = [pc EXCEPT ![c] = "holding"]
          /\ got' = [got EXCEPT ![c] = <<ty, pools[ty]>>]
  /\ UNCHANGED <<registryVars, phase, attempts, closing, totals>>

(* The pool may refuse for a full queue too. *)
PoolSubmit(c) ==
  /\ pc[c] = "holding"
  /\ \/ phase[got[c]] = "open" /\ pc' = [pc EXCEPT ![c] = "accepted"]
     \/ pc' = [pc EXCEPT ![c] = "refused"]
  /\ UNCHANGED <<registryVars, phase, got, attempts, closing, totals>>

CountAttempt(c) ==
  totalSubmitted' = totalSubmitted + (IF Call[c] = "spawn" THEN 1 ELSE 0)

TaskSucceeds(c) ==
  /\ Goto(c, "accepted", "done")
  /\ CountAttempt(c)
  /\ totalCompleted' = totalCompleted + 1
  /\ UNCHANGED <<registryVars, phase, got, attempts, closing, totalFailed>>

TaskFailsOnceMore(c) ==
  /\ pc[c] = "accepted"
  /\ CountAttempt(c)
  /\ attempts' = [attempts EXCEPT ![c] = @ + 1]
  /\ pc' = [pc EXCEPT ![c] = IF attempts[c] > MaxRetries THEN "failed" ELSE @]
  /\ UNCHANGED <<registryVars, phase, got, closing, totalCompleted, totalFailed>>


TaskFails(c) ==
  /\ pc[c] = "accepted"
  /\ CountAttempt(c)
  /\ \/ /\ attempts[c] < MaxRetries
        /\ attempts' = [attempts EXCEPT ![c] = @ + 1]
        /\ UNCHANGED <<pc, totalFailed>>
     \/ /\ attempts[c] = MaxRetries
        /\ pc' = [pc EXCEPT ![c] = "failed"]
        /\ totalFailed' = totalFailed + 1
        /\ UNCHANGED attempts
  /\ UNCHANGED <<registryVars, phase, got, closing, totalCompleted>>

-----------------------------------------------------------------------------
(* Shutdown. *)

Registered == {<<ty, pools[ty]>> : ty \in {t \in Types : pools[t] # None}}

ShutdownUnflagged(c) ==
  /\ pc[c] = "idle" /\ isInitialized
  /\ pc' = [pc EXCEPT ![c] = "closing"]
  /\ closing' = [closing EXCEPT ![c] = [p \in PoolIds |-> IF p \in Registered THEN "starting" ELSE "none"]]
  /\ UNCHANGED <<registryVars, phase, got, attempts, totals>>

Shutdown(c) ==
  /\ \/ /\ isShutdown
        /\ Goto(c, "idle", "error")
        /\ UNCHANGED <<isShutdown, closing>>
     \/ /\ ~isShutdown /\ ~isInitialized
        /\ isShutdown' = TRUE
        /\ Goto(c, "idle", "ok")
        /\ UNCHANGED closing
     \/ /\ ~isShutdown /\ isInitialized
        /\ isShutdown' = TRUE
        /\ Goto(c, "idle", "closing")
        /\ closing' = [closing EXCEPT ![c] =
                         [p \in PoolIds |-> IF p \in Registered THEN "starting" ELSE "none"]]
  /\ UNCHANGED <<isInitialized, configs, pools, phase, got, attempts, totals>>

(* One goroutine per copied pool: it closes the pool, then waits. *)
PoolCloses(c, p) ==
  /\ closing[c][p] = "starting"
  /\ phase' = [phase EXCEPT ![p] = "closed"]
  /\ closing' = [closing EXCEPT ![c][p] = "waiting"]
  /\ UNCHANGED <<registryVars, pc, got, attempts, totals>>

(* What the pool promises: it is down when all it accepted is settled. *)
PoolTerminates(p) ==
  /\ phase[p] = "closed"
  /\ \A c \in Callers : ~(pc[c] = "accepted" /\ got[c] = p)
  /\ phase' = [phase EXCEPT ![p] = "terminated"]
  /\ UNCHANGED <<registryVars, pc, got, attempts, closing, totals>>

PoolShutdownReturns(c, p) ==
  /\ closing[c][p] = "waiting"
  /\ \/ phase[p] = "terminated" /\ closing' = [closing EXCEPT ![c][p] = "ok"]
     \/ closing' = [closing EXCEPT ![c][p] = "timeout"]
  /\ UNCHANGED <<registryVars, phase, pc, got, attempts, totals>>

ShutdownForgetsWait(c) ==
  /\ pc[c] = "closing"
  /\ \A p \in PoolIds : closing[c][p] # "timeout"
  /\ pc' = [pc EXCEPT ![c] = "ok"]
  /\ pools' = NoPools
  /\ UNCHANGED <<isInitialized, isShutdown, configs, phase, got, attempts, closing, totals>>

ShutdownMissesDone(c) ==
  /\ pc[c] = "closing"
  /\ \A p \in PoolIds : closing[c][p] \in {"none", "ok"}
  /\ pc' = [pc EXCEPT ![c] = "ok"]
  /\ pools' = NoPools
  /\ UNCHANGED <<isInitialized, isShutdown, configs, phase, got, attempts, closing, totals>>

(* wg.Wait has returned.  The registry is emptied unless a pool timed out. *)
ShutdownReturns(c) ==
  /\ pc[c] = "closing"
  /\ \A p \in PoolIds : closing[c][p] \notin {"starting", "waiting"}
  /\ \/ /\ \E p \in PoolIds : closing[c][p] = "timeout"
        /\ pc' = [pc EXCEPT ![c] = "error"]
        /\ UNCHANGED pools
     \/ /\ \A p \in PoolIds : closing[c][p] # "timeout"
        /\ pc' = [pc EXCEPT ![c] = "ok"]
        /\ pools' = NoPools
  /\ UNCHANGED <<isInitialized, isShutdown, configs, phase, got, attempts, closing, totals>>

-----------------------------------------------------------------------------
CallStep(c) ==
  \/ Initialize(c)
  \/ EnsureTestsInitialized(c) \/ EnsureTestsShutdown(c) \/ EnsureLocked(c)
  \/ GetPool(c) \/ PoolSubmit(c) \/ TaskSucceeds(c) \/ TaskFails(c)
  \/ c \in Closers /\ (Shutdown(c) \/ ShutdownReturns(c))

CloseStep(c, p) == PoolCloses(c, p) \/ PoolShutdownReturns(c, p)

Next ==
  \/ \E c \in Callers : CallStep(c) \/ \E ty \in Types : RegisterPool(c, ty)
  \/ \E p \in PoolIds : PoolTerminates(p) \/ \E c \in Closers : CloseStep(c, p)

(* A call once made runs on, a task function returns, and a pool settles   *)
(* what it accepted (AcceptedSettles of GoroutinePool).  Every call is a   *)
(* bounded number of steps, so that none is starved by the others.         *)
Fairness ==
  /\ WF_vars(\E c \in Callers : pc[c] # "idle" /\ CallStep(c))
  /\ WF_vars(\E p \in PoolIds : PoolTerminates(p))
  /\ WF_vars(\E c \in Closers : \E p \in PoolIds : CloseStep(c, p))

Spec == Init /\ [][Next]_vars /\ Fairness

-----------------------------------------------------------------------------
(* Properties. *)

(* Whoever wins among Initialize, the two Ensure calls and a script's      *)
(* submit, the registry is filled once: a pool that a caller has looked up *)
(* is never replaced by a second one, the shutdown only empties it.        *)
OneInitialization ==
  [][isInitialized => isInitialized' /\ pools' \in {pools, NoPools}]_vars

(* A registered pool takes tasks until a shutdown begins, whatever failed  *)
(* or repeated initialisation came before.                                 *)
RegistryOpen ==
  \A ty \in Types : pools[ty] # None /\ ~isShutdown => phase[<<ty, pools[ty]>>] = "open"

(* Two closers never reach the same pool: its channel is closed once, so   *)
(* that GoroutinePool.ShutdownWithTimeout does not fail or panic.          *)
ClosedOnce ==
  \A c \in Closers : \A p \in PoolIds : closing[c][p] = "starting" => phase[p] = "open"

(* A pool is open until one shutdown closes it, and only one.              *)
OpenUntilClosed == RegistryOpen /\ ClosedOnce

(* A nil error of a shutdown that found pools: they are down and owe       *)
(* nobody a result (TestPoolManagerShutdown waits for this).               *)
ShutdownWaits ==
  \A c \in Closers : pc[c] = "ok" =>
    \A p \in PoolIds : closing[c][p] # "none" =>
      /\ phase[p] = "terminated"
      /\ \A d \in Callers : got[d] = p => pc[d] # "accepted"

(* In the end a shutdown has returned, by success or by its timeout, and   *)
(* every accepted task is settled, also when its pool was closed under it. *)
AllReturned == \A c \in Callers : pc[c] \notin {"closing", "accepted", "permitted", "holding"}

(* "Shutdown: gracefully close all pools", "pool manager is shutdown": a   *)
(* nil error means that no pool of the manager runs, now or later.         *)
ShutdownIsFinal ==
  (\E c \in Closers : pc[c] = "ok")
    => \A p \in PoolIds : phase[p] \in {"absent", "terminated"}

(* The pools that were started are open until a shutdown has begun, each   *)
(* is closed by one shutdown, and a shutdown that returns nil has waited.  *)
PoolsKept == ShutdownWaits /\ OpenUntilClosed

-----------------------------------------------------------------------------
(* The inductive invariant behind PoolsKept: who may be where; pools of a  *)
(* creator exist only once it has initialised; pools are closed by one     *)
(* caller, after isShutdown is set; a pool that is down owes nothing.      *)
RolesInv ==
  \A c \in Callers :
    /\ pc[c] \in {"unready", "permitted"} => Ensures(c)
    /\ c \in Closers => pc[c] \in {"idle", "closing", "ok", "error"}

CreationInv ==
  \A c \in Creators :
    pc[c] \in {"idle", "unready", "permitted"} => \A ty \in Types : phase[<<ty, c>>] = "absent"

ClosingInv ==
  \A c \in Closers : \A p \in PoolIds :
    /\ closing[c][p] # "none" => isShutdown /\ pc[c] # "idle"
    /\ closing[c][p] = "ok" => phase[p] = "terminated"
    /\ \A d \in Closers, q \in PoolIds :
         closing[c][p] # "none" /\ closing[d][q] # "none" => c = d

OwesNothing ==
  \A p \in PoolIds : phase[p] = "terminated" =>
    \A d \in Callers : got[d] = p => pc[d] # "accepted"

ManagerInv == RolesInv /\ CreationInv /\ ClosingInv /\ OwesNothing /\ PoolsKept
=============================================================================
