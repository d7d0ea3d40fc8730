-------------------------------- MODULE Timer --------------------------------
(***************************************************************************)
(* Module timer of ialang (builtin/timer.go).  A timer fires in a goroutine*)
(* of Go's or cron's, or in one of its own; callTimerCallback then hands   *)
(* the callback to the IO pool, or to a goroutine when the manager is not  *)
(* in use.  A firing is the pair of its timer and a number.                *)
(*                                                                         *)
(* The pool is what AsyncRuntime says of it.  A script sets MaxTimers of   *)
(* the timers, and each fires MaxTicks times at most.                      *)
(***************************************************************************)
EXTENDS Naturals, FiniteSets

CONSTANTS
  Timeouts, Intervals, Jobs, Loops,  (* calls of setTimeout, setInterval,    *)
                                     (* cron and every                       *)
  Managers,                          (* how the program sets up the manager  *)
  Workers, QueueSize, MaxRetries,
  MaxTicks, MaxTimers                (* bounds: firings of a timer, calls     *)

VARIABLES
  state,       (* of a timer                                                 *)
  table,       (* ids in the maps timers and intervals, entries of cron      *)
  issued,      (* timers whose id the script has                             *)
  closed,      (* intervals whose stopCh is closed                           *)
  ticks,       (* firings so far                                             *)
  place, runs, (* where a callback is, and how often it was started          *)
  manager,     (* the pool manager and its IO pool                           *)
  silenced     (* history: timers cleared before they fired                  *)

timerVars == <<state, table, issued, closed, silenced>>
vars == <<timerVars, ticks, place, runs, manager>>

Timers == Timeouts \cup Intervals \cup Jobs \cup Loops
Firings == Timers \X (0 .. MaxTicks)
Loop(t) == <<t, 0>>            (* the body of every, itself a task           *)
Place == {"none", "firing", "submitting", "sending", "queued", "working", "goroutine",
          "dropped", "done", "panicked"}

TypeOK ==
  /\ state \in [Timers -> {"idle", "armed", "over"}]
  /\ table \subseteq issued /\ issued \subseteq Timers \ Loops
  /\ ticks \in [Timers -> 0 .. MaxTicks]
  /\ place \in [Firings -> Place]
  /\ runs \in [Firings -> 0 .. MaxRetries + 1]
  /\ manager \in {"off", "bare", "open", "closing", "closed"}
  /\ closed \subseteq Intervals /\ silenced \subseteq issued

Init ==
  /\ state = [t \in Timers |-> "idle"]
  /\ table = {} /\ issued = {} /\ closed = {} /\ silenced = {}
  /\ ticks = [t \in Timers |-> 0]
  /\ place = [f \in Firings |-> "none"]
  /\ runs = [f \in Firings |-> 0]
  /\ manager \in Managers

At(p) == {f \in Firings : place[f] = p}
Crashed == At("panicked") # {}

-----------------------------------------------------------------------------
(* Calls of the script. *)

New(t) ==
  /\ state[t] = "idle"
  /\ Cardinality({u \in Timers : state[u] # "idle"}) < MaxTimers
  /\ state' = [state EXCEPT ![t] = "armed"]

(* AfterFunc runs before the table has the timer. *)
SetTimeout(t) ==
  /\ t \in Timeouts /\ New(t)
  /\ UNCHANGED <<table, issued, closed, silenced, ticks, place, runs, manager>>

(* Only clearTimeout takes it out again: one that fired stays. *)
SetTimeoutReturns(t) ==
  /\ t \in Timeouts /\ state[t] # "idle" /\ t \notin issued
  /\ table' = table \cup {t} /\ issued' = issued \cup {t}
  /\ UNCHANGED <<state, closed, silenced, ticks, place, runs, manager>>

StartRepeating(t) ==
  /\ t \in Intervals \cup Jobs /\ New(t)
  /\ table' = table \cup {t} /\ issued' = issued \cup {t}
  /\ UNCHANGED <<closed, silenced, ticks, place, runs, manager>>

(* every is a task of Spawn; on a manager without the pool, a goroutine.   *)
Every(t) ==
  /\ t \in Loops /\ New(t)
  /\ place' = [place EXCEPT ![Loop(t)] = IF manager = "open" THEN "sending" ELSE "goroutine"]
  /\ UNCHANGED <<table, issued, closed, silenced, ticks, runs, manager>>

Remove(t) ==
  /\ t \in table
  /\ table' = table \ {t}
  /\ silenced' = IF ticks[t] = 0 THEN silenced \cup {t} ELSE silenced

ClearTimeoutUnstopped(t) ==
  /\ t \in Timeouts /\ Remove(t)
  /\ UNCHANGED <<state, issued, closed, ticks, place, runs, manager>>

ClearTimeoutKeepsEntry(t) ==
  /\ t \in Timeouts /\ t \in table
  /\ state' = [state EXCEPT ![t] = "over"]
  /\ UNCHANGED <<table, silenced, issued, closed, ticks, place, runs, manager>>

ClearTimeout(t) ==
  /\ t \in Timeouts /\ Remove(t)
  /\ state' = [state EXCEPT ![t] = "over"]
  /\ UNCHANGED <<issued, closed, ticks, place, runs, manager>>

(* A goroutine of setInterval or every hands over one callback at a time.  *)
Busy(t) ==
  /\ t \in Intervals \cup Loops
  /\ \E f \in Firings : f[1] = t /\ f # Loop(t) /\ place[f] \in {"firing", "submitting", "sending"}

ClearIntervalSignals(t) ==
  /\ t \in Intervals /\ Remove(t)
  /\ closed' = IF Busy(t) THEN closed ELSE closed \cup {t}
  /\ UNCHANGED <<state, issued, ticks, place, runs, manager>>

ClearInterval(t) ==
  /\ t \in Intervals /\ Remove(t)
  /\ closed' = closed \cup {t}
  /\ UNCHANGED <<state, issued, ticks, place, runs, manager>>

RemoveJob(t) ==
  /\ t \in Jobs /\ Remove(t)
  /\ state' = [state EXCEPT ![t] = "over"]
  /\ UNCHANGED <<issued, closed, ticks, place, runs, manager>>

-----------------------------------------------------------------------------
(* Firing. *)

CanFire(t) ==
  /\ state[t] = "armed" /\ ~Busy(t)
  /\ t \in Loops => place[Loop(t)] \in {"working", "goroutine"}

Fires(t) ==
  /\ CanFire(t) /\ ticks[t] < MaxTicks
  /\ ticks' = [ticks EXCEPT ![t] = @ + 1]
  /\ place' = [place EXCEPT ![<<t, ticks[t] + 1>>] = "firing"]
  /\ state' = IF t \in Timeouts THEN [state EXCEPT ![t] = "over"] ELSE state
  /\ UNCHANGED <<table, issued, closed, silenced, runs, manager>>

(* The other branch of the select: stopCh is closed. *)
IntervalEnds(t) ==
  /\ t \in Intervals /\ CanFire(t)
  /\ t \in closed
  /\ state' = [state EXCEPT ![t] = "over"]
  /\ UNCHANGED <<table, issued, closed, silenced, ticks, place, runs, manager>>

-----------------------------------------------------------------------------
(* callTimerCallback, whose result and error nobody looks at. *)

Move(f, p) == place' = [place EXCEPT ![f] = p]
Begin(f, p) == Move(f, p) /\ runs' = [runs EXCEPT ![f] = @ + 1]

ReadManager(f) ==
  /\ place[f] = "firing"
  /\ \/ manager \in {"bare", "open"} /\ Move(f, "submitting") /\ UNCHANGED runs
     \/ manager \notin {"bare", "open"} /\ Begin(f, "goroutine")
  /\ UNCHANGED <<timerVars, ticks, manager>>

SubmitCallback(f) ==
  /\ place[f] = "submitting"
  /\ Move(f, IF manager \in {"open", "closing"} THEN "sending" ELSE "dropped")
  /\ UNCHANGED <<timerVars, ticks, runs, manager>>

-----------------------------------------------------------------------------
(* The IO pool. *)

Enqueue(f) ==
  /\ place[f] = "sending" /\ Cardinality(At("queued")) < QueueSize
  /\ Move(f, "queued")
  /\ UNCHANGED <<timerVars, ticks, runs, manager>>

WorkerReceives(f) ==
  /\ place[f] = "queued" /\ Cardinality(At("working")) < Workers
  /\ Begin(f, "working")
  /\ UNCHANGED <<timerVars, ticks, manager>>

(* The loop of every does not return. *)
CallbackReturns(f) ==
  /\ place[f] \in {"working", "goroutine"} /\ f[2] # 0
  /\ Move(f, "done")
  /\ UNCHANGED <<timerVars, ticks, runs, manager>>

CallbackFailsOnceMore(f) ==
  /\ place[f] = "working" /\ f[2] # 0
  /\ runs[f] <= MaxRetries + 1
  /\ Begin(f, "working")
  /\ UNCHANGED <<timerVars, ticks, manager>>

(* The pool runs a callback that failed again; the last failure is a return*)
(* like any other.                                                         *)
CallbackFails(f) ==
  /\ place[f] = "working" /\ f[2] # 0
  /\ runs[f] <= MaxRetries
  /\ Begin(f, "working")
  /\ UNCHANGED <<timerVars, ticks, manager>>

ManagerShutdown ==
  /\ manager = "open" /\ manager' = "closing"
  /\ UNCHANGED <<timerVars, ticks, place, runs>>

(* The close of the channel reaches the senders it finds. *)
ClosePool ==
  /\ manager = "closing" /\ manager' = "closed"
  /\ place' = [f \in Firings |-> IF place[f] = "sending" THEN "panicked" ELSE place[f]]
  /\ UNCHANGED <<timerVars, ticks, runs>>

-----------------------------------------------------------------------------
Script(t) ==
  \/ SetTimeout(t) \/ SetTimeoutReturns(t) \/ StartRepeating(t) \/ Every(t)
  \/ ClearTimeout(t) \/ ClearInterval(t) \/ RemoveJob(t)

Callback(f) == ReadManager(f) \/ SubmitCallback(f) \/ Enqueue(f) \/ WorkerReceives(f)

Run ==
  /\ ~Crashed
  /\ \/ \E t \in Timers : Fires(t) \/ IntervalEnds(t)
     \/ \E f \in Firings : Callback(f) \/ CallbackReturns(f) \/ CallbackFails(f)

Next ==
  \/ Run
  \/ ~Crashed /\ (ManagerShutdown \/ ClosePool \/ \E t \in Timers : Script(t))

(* Clocks tick, goroutines and workers run, callbacks return, and a select *)
(* whose cases stay ready takes each of them in the end: with MaxTicks,    *)
(* the steps are finitely many.                                            *)
Spec == Init /\ [][Next]_vars /\ WF_vars(Run)

-----------------------------------------------------------------------------
(* Properties. *)

(* A timeout or a cron job that was cleared before it fired never runs its *)
(* callback, not even from a queue.                                        *)
ClearedNeverRuns ==
  \A t \in silenced \ Intervals : \A n \in 1 .. MaxTicks : runs[<<t, n>>] = 0

(* The goroutine of an interval whose id was cleared has ended, also when  *)
(* it was about to hand a callback to a pool that is full or being closed. *)
IntervalsEnded == \A t \in Intervals : t \in issued \ table => state[t] = "over"

(* A timer that was left alone has fired, and what fired is at its end.    *)
FiringsEnded ==
  \A t \in Timers \ Loops :
    /\ state[t] # "idle" => ticks[t] >= 1 \/ t \notin table
    /\ \A n \in 1 .. MaxTicks : place[<<t, n>>] \in {"none", "done", "dropped"}

(* In the end, no timer, firing or goroutine is left behind.               *)
TimersEnded == Crashed \/ (IntervalsEnded /\ FiringsEnded)

-----------------------------------------------------------------------------
(* The inductive invariant behind ClearedNeverRuns: what a timer has not   *)
(* fired or begun is nowhere, what waits has not run, and a timer that was *)
(* cleared unfired is over.                                                *)
FiringInv ==
  \A t \in Timers :
    /\ \A n \in 1 .. MaxTicks : n > ticks[t] => place[<<t, n>>] = "none"
    /\ state[t] = "idle" => place[Loop(t)] = "none"

WaitingInv ==
  \A f \in Firings :
    place[f] \in {"none", "firing", "submitting", "sending", "queued"} => runs[f] = 0

SilencedInv == \A t \in silenced \ Intervals : state[t] = "over" /\ ticks[t] = 0

TimerInv == FiringInv /\ WaitingInv /\ SilencedInv
=============================================================================
