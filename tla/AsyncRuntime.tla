---------------------------- MODULE AsyncRuntime ----------------------------
(***************************************************************************)
(* Async functions of ialang (runtime/async.go): Spawn runs a function on  *)
(* the manager's IO pool or on a goroutine, with or without a timeout, and *)
(* AwaitValue waits for the promise that Spawn returned.                   *)
(*                                                                         *)
(* The IO pool appears as module GoroutinePool shows it: a queue of        *)
(* QueueSize entries that blocks when full, Workers workers, MaxRetries    *)
(* further attempts of a function that returned an error.  A send that the *)
(* close of the pool finds blocked panics and ends the process.            *)
(***************************************************************************)
EXTENDS Integers, FiniteSets

CONSTANTS
  Tasks,          (* the async calls of the script                           *)
  Hanging,        (* those whose function never returns                      *)
  Workers, QueueSize, MaxRetries,
  TaskTimeout, AwaitTimeout,    (* calls made with a runtime whose options   *)
                                (* set these                                 *)
  MaxAwaits                     (* bound: awaits of one promise              *)

VARIABLES
  isInitialized, isShutdown,     (* of the pool manager                      *)
  ioPool,                        (* the IO pool and its place in the registry*)
  usePool,                       (* what Spawn read of the manager           *)
  where,                         (* where the function of a task is          *)
  runs,                          (* executions of it that were begun         *)
  outcome,                       (* what the function, or the pool, returned *)
  promise,                       (* the value Spawn returned                 *)
  awaits, awaiting,              (* awaits that were made; one in progress   *)
  answers                        (* what awaits returned                     *)

managerVars == <<isInitialized, isShutdown, ioPool>>
awaitVars == <<awaits, awaiting, answers>>
vars == <<managerVars, usePool, where, runs, outcome, promise, awaitVars>>

Where == {"idle", "decided", "sending", "queued", "working", "goroutine", "finished", "panicked"}
Outcome == {"value", "error", "shutdown"}
Answer == Outcome \cup {"missing", "timeout"}

TypeOK ==
  /\ isInitialized \in BOOLEAN /\ isShutdown \in BOOLEAN
  /\ ioPool \in {"absent", "open", "closed", "unregistered"}
  /\ usePool \in [Tasks -> BOOLEAN]
  /\ where \in [Tasks -> Where]
  /\ runs \in [Tasks -> 0 .. MaxRetries + 1]
  /\ outcome \in [Tasks -> Outcome \cup {"none"}]
  /\ promise \in [Tasks -> Answer \cup {"pending"}]
  /\ awaits \in [Tasks -> 0 .. MaxAwaits] /\ awaiting \in [Tasks -> BOOLEAN]
  /\ answers \in [Tasks -> SUBSET (Answer \cup {"awaitTimeout"})]

(* "run" enables the IO pool, a packaged program only the default pool, an *)
(* embedding program may leave the manager alone.                          *)
Init ==
  /\ \/ isInitialized = TRUE /\ ioPool \in {"open", "absent"}
     \/ isInitialized = FALSE /\ ioPool = "absent"
  /\ isShutdown = FALSE
  /\ usePool = [t \in Tasks |-> FALSE]
  /\ where = [t \in Tasks |-> "idle"]
  /\ runs = [t \in Tasks |-> 0]
  /\ outcome = [t \in Tasks |-> "none"]
  /\ promise = [t \in Tasks |-> "pending"]
  /\ awaits = [t \in Tasks |-> 0] /\ awaiting = [t \in Tasks |-> FALSE]
  /\ answers = [t \in Tasks |-> {}]

At(place) == {t \in Tasks : where[t] = place}
Crashed == At("panicked") # {}

-----------------------------------------------------------------------------
(* The manager: a script's pool module may initialise it with its default  *)
(* options, and shut it down.                                              *)

EnsureInitialized ==
  /\ ~isInitialized /\ ~isShutdown
  /\ isInitialized' = TRUE
  /\ UNCHANGED <<isShutdown, ioPool, usePool, where, runs, outcome, promise, awaitVars>>

ManagerShutdown ==
  /\ ~isShutdown
  /\ isShutdown' = TRUE
  /\ UNCHANGED <<isInitialized, ioPool, usePool, where, runs, outcome, promise, awaitVars>>

ClosePool ==
  /\ isShutdown /\ ioPool = "open"
  /\ ioPool' = "closed"
  /\ where' = [t \in Tasks |-> IF where[t] = "sending" THEN "panicked" ELSE where[t]]
  /\ UNCHANGED <<isInitialized, isShutdown, usePool, runs, outcome, promise, awaitVars>>

ClearRegistry ==
  /\ ioPool = "closed"
  /\ At("queued") \cup At("working") = {}
  /\ ioPool' = "unregistered"
  /\ UNCHANGED <<isInitialized, isShutdown, usePool, where, runs, outcome, promise, awaitVars>>

-----------------------------------------------------------------------------
(* Spawn. *)

(* Without a timeout the pool's task is the promise. *)
Finish(t, result) ==
  /\ where' = [where EXCEPT ![t] = "finished"]
  /\ outcome' = [outcome EXCEPT ![t] = result]
  /\ promise' = IF t \in TaskTimeout THEN promise ELSE [promise EXCEPT ![t] = result]

Begin(t, place) ==
  /\ where' = [where EXCEPT ![t] = place]
  /\ runs' = [runs EXCEPT ![t] = @ + 1]

SpawnDecides(t) ==
  /\ where[t] = "idle"
  /\ usePool' = [usePool EXCEPT ![t] = isInitialized /\ ~isShutdown]
  /\ where' = [where EXCEPT ![t] = "decided"]
  /\ UNCHANGED <<managerVars, runs, outcome, promise, awaitVars>>

SpawnOnGoroutine(t) ==
  /\ where[t] = "decided" /\ ~usePool[t]
  /\ Begin(t, "goroutine")
  /\ UNCHANGED <<managerVars, usePool, outcome, promise, awaitVars>>

(* GetPool fails: with a timeout that is the answer, without one Spawn     *)
(* falls back to a goroutine.                                              *)
SubmitMissesPool(t) ==
  /\ where[t] = "decided" /\ usePool[t] /\ ioPool \in {"absent", "unregistered"}
  /\ \/ /\ t \in TaskTimeout
        /\ where' = [where EXCEPT ![t] = "finished"]
        /\ promise' = [promise EXCEPT ![t] = "missing"]
        /\ UNCHANGED runs
     \/ /\ t \notin TaskTimeout
        /\ Begin(t, "goroutine")
        /\ UNCHANGED promise
  /\ UNCHANGED <<managerVars, usePool, outcome, awaitVars>>

SubmitRefusedSilently(t) ==
  /\ where[t] = "decided" /\ usePool[t] /\ ioPool = "closed"
  /\ where' = [where EXCEPT ![t] = "finished"]
  /\ outcome' = [outcome EXCEPT ![t] = "shutdown"]
  /\ UNCHANGED <<managerVars, usePool, runs, promise, awaitVars>>

(* A pool that is closed returns a task that is done, with an error. *)
SubmitRefused(t) ==
  /\ where[t] = "decided" /\ usePool[t] /\ ioPool = "closed"
  /\ Finish(t, "shutdown")
  /\ UNCHANGED <<managerVars, usePool, runs, awaitVars>>

SubmitSends(t) ==
  /\ where[t] = "decided" /\ usePool[t] /\ ioPool = "open"
  /\ where' = [where EXCEPT ![t] = "sending"]
  /\ UNCHANGED <<managerVars, usePool, runs, outcome, promise, awaitVars>>

Enqueue(t) ==
  /\ where[t] = "sending"
  /\ Cardinality(At("queued")) < QueueSize
  /\ where' = [where EXCEPT ![t] = "queued"]
  /\ UNCHANGED <<managerVars, usePool, runs, outcome, promise, awaitVars>>

-----------------------------------------------------------------------------
(* Execution. *)

WorkerReceivesOpen(t) ==
  /\ where[t] = "queued" /\ ioPool = "open"
  /\ Cardinality(At("working")) < Workers
  /\ Begin(t, "working")
  /\ UNCHANGED <<managerVars, usePool, outcome, promise, awaitVars>>

WorkerReceives(t) ==
  /\ where[t] = "queued"
  /\ Cardinality(At("working")) < Workers
  /\ Begin(t, "working")
  /\ UNCHANGED <<managerVars, usePool, outcome, promise, awaitVars>>

GoroutineReturns(t) ==
  /\ where[t] = "goroutine" /\ t \notin Hanging
  /\ \E result \in {"value", "error"} : Finish(t, result)
  /\ UNCHANGED <<managerVars, usePool, runs, awaitVars>>

WorkerSucceeds(t) ==
  /\ where[t] = "working" /\ t \notin Hanging
  /\ Finish(t, "value")
  /\ UNCHANGED <<managerVars, usePool, runs, awaitVars>>

WorkerRetriesOnceMore(t) ==
  /\ where[t] = "working" /\ t \notin Hanging
  /\ \/ runs[t] <= MaxRetries + 1 /\ Begin(t, "working") /\ UNCHANGED <<outcome, promise>>
     \/ runs[t] > MaxRetries + 1 /\ Finish(t, "error") /\ UNCHANGED runs
  /\ UNCHANGED <<managerVars, usePool, awaitVars>>

WorkerReportsFirst(t) ==
  /\ where[t] = "working" /\ t \notin Hanging
  /\ \/ /\ runs[t] <= MaxRetries
        /\ runs' = [runs EXCEPT ![t] = @ + 1]
        /\ promise' = [promise EXCEPT ![t] = "error"]
        /\ UNCHANGED <<where, outcome>>
     \/ runs[t] > MaxRetries /\ Finish(t, "error") /\ UNCHANGED runs
  /\ UNCHANGED <<managerVars, usePool, awaitVars>>

WorkerFails(t) ==
  /\ where[t] = "working" /\ t \notin Hanging
  /\ \/ runs[t] <= MaxRetries /\ Begin(t, "working") /\ UNCHANGED <<outcome, promise>>
     \/ runs[t] > MaxRetries /\ Finish(t, "error") /\ UNCHANGED runs
  /\ UNCHANGED <<managerVars, usePool, awaitVars>>

-----------------------------------------------------------------------------
(* The goroutine that Spawn with a timeout starts.  Its clock starts when  *)
(* the submission has returned.                                            *)

TimedAnswer(t) ==
  /\ t \in TaskTimeout
  /\ promise[t] = "pending" /\ outcome[t] # "none"
  /\ promise' = [promise EXCEPT ![t] = outcome[t]]
  /\ UNCHANGED <<managerVars, usePool, where, runs, outcome, awaitVars>>

TimedOutAfterAnswer(t) ==
  /\ t \in TaskTimeout
  /\ promise[t] # "timeout"
  /\ where[t] \in {"queued", "working", "goroutine", "finished"}
  /\ promise' = [promise EXCEPT ![t] = "timeout"]
  /\ UNCHANGED <<managerVars, usePool, where, runs, outcome, awaitVars>>

TimedOut(t) ==
  /\ t \in TaskTimeout
  /\ promise[t] = "pending"
  /\ where[t] \in {"queued", "working", "goroutine", "finished"}
  /\ promise' = [promise EXCEPT ![t] = "timeout"]
  /\ UNCHANGED <<managerVars, usePool, where, runs, outcome, awaitVars>>

-----------------------------------------------------------------------------
(* AwaitValue.  Spawn has returned: with a timeout at once, without one    *)
(* when the submission did.                                                *)

Await(t) ==
  /\ where[t] # "idle"
  /\ t \in TaskTimeout \/ where[t] \notin {"decided", "sending"}
  /\ ~awaiting[t] /\ awaits[t] < MaxAwaits
  /\ awaits' = [awaits EXCEPT ![t] = @ + 1]
  /\ awaiting' = [awaiting EXCEPT ![t] = TRUE]
  /\ UNCHANGED <<managerVars, usePool, where, runs, outcome, promise, answers>>

AwaitReturns(t) ==
  /\ awaiting[t] /\ promise[t] # "pending"
  /\ awaiting' = [awaiting EXCEPT ![t] = FALSE]
  /\ answers' = [answers EXCEPT ![t] = @ \cup {promise[t]}]
  /\ UNCHANGED <<managerVars, usePool, where, runs, outcome, promise, awaits>>

AwaitGivesUp(t) ==
  /\ t \in AwaitTimeout /\ awaiting[t]
  /\ awaiting' = [awaiting EXCEPT ![t] = FALSE]
  /\ answers' = [answers EXCEPT ![t] = @ \cup {"awaitTimeout"}]
  /\ UNCHANGED <<managerVars, usePool, where, runs, outcome, promise, awaits>>

-----------------------------------------------------------------------------
Spawn(t) ==
  \/ SpawnOnGoroutine(t) \/ SubmitMissesPool(t) \/ SubmitRefused(t) \/ SubmitSends(t) \/ Enqueue(t)

Execute(t) == WorkerReceives(t) \/ GoroutineReturns(t) \/ WorkerSucceeds(t) \/ WorkerFails(t)

Answering(t) == TimedAnswer(t) \/ TimedOut(t) \/ AwaitReturns(t) \/ AwaitGivesUp(t)

Run == ~Crashed /\ \E t \in Tasks : Spawn(t) \/ Execute(t) \/ Answering(t)

Next ==
  \/ Run
  \/ /\ ~Crashed
     /\ \/ EnsureInitialized \/ ManagerShutdown \/ ClosePool \/ ClearRegistry
        \/ \E t \in Tasks : SpawnDecides(t) \/ Await(t)

(* Goroutines run, functions outside Hanging return, timers fire: a call   *)
(* is a bounded number of steps, and so is an await.                       *)
Fairness == WF_vars(Run)

Spec == Init /\ [][Next]_vars /\ Fairness

-----------------------------------------------------------------------------
(* Properties. *)

(* Awaits of one promise agree, whatever timeouts, retries and shutdowns   *)
(* come between them: apart from awaits that gave up there is one answer.  *)
OneAnswer ==
  \A t \in Tasks : \A a, b \in answers[t] \ {"awaitTimeout"} : a = b

(* An answer is earned: a value by the last execution, an error by as many *)
(* executions as the place of execution allows, a refusal by none at all.  *)
AnswerEarned ==
  \A t \in Tasks :
    /\ "value" \in answers[t] => outcome[t] = "value" /\ runs[t] >= 1
    /\ "error" \in answers[t] =>
         outcome[t] = "error" /\ runs[t] \in {1, MaxRetries + 1}
    /\ answers[t] \cap {"shutdown", "missing"} # {} => runs[t] = 0

(* A function that was started has ended, also when its promise has timed  *)
(* out and when the pool was closed meanwhile, and none is in the queue.   *)
AcceptedRan == \A t \in Tasks \ Hanging : where[t] \notin {"queued", "working", "goroutine"}

(* Every await has returned. *)
AwaitsReturned == \A t \in Tasks : ~awaiting[t]

(* In the end, what began has ended: functions and awaits alike.           *)
WorkEnded == Crashed \/ (AcceptedRan /\ AwaitsReturned)

-----------------------------------------------------------------------------
(* The inductive invariant behind OneAnswer and AnswerEarned: a promise is *)
(* answered when its function is at its end, or by the timeout of Spawn,   *)
(* and never again; the executions that were begun tell where it is.       *)
AnsweredOnce(t) ==
  /\ answers[t] \subseteq {promise[t], "awaitTimeout"} \ {"pending"}
  /\ promise[t] \in Outcome => outcome[t] = promise[t]
  /\ promise[t] # "pending" /\ t \notin TaskTimeout => where[t] = "finished"
  /\ promise[t] # "pending" => where[t] \notin {"idle", "decided", "sending"}
  /\ outcome[t] # "none" \/ promise[t] = "missing" => where[t] = "finished"

Executed(t) ==
  /\ where[t] \in {"idle", "decided", "sending", "queued", "panicked"} => runs[t] = 0
  /\ where[t] = "goroutine" => runs[t] = 1
  /\ where[t] = "working" => runs[t] \in 1 .. MaxRetries + 1
  /\ outcome[t] = "value" => runs[t] >= 1
  /\ outcome[t] = "error" => runs[t] \in {1, MaxRetries + 1}
  /\ outcome[t] = "shutdown" \/ promise[t] = "missing" => runs[t] = 0

AsyncInv == \A t \in Tasks : AnsweredOnce(t) /\ Executed(t)
=============================================================================
