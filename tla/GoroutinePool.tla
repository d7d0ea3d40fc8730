--------------------------- MODULE GoroutinePool ---------------------------
(***************************************************************************)
(* The goroutine pool of ialang (src/ialang/pkg/pool/pool.go): callers of  *)
(* SubmitWithRetry, the worker goroutines that drain a bounded channel,    *)
(* and callers of ShutdownWithTimeout, which closes that channel.          *)
(*                                                                         *)
(* One step is what a goroutine does between two points at which another   *)
(* goroutine can see its effect: a critical section of p.mu, one channel   *)
(* operation, one atomic counter, the end of a task function.              *)
(*                                                                         *)
(* A send on a closed channel, a blocked send whose channel is closed, and *)
(* a second close panic.  Nothing in the pool recovers, so the process is  *)
(* gone: no action is enabled once Crashed holds.                          *)
(***************************************************************************)
EXTENDS Integers, Sequences, FiniteSets

CONSTANTS
  Tasks,         (* the submissions; each one is made by a goroutine of its own *)
  Closers,       (* the goroutines that call ShutdownWithTimeout                *)
  MinWorkers, MaxWorkers, QueueSize, RejectPolicy,             (* PoolOptions   *)
  MaxRetries,    (* the maxRetries argument of each submission                  *)
  NoTask

ASSUME OptionsAssumption ==    \* what NewGoroutinePool validates
  /\ MinWorkers \in Nat
  /\ MaxWorkers \in Nat
  /\ MaxWorkers >= MinWorkers
  /\ QueueSize \in Nat \ {0}
  /\ RejectPolicy \in {"block", "discard", "error"}

ASSUME TasksAssumption ==
  /\ IsFiniteSet(Tasks)
  /\ NoTask \notin Tasks
  /\ MaxRetries \in [Tasks -> Int]

VARIABLES
  isStarted, isShutdown,
  chanClosed,    (* taskQueue has been closed                                   *)
  queue,         (* the buffer of taskQueue                                     *)
  sendq,         (* the goroutines parked in a send on taskQueue, oldest first  *)
  workerCount,   (* len(p.workers): worker goroutines 0 .. workerCount-1 exist  *)
  worker,        (* where each worker goroutine is                              *)
  held,          (* the task each worker has in hand                            *)
  submitter,     (* where the goroutine that submits each task is               *)
  taskErr,       (* task.Err                                                    *)
  retries,       (* task.Retries                                                *)
  done,          (* task.doneFlag, and task.wg released                         *)
  activeCount, completedCount, failedCount, rejectedCount,
  closer,        (* where each caller of ShutdownWithTimeout is                 *)
  helper         (* the goroutine each of them starts to wait for p.wg          *)

poolVars   == <<isStarted, isShutdown, chanClosed>>
chanVars   == <<queue, sendq>>
workerVars == <<workerCount, worker, held>>
taskVars   == <<taskErr, retries, done>>
countVars  == <<activeCount, completedCount, failedCount, rejectedCount>>
closeVars  == <<closer, helper>>
vars == <<poolVars, chanVars, workerVars, submitter, taskVars, countVars, closeVars>>

WorkerIds == 0 .. MaxWorkers - 1

(* "received": between the receive and activeCount++; "counted": between   *)
(* the completed or failed counter and markDone; "settled": in the         *)
(* callback that follows markDone, before activeCount--.                   *)
WorkerState == {"absent", "idle", "received", "running", "counted", "settled", "exited"}

(* "checked": past the isShutdown test; "sent": the task is in the channel *)
(* and ensureWorkers is next; "adding": ensureWorkers decided to add one.  *)
SubmitterState == {"idle", "checked", "blocked", "sent", "adding", "returned", "panicked"}

TaskErr == {"unset", "nil", "failed", "shutdown", "full", "discarded"}

CloserState == {"idle", "waiting", "ok", "timeout", "refused", "panicked"}
HelperState == {"none", "waiting", "sending", "gone"}

Crashed ==
  \/ \E t \in Tasks : submitter[t] = "panicked"
  \/ \E c \in Closers : closer[c] = "panicked"

TypeOK ==
  /\ isStarted \in BOOLEAN /\ isShutdown \in BOOLEAN /\ chanClosed \in BOOLEAN
  /\ queue \in Seq(Tasks) /\ Len(queue) <= QueueSize
  /\ sendq \in Seq(Tasks)
  /\ workerCount \in 0 .. MaxWorkers
  /\ worker \in [WorkerIds -> WorkerState]
  /\ held \in [WorkerIds -> Tasks \cup {NoTask}]
  /\ submitter \in [Tasks -> SubmitterState]
  /\ taskErr \in [Tasks -> TaskErr]
  /\ retries \in [Tasks -> Nat]
  /\ done \in [Tasks -> BOOLEAN]
  /\ activeCount \in Int /\ completedCount \in Nat
  /\ failedCount \in Nat /\ rejectedCount \in Nat
  /\ closer \in [Closers -> CloserState]
  /\ helper \in [Closers -> HelperState]

-----------------------------------------------------------------------------
(* What NewGoroutinePool leaves behind, the workers and isStarted apart. *)
Constructed ==
  /\ isShutdown = FALSE /\ chanClosed = FALSE
  /\ queue = <<>> /\ sendq = <<>>
  /\ held = [w \in WorkerIds |-> NoTask]
  /\ submitter = [t \in Tasks |-> "idle"]
  /\ taskErr = [t \in Tasks |-> "unset"]
  /\ retries = [t \in Tasks |-> 0]
  /\ done = [t \in Tasks |-> FALSE]
  /\ activeCount = 0 /\ completedCount = 0 /\ failedCount = 0 /\ rejectedCount = 0
  /\ closer = [c \in Closers |-> "idle"]
  /\ helper = [c \in Closers |-> "none"]

(* The exported constructor: the pool is not started. *)
Init ==
  /\ Constructed
  /\ isStarted = FALSE
  /\ workerCount = 0
  /\ worker = [w \in WorkerIds |-> "absent"]

(* The pool as every caller in the repository creates it: Start follows    *)
(* NewGoroutinePool before anything else can see the pool.                 *)
InitStarted ==
  /\ Constructed
  /\ isStarted = TRUE
  /\ workerCount = MinWorkers
  /\ worker = [w \in WorkerIds |-> IF w < MinWorkers THEN "idle" ELSE "absent"]

(* The worker table after n calls of addWorkerLocked: each call appends one *)
(* worker unless there are MaxWorkers already.                              *)
CountAfterAdding(n) == IF workerCount + n > MaxWorkers THEN MaxWorkers ELSE workerCount + n

(* Variant: addWorkerLocked without its MaxWorkers test. *)
AddWorkersUnbounded(n) ==
  /\ workerCount' = workerCount + n
  /\ worker' = [w \in WorkerIds |->
                  IF workerCount <= w /\ w < workerCount + n THEN "idle" ELSE worker[w]]
  /\ UNCHANGED held

AddWorkers(n) ==
  /\ workerCount' = CountAfterAdding(n)
  /\ worker' = [w \in WorkerIds |->
                  IF workerCount <= w /\ w < CountAfterAdding(n) THEN "idle" ELSE worker[w]]
  /\ UNCHANGED held

(* A second Start returns an error and changes nothing.  The first one     *)
(* clears isShutdown, whatever happened before.                            *)
Start ==
  /\ ~isStarted
  /\ AddWorkers(MinWorkers)
  /\ isStarted' = TRUE
  /\ isShutdown' = FALSE
  /\ UNCHANGED <<chanClosed, chanVars, submitter, taskVars, countVars, closeVars>>

-----------------------------------------------------------------------------
(* SubmitWithRetry.                                                        *)

Settle(t, err) ==
  /\ taskErr' = [taskErr EXCEPT ![t] = err]
  /\ done' = [done EXCEPT ![t] = TRUE]
  /\ UNCHANGED retries

(* The isShutdown test, the only part of a submission made under p.mu. *)
SubmitCheck(t) ==
  /\ submitter[t] = "idle"
  /\ \/ /\ isShutdown
        /\ Settle(t, "shutdown")
        /\ submitter' = [submitter EXCEPT ![t] = "returned"]
     \/ /\ ~isShutdown
        /\ submitter' = [submitter EXCEPT ![t] = "checked"]
        /\ UNCHANGED taskVars
  /\ UNCHANGED <<poolVars, chanVars, workerVars, countVars, closeVars>>

SendPanics(t) ==
  /\ submitter[t] = "checked"
  /\ chanClosed
  /\ submitter' = [submitter EXCEPT ![t] = "panicked"]
  /\ UNCHANGED <<poolVars, chanVars, workerVars, taskVars, countVars, closeVars>>

(* Variant: a queue that a close does not shut. *)
EnqueueAfterClose(t) ==
  /\ submitter[t] = "checked"
  /\ Len(queue) < QueueSize
  /\ queue' = Append(queue, t)
  /\ submitter' = [submitter EXCEPT ![t] = "sent"]
  /\ UNCHANGED <<poolVars, sendq, workerVars, taskVars, countVars, closeVars>>

Enqueue(t) ==
  /\ submitter[t] = "checked"
  /\ ~chanClosed /\ Len(queue) < QueueSize
  /\ queue' = Append(queue, t)
  /\ submitter' = [submitter EXCEPT ![t] = "sent"]
  /\ UNCHANGED <<poolVars, sendq, workerVars, taskVars, countVars, closeVars>>

QueueFull(t) == submitter[t] = "checked" /\ ~chanClosed /\ Len(queue) = QueueSize

(* Variant: a rejection that is not counted. *)
RejectUncounted(t) ==
  /\ QueueFull(t)
  /\ RejectPolicy # "block"
  /\ Settle(t, IF RejectPolicy = "error" THEN "full" ELSE "discarded")
  /\ submitter' = [submitter EXCEPT ![t] = "returned"]
  /\ UNCHANGED <<poolVars, chanVars, workerVars, countVars, closeVars>>

Reject(t) ==
  /\ QueueFull(t)
  /\ RejectPolicy # "block"
  /\ Settle(t, IF RejectPolicy = "error" THEN "full" ELSE "discarded")
  /\ rejectedCount' = rejectedCount + 1
  /\ submitter' = [submitter EXCEPT ![t] = "returned"]
  /\ UNCHANGED <<poolVars, chanVars, workerVars, activeCount, completedCount,
                 failedCount, closeVars>>

Block(t) ==
  /\ QueueFull(t)
  /\ RejectPolicy = "block"
  /\ sendq' = Append(sendq, t)
  /\ submitter' = [submitter EXCEPT ![t] = "blocked"]
  /\ UNCHANGED <<poolVars, queue, workerVars, taskVars, countVars, closeVars>>

(* ensureWorkers reads workerCount outside p.mu ... *)
EnsureWorkers(t) ==
  /\ submitter[t] = "sent"
  /\ submitter' = [submitter EXCEPT
                     ![t] = IF workerCount < MinWorkers THEN "adding" ELSE "returned"]
  /\ UNCHANGED <<poolVars, chanVars, workerVars, taskVars, countVars, closeVars>>

(* ... and addWorker adds one without looking at it, or isShutdown, again. *)
AddWorker(t) ==
  /\ submitter[t] = "adding"
  /\ AddWorkers(1)
  /\ submitter' = [submitter EXCEPT ![t] = "returned"]
  /\ UNCHANGED <<poolVars, chanVars, taskVars, countVars, closeVars>>

-----------------------------------------------------------------------------
(* Worker.start and Worker.executeTask.                                    *)

Goto(w, from, to) ==
  /\ worker[w] = from
  /\ worker' = [worker EXCEPT ![w] = to]
  /\ UNCHANGED workerCount

(* A receive takes the head of the buffer; when a sender is parked, the    *)
(* channel moves the oldest one's task into the freed slot and its Submit  *)
(* returns, without ensureWorkers.                                         *)
Receive(w) ==
  /\ Goto(w, "idle", "received")
  /\ queue # <<>>
  /\ held' = [held EXCEPT ![w] = Head(queue)]
  /\ IF sendq = <<>>
     THEN /\ queue' = Tail(queue)
          /\ UNCHANGED <<sendq, submitter>>
     ELSE /\ queue' = Append(Tail(queue), Head(sendq))
          /\ sendq' = Tail(sendq)
          /\ submitter' = [submitter EXCEPT ![Head(sendq)] = "returned"]
  /\ UNCHANGED <<poolVars, taskVars, countVars, closeVars>>

(* Variant: leave as soon as the pool is closed, buffered tasks or not. *)
ExitUndrained(w) ==
  /\ Goto(w, "idle", "exited")
  /\ chanClosed
  /\ UNCHANGED <<poolVars, chanVars, held, submitter, taskVars, countVars, closeVars>>

(* Variant: ignore !ok and loop. *)
ExitNever(w) ==
  /\ worker[w] = "idle" /\ chanClosed /\ queue = <<>>
  /\ UNCHANGED vars

(* A closed channel still yields what it buffers; only then !ok. *)
Exit(w) ==
  /\ Goto(w, "idle", "exited")
  /\ chanClosed /\ queue = <<>>
  /\ UNCHANGED <<poolVars, chanVars, held, submitter, taskVars, countVars, closeVars>>

Activate(w) ==
  /\ Goto(w, "received", "running")
  /\ activeCount' = activeCount + 1
  /\ UNCHANGED <<poolVars, chanVars, held, submitter, taskVars, completedCount,
                 failedCount, rejectedCount, closeVars>>

RunSucceeds(w) == LET t == held[w] IN
  /\ Goto(w, "running", "counted")
  /\ retries[t] <= MaxRetries[t]
  /\ taskErr' = [taskErr EXCEPT ![t] = "nil"]
  /\ completedCount' = completedCount + 1
  /\ UNCHANGED <<poolVars, chanVars, held, submitter, retries, done, activeCount,
                 failedCount, rejectedCount, closeVars>>

(* Variant: a failed attempt puts the task back into the channel as well. *)
RunFailsRequeues(w) == LET t == held[w] IN
  /\ worker[w] = "running" /\ retries[t] <= MaxRetries[t]
  /\ taskErr' = [taskErr EXCEPT ![t] = "failed"]
  /\ retries' = [retries EXCEPT ![t] = @ + 1]
  /\ queue' = IF Len(queue) < QueueSize THEN Append(queue, t) ELSE queue
  /\ UNCHANGED <<poolVars, sendq, workerVars, submitter, done, countVars, closeVars>>

(* Variant: every failed attempt releases the caller. *)
RunFailsMarksDone(w) == LET t == held[w] IN
  /\ worker[w] = "running" /\ retries[t] <= MaxRetries[t]
  /\ taskErr' = [taskErr EXCEPT ![t] = "failed"]
  /\ retries' = [retries EXCEPT ![t] = @ + 1]
  /\ done' = [done EXCEPT ![t] = TRUE]
  /\ UNCHANGED <<poolVars, chanVars, workerVars, submitter, countVars, closeVars>>

RunFails(w) == LET t == held[w] IN
  /\ worker[w] = "running"
  /\ retries[t] <= MaxRetries[t]
  /\ taskErr' = [taskErr EXCEPT ![t] = "failed"]
  /\ retries' = [retries EXCEPT ![t] = @ + 1]
  /\ UNCHANGED <<poolVars, chanVars, workerVars, submitter, done, countVars, closeVars>>

(* Variant: give up one attempt too early. *)
GiveUpEarly(w) == LET t == held[w] IN
  /\ Goto(w, "running", "counted")
  /\ retries[t] >= MaxRetries[t]
  /\ failedCount' = failedCount + 1
  /\ UNCHANGED <<poolVars, chanVars, held, submitter, taskVars, activeCount,
                 completedCount, rejectedCount, closeVars>>

(* Variant: no markDone after the last failed attempt. *)
GiveUpUnmarked(w) == LET t == held[w] IN
  /\ Goto(w, "running", "settled")
  /\ retries[t] > MaxRetries[t]
  /\ failedCount' = failedCount + 1
  /\ UNCHANGED <<poolVars, chanVars, held, submitter, taskVars, activeCount,
                 completedCount, rejectedCount, closeVars>>

GiveUp(w) == LET t == held[w] IN
  /\ Goto(w, "running", "counted")
  /\ retries[t] > MaxRetries[t]
  /\ failedCount' = failedCount + 1
  /\ UNCHANGED <<poolVars, chanVars, held, submitter, taskVars, activeCount,
                 completedCount, rejectedCount, closeVars>>

MarkDone(w) ==
  /\ Goto(w, "counted", "settled")
  /\ done' = [done EXCEPT ![held[w]] = TRUE]
  /\ UNCHANGED <<poolVars, chanVars, held, submitter, taskErr, retries, countVars, closeVars>>

(* Variant: activeCount is not decremented. *)
DeactivateUncounted(w) ==
  /\ Goto(w, "settled", "idle")
  /\ held' = [held EXCEPT ![w] = NoTask]
  /\ UNCHANGED <<poolVars, chanVars, submitter, taskVars, countVars, closeVars>>

(* Variant: the worker returns after one task. *)
DeactivateForGood(w) ==
  /\ Goto(w, "settled", "exited")
  /\ held' = [held EXCEPT ![w] = NoTask]
  /\ activeCount' = activeCount - 1
  /\ UNCHANGED <<poolVars, chanVars, submitter, taskVars, completedCount,
                 failedCount, rejectedCount, closeVars>>

(* The callback has returned: activeCount-- and back to the receive. *)
Deactivate(w) ==
  /\ Goto(w, "settled", "idle")
  /\ held' = [held EXCEPT ![w] = NoTask]
  /\ activeCount' = activeCount - 1
  /\ UNCHANGED <<poolVars, chanVars, submitter, taskVars, completedCount,
                 failedCount, rejectedCount, closeVars>>

-----------------------------------------------------------------------------
(* ShutdownWithTimeout.                                                    *)

ShutdownRefused(c) ==
  /\ closer[c] = "idle" /\ isShutdown
  /\ closer' = [closer EXCEPT ![c] = "refused"]
  /\ UNCHANGED <<poolVars, chanVars, workerVars, submitter, taskVars, countVars, helper>>

(* isShutdown is set and the channel closed in one critical section; every *)
(* sender parked in the channel panics.                                    *)
Shutdown(c) ==
  /\ closer[c] = "idle" /\ ~isShutdown /\ ~chanClosed
  /\ isShutdown' = TRUE
  /\ chanClosed' = TRUE
  /\ submitter' = [t \in Tasks |-> IF submitter[t] = "blocked" THEN "panicked" ELSE submitter[t]]
  /\ closer' = [closer EXCEPT ![c] = "waiting"]
  /\ helper' = [helper EXCEPT ![c] = "waiting"]
  /\ UNCHANGED <<isStarted, chanVars, workerVars, taskVars, countVars>>

(* A Start that followed a Shutdown cleared isShutdown: close of a closed  *)
(* channel.                                                                *)
ShutdownPanics(c) ==
  /\ closer[c] = "idle" /\ ~isShutdown /\ chanClosed
  /\ isShutdown' = TRUE
  /\ closer' = [closer EXCEPT ![c] = "panicked"]
  /\ UNCHANGED <<isStarted, chanClosed, chanVars, workerVars, submitter, taskVars,
                 countVars, helper>>

(* p.wg counts the workers started and not yet exited. *)
NoLiveWorker == \A w \in WorkerIds : worker[w] \in {"absent", "exited"}

WaitGroupZero(c) ==
  /\ helper[c] = "waiting"
  /\ NoLiveWorker
  /\ helper' = [helper EXCEPT ![c] = "sending"]
  /\ UNCHANGED <<poolVars, chanVars, workerVars, submitter, taskVars, countVars, closer>>

ShutdownDone(c) ==
  /\ closer[c] = "waiting" /\ helper[c] = "sending"
  /\ closer' = [closer EXCEPT ![c] = "ok"]
  /\ helper' = [helper EXCEPT ![c] = "gone"]
  /\ UNCHANGED <<poolVars, chanVars, workerVars, submitter, taskVars, countVars>>

(* The helper is left behind; done is unbuffered, so it never gets past    *)
(* its send.                                                               *)
ShutdownTimeout(c) ==
  /\ closer[c] = "waiting"
  /\ closer' = [closer EXCEPT ![c] = "timeout"]
  /\ UNCHANGED <<poolVars, chanVars, workerVars, submitter, taskVars, countVars, helper>>

-----------------------------------------------------------------------------
Submit(t) ==
  \/ SubmitCheck(t) \/ SendPanics(t) \/ Enqueue(t) \/ Reject(t) \/ Block(t)
  \/ EnsureWorkers(t) \/ AddWorker(t)

WorkerStep(w) ==
  \/ Receive(w) \/ Exit(w) \/ Activate(w) \/ RunSucceeds(w) \/ RunFails(w)
  \/ GiveUp(w) \/ MarkDone(w) \/ Deactivate(w)

ShutdownStep(c) ==
  \/ ShutdownRefused(c) \/ Shutdown(c) \/ ShutdownPanics(c)
  \/ WaitGroupZero(c) \/ ShutdownDone(c) \/ ShutdownTimeout(c)

Next ==
  /\ ~Crashed
  /\ \/ Start
     \/ \E t \in Tasks : Submit(t)
     \/ \E w \in WorkerIds : WorkerStep(w)
     \/ \E c \in Closers : ShutdownStep(c)

(* What the Go scheduler and a terminating task function give: a goroutine *)
(* that can run does run.  Nobody has to submit, to shut down or to time   *)
(* out, and a function may fail every time.                                *)
Fairness ==
  /\ \A w \in WorkerIds : WF_vars(~Crashed /\ WorkerStep(w))
  /\ \A t \in Tasks : WF_vars(~Crashed /\ submitter[t] # "idle" /\ Submit(t))
  /\ \A c \in Closers : WF_vars(~Crashed /\ (WaitGroupZero(c) \/ ShutdownDone(c)))

(* The exported API: Start may come at any time, or never. *)
Spec == Init /\ [][Next]_vars /\ Fairness

StartedSpec == InitStarted /\ [][Next]_vars /\ Fairness

-----------------------------------------------------------------------------
(* Properties. *)

OnlyOnce(s) == \A i, j \in DOMAIN s : s[i] = s[j] => i = j
Within(t, s) == \E i \in DOMAIN s : s[i] = t
InHand(t) == \E w \in WorkerIds : held[w] = t

(* A task is in one place at a time: it is buffered, or parked with its    *)
(* sender, or in the hand of one worker, and none of these once it is      *)
(* done unless that worker has yet to leave the callback.  No interleaving *)
(* of receives, hand-offs from parked senders and the close runs it twice. *)
NoTaskTwice ==
  /\ OnlyOnce(queue) /\ OnlyOnce(sendq)
  /\ \A t \in Tasks :
       /\ ~(Within(t, queue) /\ (Within(t, sendq) \/ InHand(t) \/ done[t]))
       /\ ~(Within(t, sendq) /\ (InHand(t) \/ done[t]))
  /\ \A v, w \in WorkerIds : held[v] = held[w] /\ held[v] # NoTask => v = w
  /\ \A w \in WorkerIds :
       held[w] # NoTask => (done[held[w]] <=> worker[w] = "settled")

(* Once Submit has put a task into the channel, the task is done, or       *)
(* buffered, or a worker has it: the close and the exit of the workers     *)
(* strand nobody who awaits it outside the pool.                           *)
NoTaskLost ==
  \A t \in Tasks :
    submitter[t] \in {"sent", "adding", "returned"} /\ ~done[t]
      => Within(t, queue) \/ InHand(t)

Counted(t) == done[t] \/ \E w \in WorkerIds : held[w] = t /\ worker[w] \in {"counted", "settled"}

(* GetStats: every task is in exactly one of the three totals, and is in   *)
(* it before its Await can return.                                         *)
CountersExact ==
  /\ completedCount = Cardinality({t \in Tasks : Counted(t) /\ taskErr[t] = "nil"})
  /\ failedCount = Cardinality({t \in Tasks : Counted(t) /\ taskErr[t] \in {"unset", "failed"}})
  /\ rejectedCount = Cardinality({t \in Tasks : done[t] /\ taskErr[t] \in {"full", "discarded"}})

(* GetStats, in the fields that can be wrong: idleWorkers is a difference  *)
(* of two numbers read at different moments of the worker's loop, and      *)
(* currentLoad a percentage of maxWorkers.                                 *)
GetStats ==
  [activeWorkers |-> activeCount,
   idleWorkers   |-> workerCount - activeCount,
   totalWorkers  |-> workerCount,
   queuedTasks   |-> Len(queue),
   currentLoad   |-> IF MaxWorkers > 0 THEN (activeCount * 100) \div MaxWorkers ELSE 0]

(* No interleaving of activeCount++, activeCount-- and addWorker makes     *)
(* idleWorkers negative or the load exceed 100 percent; the count is the   *)
(* number of workers that have a task past its start.                      *)
StatsSane ==
  /\ GetStats.idleWorkers >= 0
  /\ GetStats.currentLoad \in 0 .. 100
  /\ activeCount = Cardinality({w \in WorkerIds : worker[w] \in {"running", "counted", "settled"}})

(* The figures of GetStats: the totals, and what the workers do.           *)
StatsExact == CountersExact /\ StatsSane

(* A task fails only after maxRetries + 1 calls of its function, and       *)
(* succeeds within them; nobody is told "no error" of a function that was  *)
(* not called, unless maxRetries was negative.                             *)
RetryBudget ==
  \A t \in Tasks : done[t] =>
    /\ taskErr[t] = "failed" => retries[t] = MaxRetries[t] + 1
    /\ taskErr[t] = "nil" => retries[t] <= MaxRetries[t]
    /\ taskErr[t] = "unset" => MaxRetries[t] < 0

(* What Await returned stays true: after markDone no step of the worker,   *)
(* of a retry or of a shutdown changes the task.                           *)
ResultStable ==
  [][\A t \in Tasks : done[t] =>
       done'[t] /\ taskErr'[t] = taskErr[t] /\ retries'[t] = retries[t]]_vars

(* A Shutdown that returns nil has waited for every task whose Submit got  *)
(* it into the channel ("graceful" in the comment of Shutdown, and what    *)
(* TestGoroutinePoolShutdown waits for).  Needs a started pool with        *)
(* a worker: see the README.                                               *)
ShutdownDrains ==
  (\E c \in Closers : closer[c] = "ok") =>
    \A t \in Tasks : submitter[t] \in {"sent", "adding", "returned"} => done[t]

(* A worker leaves only a closed and empty channel behind. *)
ExitsDrained == \A w \in WorkerIds : worker[w] = "exited" => chanClosed /\ queue = <<>>

(* Await returns: a task that got into the channel, or is parked in front  *)
(* of it, is eventually done (needs a worker), or the process is gone.     *)
AcceptedSettles ==
  \A t \in Tasks :
    submitter[t] \in {"sent", "adding", "blocked"} ~> done[t] \/ Crashed

(* Once the channel is closed every worker exits, so that a Shutdown with  *)
(* a long enough timeout returns nil.                                      *)
CloseDrains == chanClosed ~> NoLiveWorker \/ Crashed

(* Nobody waits for ever: neither an Await nor a shutdown.                  *)
WorkSettles == AcceptedSettles /\ CloseDrains

(* The pool implements TaskExecutor, in every interleaving of submissions, *)
(* retries and a shutdown (needs a started pool with a worker).            *)
Refused(t) == taskErr[t] \in {"shutdown", "full", "discarded"}

StatusOf(t) ==
  CASE done[t] /\ Refused(t)          -> "refused"
    [] done[t] /\ ~Refused(t)         -> "settled"
    [] ~done[t] /\ (Within(t, queue) \/ InHand(t))    -> "accepted"
    [] ~done[t] /\ ~(Within(t, queue) \/ InHand(t))   -> "new"

PhaseOf ==
  IF \E c \in Closers : helper[c] \in {"sending", "gone"} THEN "terminated"
  ELSE IF chanClosed THEN "closed" ELSE "open"

Executor == INSTANCE TaskExecutor WITH phase <- PhaseOf, status <- [t \in Tasks |-> StatusOf(t)]

RefinesExecutor == Executor!Spec

(* Submit after or during a shutdown returns a task that reports it.  The  *)
(* test TestGoroutinePoolSubmitAfterShutdown expects an error, never a     *)
(* panic of the submitter.                                                 *)
SubmitNeverPanics == \A t \in Tasks : submitter[t] # "panicked"
-----------------------------------------------------------------------------
(* The inductive invariants behind NoTaskTwice, NoTaskLost, ResultStable   *)
(* and ShutdownDrains: where a task is, told by its submitter, its worker  *)
(* and its done flag together.                                             *)
InPool == {"sent", "adding", "returned"}

QueueInv ==
  /\ OnlyOnce(queue) /\ OnlyOnce(sendq)
  /\ \A t \in Tasks :
       /\ Within(t, queue) => ~InHand(t) /\ ~done[t]
       /\ Within(t, sendq) => submitter[t] \in {"blocked", "panicked"}

PlaceInv ==
  \A t \in Tasks : submitter[t] \in InPool <=> (Within(t, queue) \/ InHand(t) \/ done[t])

HandInv ==
  /\ \A v, w \in WorkerIds : held[v] = held[w] /\ held[v] # NoTask => v = w
  /\ \A w \in WorkerIds :
       /\ held[w] = NoTask <=> worker[w] \in {"absent", "idle", "exited"}
       /\ held[w] # NoTask => (done[held[w]] <=> worker[w] = "settled")

LifeInv == QueueInv /\ PlaceInv /\ HandInv

TableInv == \A w \in WorkerIds : worker[w] = "absent" <=> w >= workerCount

(* Nobody is parked in front of a closed channel, and a refusal is final. *)
RefuseInv ==
  \A t \in Tasks : /\ chanClosed => submitter[t] # "blocked"
                   /\ Refused(t) => done[t]

(* Behind RetryBudget: what an attempt has left of a task; once a task is  *)
(* counted, the attempts it had are all that it may have.  A result is in  *)
(* the task no later than in the counters, and a refusal ends it.          *)
WithinBudget(t) ==
  /\ taskErr[t] = "unset" => retries[t] = 0
  /\ taskErr[t] = "failed" =>
       /\ retries[t] <= MaxRetries[t] + 1
       /\ Counted(t) => retries[t] = MaxRetries[t] + 1
  /\ taskErr[t] = "nil" => retries[t] <= MaxRetries[t]
  /\ taskErr[t] = "unset" /\ Counted(t) => MaxRetries[t] < 0

BudgetInv == \A t \in Tasks : WithinBudget(t)

VerdictInv ==
  \A t \in Tasks : /\ taskErr[t] = "nil" => Counted(t)
                   /\ Refused(t) => done[t]

(* What a pool started with at least one worker keeps, in addition. *)
StartedInv ==
  /\ isStarted
  /\ isShutdown <=> chanClosed
  /\ workerCount >= MinWorkers
  /\ \A t \in Tasks : submitter[t] # "adding"
  /\ \A w \in WorkerIds : worker[w] = "exited" => chanClosed /\ queue = <<>>
  /\ \A c \in Closers :
       /\ helper[c] # "none" => chanClosed
       /\ helper[c] \in {"sending", "gone"} => NoLiveWorker
       /\ closer[c] = "ok" => helper[c] = "gone"
=============================================================================
