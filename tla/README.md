# A formal model of ia_platform

ia_platform is a scripting platform in Go: the `ialang` language with its
interpreter, runtime and builtin modules, the `iavm` virtual machine that runs
compiled modules against a host, and `iacommon`, the code both share. This
directory holds TLA+ modules of the parts of it whose correctness depends on the
order of events, the TLC configurations that check them, and proofs for TLAPS.

Run a check with `tlc -config PoolBlock.cfg MCGoroutinePool.tla` and a proof
with `tlapm GoroutinePoolProofs.tla`. `PROJECT.json` lists the runs, the
variants of definitions that break each property, the source lines every
definition stands for, the hazards and the theorems.

## 1. The system

| Component | Source | State it keeps | How it is used |
|---|---|---|---|
| Goroutine pool | `ialang/pkg/pool/pool.go` | task channel, workers, counters, shutdown flag | the pool manager and the script's `pool` module submit and await tasks |
| Pool manager | `ialang/pkg/pool/pool_manager.go` | named pools, initialised and shut-down flags | the CLI initialises it once; the async runtime and the timer submit to its IO pool |
| Async runtime, promises | `pkg/lang/runtime/async.go`, `promise.go` | none beyond each task | `async` functions of the VM; `Promise.all`, `race`, `allSettled` |
| Timer, signal | `runtime/builtin/timer.go`, `signal.go` | table of live timers, of subscriptions | callbacks enter the VM from other goroutines |
| Ialang VM, sandbox | `runtime/vm`, `sandbox.go`, `env.go` | stack, handler frames, environments, step count | executes a chunk; calls back from builtins |
| Frontend | `lang/frontend`, `iacommon/.../ast`, `token` | position in the text, current token | every command that reads a script |
| Formatter | `ialang/cmd/ialang/fmt.go` | the text written so far | `ialang fmt` rewrites a file |
| Compiler | `lang/compiler` | scopes, jump patches | once per module |
| Module loader | `lang/module_loader.go`, `iacommon/.../module` | module cache, loading stack | imports of the VM |
| Message bus `iax`, `ipc` | `builtin/iax.go`, `ipc.go` | connections, pending calls, subscriptions | writer and reader goroutines per connection |
| Sockets, SSE, WebSocket, HTTP, express | `builtin/socket.go` ..., `pkg/express` | servers, connections, routes | one goroutine per connection or request |
| Exec, log, database, ORM, asset bundle | `builtin/*.go` | process, file and connection handles | called by scripts |
| Data libraries | `builtin/*.go`, `array_proto.go`, `string_proto.go` | none | pure functions |
| iavm runtime and interpreter | `iavm/pkg/runtime` | frames, operand stack, handlers, suspension | runs a verified module; awaits host promises |
| iavm binary, verifier, bridge | `iavm/pkg/binary`, `bridge` | none | encode, decode, verify, lower |
| Default host | `iacommon/pkg/host` | capabilities, handles, pending operations | `Call`, `Poll`, `Wait` of the VM |
| CLI | `ialang/cmd/ialang` | none | one command per process |

What is hard in it, and where, is the list `hazards` of `PROJECT.json`: sends
that race a close, flags read before a lock and used under it, retries of work
already done, timeouts that leave work running, handles used after they were
looked up, tables of numbers that two files must agree on.

What each part has to get right:

* **Pool.** A submitted task is run by one worker, settled once, never dropped;
  a graceful shutdown waits for all of it; the figures of `GetStats` are exact.
* **Pool manager.** One initialisation; after a shutdown no pool is left running.
* **Async runtime.** An async function runs once and its awaiter gets its result
  or a timeout.
* **Promises.** The combinators settle with what their inputs say, in any order.
* **Timers.** No callback after a clear has returned; no timer is kept for ever.
* **VMs.** `finally` runs, frames and handlers match the call depth, a suspended
  VM resumes with the value its promise settled with, limits bound every run.
* **Parser, formatter.** A tree is read from every text that is written for it;
  what is formatted is read as the same program again.
* **Compiler, lowering, codec, machines.** A program does what it means, on both
  machines.
* **Verifier.** It accepts what the compiler emits, and the stack is as high as it
  says.
* **Module loader.** A module is run once, whatever names it is imported by; every
  import ends.
* **Arrays.** A call changes no array a script holds; methods and functions that
  have one name agree.
* **Host.** Only granted capabilities are used; a closed handle stays closed;
  a retry never repeats an operation that may have had an effect.
* **Bus and connections.** Every reply reaches its call, and a close wakes
  everyone who waits.
* **Router.** Middleware guards every route behind it; a request goes to the first
  route that fits, and is answered once.
* **Streams.** What was sent arrives in order or not at all; nothing is left of a
  server that was closed.

## 2. Plan

In this order, each with its MC module, configurations and properties:

1. `GoroutinePool`, its abstract specification `TaskExecutor`, and the proofs.
   *Done.*
2. `PoolManager`: registry, initialisation and shutdown over an abstract pool;
   `AsyncRuntime`, `PromiseCombinators` and `Timer`. *Done.*
3. `iavm`: `Suspension` (machine, promise, poll and wait, contexts) and
   `HostHandles` with its proofs. *Done.*
4. The message bus over an ipc connection: `Iax`, `IaxPersistence`, `IaxTopics`.
   *Done.*
5. The language: `Language`, `Compiler` and `IalangVM` against the independent
   `Semantics`. *Done.*
6. The second half of the pipeline over the same programs: `Lowering`,
   `ModuleCodec`, `Verifier` and `IavmVM`, with the same reference. *Done.*
7. The first half: `Lexer`, `Parser` and `Formatter`. *Done.*
8. `ModuleLoader` and `Arrays`. *Done.*
9. `Express` and `ExpressServer`; `SseServer`, `SseFraming` and `WebSocket`. *Done.*
10. Next: classes and objects of the language; TCP and UDP sockets.
11. Proofs about 1 to 4: the pool's counters and retries, `OneInitialization` and
   `PoolsKept` of the manager, `Answered`, `CombinatorsFaithful` for every number
   of inputs, `ClearedNeverRuns`, `Durable`, `Delivered`, `SuspensionKept`. *Done.*
12. Proofs about the streams (`Streamed`), the module loader (`LoadedOnce`), and the
   typing of the two suites (`SuiteTypeOK`) under their own specifications. *Done.*
13. Proofs about the router: `Served`, with what it says of the slices that routes
   and groups share while requests run. *Done.*
14. Proofs about the texts (`TextsRead`): wildcards and the framing of events, for
   texts of any length. *Done.*
15. Which of the arrays' buffers are shared (`ArraysKept`). *Done.* Next: `AnswersFit`.

Abstract specifications: the executor that a pool implements, and what a program
means, which both machines and everything in front of them are compared with.
Worth stating next: a bus that delivers a reply to its call.

Components that share no variable are checked together in one *suite*
(`MCServices` for the manager, the bus, the router and the streaming servers,
`MCRuntime` for the async runtime, the module loader, the arrays and iavm's host,
`MCLanguage` for the two machines and the command `fmt`): the
suite holds the variables of all, and `focus` (in `MCLanguage` `machine`), chosen
in the initial state, says whose steps a behaviour takes. Nothing is lost by that, an
interleaving of components that cannot see each other shows no more than each of
them alone, and the state spaces add up instead of multiplying. In `MCServices`
the constant sets of goroutines are further cut into a `cast`, those that take
part in a behaviour, because all of them at once are out of reach.

## 3. The goroutine pool

### What is modelled

`GoroutinePool.tla` follows `pool.go`. Its constants are the options that
`NewGoroutinePool` validates, the submissions (each made by a goroutine of its
own) and the goroutines that call `ShutdownWithTimeout`. One action is what a
goroutine does between two points at which another can see its effect.

| Code | Model |
|---|---|
| `NewGoroutinePool`; with `Start` as all its callers use it | `Init`; `InitStarted` |
| `Start` | `Start` |
| `SubmitWithRetry`: test under the read lock; the three ways a send ends | `SubmitCheck`; `Enqueue`, `Reject`, `Block`, `SendPanics` |
| `ensureWorkers`: reading `len(workers)`, then `addWorker` | `EnsureWorkers`, `AddWorker` |
| `Worker.start`: receive, or leave a closed and empty channel | `Receive`, `Exit` |
| `activeCount++`, `executeTask` with its retries, `markDone`, `activeCount--` | `Activate`, `RunSucceeds`, `RunFails`, `GiveUp`, `MarkDone`, `Deactivate` |
| `ShutdownWithTimeout`: flag and close; waiter goroutine; the two outcomes | `Shutdown`, `ShutdownRefused`, `ShutdownPanics`; `WaitGroupZero`; `ShutdownDone`, `ShutdownTimeout` |
| `GetStats` | the operator `GetStats` |

`taskQueue` is the buffer `queue` and the parked senders `sendq`; a receive from
a full buffer moves the oldest parked sender's task into it, as Go's channels
do. A panic ends the process: `Crashed`, after which nothing is enabled. Times,
the callbacks' bodies and `removeIdleWorker`, which nothing calls, are left out.

### Runs

`MCGoroutinePool` chooses the retry counts: one submission of `Eager` retries
once, one of `Hopeless` has a negative count (which `SubmitWithRetry` accepts),
the rest never retry.

| Run | Instance | Shows |
|---|---|---|
| `PoolBlock` | 3 submissions, 2 shutdowns, 1 worker, queue 1, block | no task twice or lost, results stable, a graceful shutdown drains, accepted tasks settle, the pool implements `TaskExecutor` |
| `PoolRaw` | 2 workers, policy error, `Start` at any time or never, a negative retry count | types and bounds, the retry budget, `GetStats` is exact and sane |
| `PoolCloseRace` | one submission, one shutdown | *violation*: a submission panics on the closed channel |

One slot and three submissions make a full buffer with a parked sender, which is
where hand-off, rejection and the close meet; two workers are the fewest that
can disagree about a counter; two closers the fewest that race. Deadlock is not
checked in these runs: a pool whose tasks and closers are done has stopped.

Fairness is weak fairness of every goroutine that can run, the promise of Go's
scheduler, and a task function that returns. Nobody is obliged to submit, to
shut down or to time out, and a function may fail every time.

### What is proved

`GoroutinePoolProofs` proves for all sets of tasks and closers, all worker
numbers, queue sizes and policies: types and bounds (`TypeCorrect`), `NeverTwice`,
`NeverLost`, `ResultNeverChanges`, `RetriesExact` (`RetryBudget`) and
`StatisticsExact` (`StatsExact`) for the exported API, and `GracefulShutdown`
for a pool started with a worker. The assumptions are the two of the module:
what `NewGoroutinePool` checks, and finite sets of tasks.

The properties are not inductive alone. `LifeInv` says where a task is for each
position of its submitter and of the worker that holds it (`PlaceInv`, `HandInv`)
and that nothing is queued twice (`QueueInv`); `TableInv` that the workers are
numbered without gaps; `StartedInv` that a worker leaves a closed and empty
channel only, which is why a waiter that saw no live worker has seen an empty
channel. `NeverLost` needs the place of a parked sender at the close, hence
`RefuseInv`, which `PoolImplementsExecutor` needs too:
each step of a started pool maps to a step of `TaskExecutor` or to a stutter.
That theorem assumes `MinWorkers >= 1`. `ensureWorkers` compares the number of
workers with `MinWorkers` (`pool.go:246-251`), so a started pool never grows: one
with `MinWorkers` 0, which `NewGoroutinePool` accepts, has nobody to run what it
accepts, and its graceful shutdown returns at once and leaves the tasks behind.

`RetryBudget` speaks of settled tasks; `BudgetInv` says how many attempts a task
has had while it waits, is held or fails (`WithinBudget`), and `VerdictInv` that the
error with which a worker goes to `markDone` is the one its attempts earned.
`StatsExact` compares counters with cardinalities: a step moves at most one task
or one worker from one of the counted sets to another, so that the proof adds or
removes one element; that the workers are numbered without gaps bounds `activeCount`
by `workerCount` and that by `MaxWorkers`, which is why a load is no more than 100.

Only model-checked: `WorkSettles` (liveness: accepted tasks settle, and a graceful
shutdown ends).

## 4. The pool manager

`PoolManager.tla` follows `pool_manager.go` and the script's `pool` module. Each
caller makes one call, in steps that end where the code releases `pm.mu`. A pool
is the three phases that `TaskExecutor` gives it, so the proofs of section 3 are
what lets the manager forget the channel and the workers.

| Code | Model |
|---|---|
| `RegisterPool`, `Initialize` | `RegisterPool`, `Initialize` |
| `initializeEnabledPoolsLocked` | `InitializePools`: a Go map is walked in any order, so any subset of the good configurations is started before the first bad one |
| `EnsureInitialized`, `...WithOptions` | `EnsureTestsInitialized`, `EnsureTestsShutdown`, `EnsureLocked` |
| `GetPool`, `Submit`, `SubmitWithRetry` | `GetPool`, `PoolSubmit`; the wrapper that counts: `TaskSucceeds`, `TaskFails` |
| `ShutdownWithTimeout` | `Shutdown`; a goroutine per pool: `PoolCloses`, `PoolShutdownReturns`; `ShutdownReturns` |

| Run | Instance | Shows |
|---|---|---|
| `ServicesSuite` | an initialisation, a submission and two shutdowns; a registration, a submission or an initialisation, an async task and one shutdown; two types of which one is refused | pools are registered once and closed once (`OneInitialization`), a pool is open until one shutdown closes it, which waits for it (`PoolsKept`: `OpenUntilClosed`, `ShutdownWaits`), every call returns (`AllReturned`, in `CallersReturn`) |
| `ManagerRace` | `EnsureInitialized` against one shutdown | *violation*: pools are started after the shutdown has returned |

Two closers are the fewest that can close one pool twice; one bad type is what
makes an initialisation stop half way. A call is a bounded number of steps, so
weak fairness of all calls together starves none.

`PoolManagerProofs` proves, for every set of callers, types and options,
`TypeCorrect`, `InitializedOnce` (`OneInitialization`) and `PoolsAreKept`
(`PoolsKept`). The invariant behind the last is `ManagerInv`: which step a caller of
each kind can be at (`RolesInv`); that the pools a caller creates do not exist before
it has initialised (`CreationInv`); that pools are closed by one caller, after
`isShutdown` was set (`ClosingInv`); and that a pool which is down owes nobody a
result (`OwesNothing`), for a task is accepted by an open pool and settled before
the pool ends.

## 5. Async functions, combinators and timers

`AsyncRuntime.tla` is `Spawn` and `AwaitValue` of `async.go`, with the manager's
flags, the IO pool as a queue with workers and retries, and the goroutine that
enforces `TaskTimeout`. `PromiseCombinators.tla` is `promise.go`: `all` and
`allSettled` await their inputs in order, `race` has one goroutine per input and
a channel of one place. `Timer.tla` is the builtin `timer` module: a firing is
handed to `callTimerCallback`, which submits it to the IO pool or starts a
goroutine, and nobody looks at what the submission returned.

| Code | Model |
|---|---|
| `Spawn`: reading the manager; its branches | `SpawnDecides`; `SpawnOnGoroutine`, `SubmitMissesPool`, `SubmitRefused`, `SubmitSends`, `Enqueue` |
| the goroutine with a timer | `TimedAnswer`, `TimedOut` |
| `AwaitValue` | `Await`, `AwaitReturns`, `AwaitGivesUp` |
| `PromiseAll`, `PromiseAllSettled`, `PromiseRace` | `AllAwaits`, `AllResolves`; `SettledAwaits`; `WatcherWakes`, `WatcherSends`, `RaceReceives` |
| `setTimeout`, `setInterval`, `cron`, `every` and the clear calls | `SetTimeout`, `SetTimeoutReturns`, `StartRepeating`, `Every`, `ClearTimeout`, `ClearInterval`, `RemoveJob` |
| a timer that fires, `callTimerCallback` | `Fires`, `IntervalEnds`, `ReadManager`, `SubmitCallback` |

| Run | Instance | Shows |
|---|---|---|
| `RuntimeSuite` | two calls, one of which hangs, with timeouts; three inputs; two of four timers, a pool of two workers and one place | awaits of a promise agree and are earned (`Answered`), accepted work is run and every await returns (`WorkEnds`), combinators are faithful and settle, a cleared timer stays silent, intervals and firings end (`TimersEnded`, in `WorkEnds`) |
| `AllRejects` | two inputs, which may stay pending for ever | *violation*: the second input has rejected, the first is pending, and `Promise.all` with it (`RejectsImmediately`) |

Three inputs let a settled one be overtaken on both sides. `PromiseAll` rejects when
its turn in the order of the inputs comes (`promise.go:57-66`), and the model says the
same (`AllFaithful`). The comment on it promises more: "If any promise rejects, the
returned promise rejects immediately" (`promise.go:56`), which `AllRejects` refutes. `MaxTicks` and `MaxTimers` bound an otherwise endless
clock: a timer fires once, and any two timers meet in some behaviour.

Fairness: goroutines and workers run, functions outside `HangingTasks` return,
timers fire. With the bounds every call takes finitely many steps, so weak
fairness of all of them together starves none.

`RuntimeProofs` proves three properties of these three components, each for every value of
its constants and each from an invariant of its own. The assumption,
`RuntimeAssumption`, says that lengths and bounds are numbers, that a timer is of
one kind, and which states the manager may be in at the start.

* `CombinatorsReportInputs` (`CombinatorsFaithful`), from `CombineInv`: what `all`
  and `allSettled` have collected so far is what the inputs before their position
  settled with, and a report on its way to a race is that of an input that has
  settled. An input never settles twice, so what was copied stays true.
* `AsyncAnswered` (`Answered`), from `AsyncInv`: a promise is answered when its
  function is at its end or by the timeout of `Spawn` and never again, and the
  executions that were begun tell where the function is.
* `ClearedTimersSilent` (`ClearedNeverRuns`), from `TimerInv`: a timer that was
  cleared before it fired is over and has never ticked (`SilencedInv`); a tick that
  a timer has not made, or a loop that it has not begun, is nowhere on its way to a
  worker (`FiringInv`); and what is still on its way has not run (`WaitingInv`).

## 6. The iavm machine and its host

`Suspension.tla` is the life of a run: `Run`, `ResumeSuspension`,
`WaitSuspension` and `RunUntilSettled` of `vm.go`, the await and host
instructions of `interpreter.go`, the promises of `promise.go`. A program is a
sequence of polls, calls, loads, awaits and calls of an async function; a value
is a promise, by its number, or what a handle yielded. The result of an async function
is a promise that is settled; if the function returns a promise, an await of its result
yields that promise (`inner`), which is then awaited in its turn, as in `awaitValue`. The host is external: a
handle completes or fails when it likes, and an operation on a handle outside
`Hanging` is answered.

| Code | Model |
|---|---|
| `Run`; `RunUntilSettled` and what it does with an error | `Run("run")`; `Run("settle")` and `Return` |
| `ResumeSuspension`, `resolveSuspendedValue` | `ResumeSuspension`, then `StillPending`, `Settled`, `Fail` |
| `WaitSuspension`, `waitSuspensionByPolling` | `WaitSuspension`, `Wait`, `WaitWokeEarly`, `Sleep` |
| `retryPollLike`, `retryCallLike` | `Retry` (its back-off is not timed), `OpFails`, `OpTimesOut`, `OpContextEnds` |
| `OpHostPoll`, `OpHostCall`, `OpAwait`, `OpLoadLocal` | `HostOperation`, `Polled`, `Called`; `AwaitSettled`, `AwaitPending`; `LoadLocal` |
| `runFunctionSync` | `CallAsync`, `FunctionEnds`: a second machine without a run context |

`HostHandles.tla` is the default host: capabilities and one table of handles (the
code has three, which share the counter of ids, so an id is in one of them at
most). A call looks an entry up or takes it out under the lock, and works on the
provider's object without it.

| Code | Model |
|---|---|
| `AcquireCapability`, `ReleaseCapability`, `lookupCapability` | `AcquireCapability`, `ReleaseCapability`, `Granted` |
| `fs.open`, `network.dial`, `network.listen`; `accept` | `CallOpens`, `CallAccepts`, then `ProviderOpens` or `ProviderReturns`, then `StoreHandle` |
| read, write, seek, send, receive | `CallUses`, `ProviderReturns` |
| `fs.close`, `network.close` | `CallCloses` (release under the lock), `CloseReturns` (the close, which may fail) |

| Run | Instance | Shows |
|---|---|---|
| `RuntimeSuite` | five programs over two handles, one hanging operation, three sets of retried operations, with and without a waiter and timeouts; two clients with two calls each and two capabilities | operands are those of the program (`Coherent`), a suspension is kept until it is answered, a context stops a run, and a run settles when its handles do (`RunSettles`); objects are accounted for, handles never change meaning |
| `IavmPending` | as above | *violation*: an async function that awaits a pending handle leaves its caller nothing to resume |

The five programs hold the cases that differ: two promises awaited out of order,
one promise awaited twice around a call, an async function that awaits, one that
returns a promise it has not awaited, and an operation for which the host hangs. One retry tells a first attempt from a last
one. Two clients are the fewest that can close one handle at the same time.

Fairness: the machine's goroutine runs and the host answers, except on a
`Hanging` handle; it honours a context. No handle need ever complete.
That a context stops a run (the first half of `RunSettles`) is about operations
that main makes: an async function runs without the context, so a host that hangs in one holds the run for ever. That is
a limit of the code (`vm.go:791`), and the programs of the run do not hang there.

### What is proved

`RuntimeProofs` proves of `HostHandles`, for every set of clients and any number of
calls, capabilities and objects, without an assumption: `HandlesTyped`,
`ObjectsAccounted` (`Accounted`) and `HandlesFixed` (`HandleFixed`). `Accounted`
is inductive together with `TypeInv`, which adds to the types that a call about
to store or to close has an object: four actions move an object between the table
and one holder, each with a lemma; the others leave table, objects and holders
alone (`AccountKept`).

Of `Suspension` it proves `SuspensionSurvives` (`SuspensionKept`): for
every set of programs and handles, any number of retries and any calls, a suspension
is given up for a promise that is settled, or by a resume that failed. The property
alone is not inductive: the step that would break it is an await of a pending promise
while another one is waited for, and what excludes it is where the machine can be. Its
invariant `RunInv`, in `Suspension.tla`, says that no instruction runs while
`suspension` is set (`ComputeInv`), that a suspended machine has one frame and lacks one
operand (`SuspendInv`), that an operation that resumes or waits has the handle of the
promise waited for, which is pending (`OpInv`, `PromisesInv`), and that a machine has as
many operands as the instructions before it leave (`Height`). The last part is what lets
an await find a promise and an async function its caller: one lemma per instruction and
per answer, `AdvanceKeeps` for the steps that go on, `StopKeeps` for those that return.

`RunsCoherent` (`Coherent`) is what the machine computes: for every set of programs and
handles, whatever the host answers and when, and however often an operation is retried
or a run resumed, a machine that computes has the operands its program has computed so
far; a suspended one lacks just the value of the promise it awaits; and a promise says
what the host said of its handle. Beside `RunInv` it needs `CoherentInv`: an operand that
is a value of a handle is there only when the handle is ready, a pending promise stands
for no other, one that another stands for stands for none itself, and the machine of an
async function has no promises of promises (`PromiseTrue`, `OperandTrue`). What a program should
have computed is a recursive function over its code (`Stacks`). That it has the values its
definition says is induction over the code, for which the library's theorems are
out of reach, but a least counterexample is not: the naturals are well founded
(`LeastNat`), and a function up to `n` extends to one up to `n + 1` (`FoldGrows`). From
there one lemma per instruction compares what the action leaves with what the instruction
should leave (`EffectIs`): `PushMatches` for those that leave a value on top,
`AwaitPendingMatches` and `SettledMatches` for the suspension and its end,
`FunctionEndsMatches` for the value of an async function; the steps that move no machine
are `UnmovedMatches` and `StoppedMatches`.

The assumptions are about programs (`ProgramsAssumption`). `WellFormed` is what the
verifier of the code establishes before a module runs: `verifyStackEffects`
(`verifier.go:363`) computes the stack height at each instruction and refuses an
underflow. It also says that a poll names a handle that the host knows, and that the
names of operations are not handles, so that what a call answers cannot be taken for
what a handle yields. That an async function calls no other is a limit of the model,
which has two machines at most; the code nests them.

Of `Suspension`, `RunSettles` stays with TLC for its fairness; `PendingSuspends` is false.

## 7. The message bus

`Iax.tla` is one end of one connection of `iax.go`: clients that share a writer
goroutine, a reader goroutine, an inbox and a condition variable. A connection of
`ipc.go` has a `call` and a `reply` of its own, which bypass all four and read the
connection under its `readMu`, beside the reader. The peer is external: it
answers what reached it, publishes its events in order, asks, sends one thing
that cannot be decoded, and goes away at any time.

| Code | Model |
|---|---|
| `iaxConnSend`, the writer loop, `iaxConnSendRaw` | `ConnSend`, `WriterLoop`: `SendKnown`, `SendProbing` |
| `iaxConnRecvMatch` of `call`, `receive`, `next`; `close` | `BeginMatch`, then `TakeMatch`, `MatchFails`, `MatchWaits`; `NextOfClosed`, `Close` |
| the reader loop | `EnterRecv`, `ReaderReceives`, `ReaderEnds` |
| `ipc.conn.call`, `ipc.conn.reply` | `IpcSend`, `EnterRecv`, `IpcCallReceives`, `IpcCallEnds` |

`IaxPersistence.tla` is the event store: a table of LevelDB handles, each with a
batch. LevelDB is external; a write may fail.

| Code | Model |
|---|---|
| `Get` of the configuration; `openDB` | `Resolve`; `FoundDB`, `OpenDB`, `OpenFails` |
| `append`, `flushLocked`, the flush loop | `AppendEvent`, `AppendToClosed`, `Flushed`, `FlushTick` |
| `iaxLoadPersistedEvents` | `LoadFlush`, `LoadIterate`, `LoadOfClosed` |
| `configurePersistence`: `Set`, `closeDB`, `closeAllDB`, `close` | `SetConfig`, `CloseBatch`, `CloseLevelDB`, `ClearInSet`, `SetReturns`, `CloseAllDB` |

`IaxTopics.tla` is `iaxTopicMatch` as an operator, against `Glob`, the meaning of a
wildcard.

| Run | Instance | Shows |
|---|---|---|
| `ServicesSuite` | five scenes of two or three clients; two events, a loader and one or two configurations on two paths with batches of two; all patterns and topics of up to four letters | what arrives is with one client or waits for one, events keep their order, no wakeup is lost, and calls through the inbox get their own response (the four parts of `Delivered`) and get it (`AllTaken`, in `CallersReturn`); an accepted event is on disk or in a batch that will be written, less than one batch is at risk, a load misses nothing accepted before it, no handle is left open and forgotten (`Durable`); a pattern matches what it covers (`TopicMatched`, in `TextsRead`) |
| `IaxCall` | the same scenes | *violation*: over ipc a call takes an event, or another call's response, for its own response and fails |

The scenes are pairs that compete for a message: two calls, a call and a
subscription, a call and a request, two subscriptions that share an event; and one
with a publisher, which uses the writer beside them. Two events are the fewest
that have an order; a batch of two is the smallest that is ever partly full.
`TopicMatched` names its one exception, a single star whose prefix and suffix
overlap in the topic (`ab*bc` takes `abc`).

Fairness: the two loops, and a client that has begun a call, run. Nobody must
begin, and the peer owes nothing.

`ServicesProofs` proves `EventsDurable` (`Durable`) of `IaxPersistence`, for every
set of events, loads, configurations and paths, any batch size and any number of
handles. `ServicesAssumption` says that the batch size is positive (it is 32), that
who publishes or loads has one path, and that the sets have nothing in common. The
invariant is `StoreInv`: an open handle is in the table or in the hands of one
configuration (`OneOpen`, `TableInv`, `ClosingInv`), so that a path has one batch at
most (`PendingIsBatch`); a handle that somebody works with has that user's path
(`UsersInv`); what a load has to find is on disk, lost, or in that batch until the
load has flushed it (`LoadsInv`). A step that writes a batch is one lemma
(`FlushKeeps`) for its four callers.

`MessagesDelivered` (`Delivered`) says the same of the bus, for every set of calls,
receivers, publishers and subscriptions, any topics and any number of events.
`BusAssumption` says that a client does one of the things a connection is used for,
and that none of them is called like the reader goroutine. The invariant `BusInv` has
a part for each way in which two goroutines could disagree about a message. `SendInv`:
a client is in `writeCh` once, and counts as delivered only behind its send, so that
the peer answers it once. `PlacesInv`: what the peer has sent is in `incoming`, in
`inbox` or with one client, in one place there (`Accounted` counts that). `OrderInv`:
what a subscription has taken, what lies in the inbox and what is to come each rise,
and each is below the next; `TakeMatch` keeps this only because it takes the *first*
match, out of the middle of the inbox (`WithoutShortens`, `Shortened`). `CallInv`: who
holds `readMu` for a call is in the connection's own call; a caller of the inbox has
nothing until it is done and its response then, and has failed only if the connection
has. `NoLostWakeup` is inductive beside them: the inbox grows only where everybody is
woken.

The constants of the bus and of the event store are those of `MCServices`, so that
what is proved is the property of the run; the `.cfg` and `MCPathOf`, `MCTopics`,
`MCScenes` give them their values there.

`IaxTopicsProofs` proves `TopicsMatched` (`TopicMatched`) for patterns and topics of
any length, over any letters and without an assumption. `Glob` speaks of where each
*letter* of the pattern ends in the topic and `Cursor` of where each *part* does, so
between them stand `Reach`, what `Glob` says of the first letters, and `Placed`, the
same of the first parts. `PartsReach` shows that they agree, letter by letter, as
`Scanned` builds the parts. `Cursor` is then the least of the places that `Placed`
allows (`CursorIsEarliest`): a part that is found as early as it can be leaves the
next ones the most room, which is why the loop of `iaxTopicMatch` need not go back,
and why a suffix that fits fits behind it (`ManyParts`). With one star there is no
cursor, and a prefix and a suffix may overlap (`TwoParts`): the exception is exact.

## 8. The language: compiler and machine

The compiler turns nested statements into jumps whose targets it learns later,
and the machine unwinds handlers and stacks that the compiled code pushed. Each
is simple where it is alone; what can go wrong is a jump that is patched with the
wrong address, a handler that nobody takes off, an operand that stays behind. So
the modules compile real programs and run what comes out.

`Language.tla` has the nodes of the AST, values, environments and the machine's
operators on single values. `Compiler.tla` is the compiler: a record of code,
names, loop contexts and errors that every operator takes and gives back.
`IalangVM.tla` is `runChunk` with one action per kind of instruction. A program is
a sequence of functions; it calls two natives, `ask`, which the host answers with
true or false, and `print`. `out` is the sequence of these calls, `ending` how the
program ended: what can be seen of it.

`Semantics.tla` is the reference: it says of a program and the host's answers what
is called and how it ends, by recursion on the program, with no code, no jumps, no
stack and no handlers. It follows the language as `src/ialang/README.md` describes
it, and takes from the machine what the two must share (`Language`).

| Code | Model |
|---|---|
| `emit`, `patchJump`, `pushLoop`, `popLoop` | `Emit`, `Patch`, `PushLoop`, `PopLoop` |
| `compileStatement` | `CompileStatement`: `CompileIf`, `CompileWhile`, `CompileFor`, `CompileDoWhile`, `CompileEach` (for-in, for-of), `CompileSwitch`, `CompileTryCatch`, `CompileTryFinally`, `CompileDestructuring` ... |
| `compileExpression` | `CompileExpression`: `CompileBinary`, `CompileTernary`, `CompileOptionalChain`, `CompileUpdate`, `CompileCall` ... |
| `compileFunctionTemplate`, `compileDefaultParams` | `CompileFunction`, `CompileDefault` |
| `runChunk`, an instruction that works on the stack | `Compute` (the outcome: `Computed`) |
| names, jumps | `Store`, `Branch` |
| `OpPushTry`, `OpPopTry`, `OpThrow` | `PushTry`, `PopTry`, `Throw` |
| `execCall`, `callUserFunctionSync`, `OpReturn` | `CallNative`, `CallFunction`, `CallFails`, `Return` |
| `handleRuntimeError`, in every caller up to one with a handler | `Raise`, from `Fail`, `Throw` and every failing instruction |
| a Go panic: an index that is no instruction | `Panic` |

A call runs a VM of its own in the code and an element of `frames` here; an error
that reaches the end of a VM is the error of the caller's `OpCall`, which is why
`Raise` cuts `frames` at the nearest one that has a handler.

| Run | Instance | Shows |
|---|---|---|
| `LanguageSuite` (machine `ialang`) | 732 programs, of which 660 compile; every sequence of at most four answers | a supported program ends and has done what it means (`IalangFaithful`); handlers are those of the try blocks one is in, and no turn of a loop adds to the stack (`IalangBalanced`) |
| `ShortCircuit` | `ask() && ask()`, and the same with `\|\|` | *violation*: both operands are evaluated |

The programs: `Nested` puts each of five ways to leave a block (falling through,
`break`, `continue`, `return`, `throw`) into each of twelve blocks of statements, and
the result into each of the twelve again, inside a function that is called from a
try block; whether it is taken, each turn of a loop asks the host. Two levels are
where a jump or a handler of one statement meets the patching of another. `Rest`
has what does not nest: closures, recursion with operands waiting, defaults and
rest parameters, destructuring, every operator, the runtime errors, an exception
through two calls out of a loop in a switch. After `MaxAsks` answers the host says
no, so that every loop ends; four let two nested loops turn twice.

`Supported` says which programs the compiler gets right. The run holds a program
for each of its conjuncts that fails without it (the first of these is the subject
of `ShortCircuit`), so each names a defect of the code that a script can meet.

* `&&` and `||` evaluate both operands (`compiler_expr.go:188-198`).
* The `default` of a switch is compiled behind the cases, and a case that matched
  runs into it; a `break` in it goes back to its first statement; a `continue` in a
  switch is never patched and jumps to -1, where the machine panics.
* A `continue` in a do-while skips the condition.
* A `break` or `continue` out of a try block leaves the handler on the stack.
* A `finally` is skipped by a `return` out of its try block, and by everything that
  leaves the catch block. `src/ialang/README.md:161` lists among the known limits of
  iavm that `finally` is not guaranteed when there is an exception; of the ialang
  machine no document says more, so these are no findings.

The fairness is weak fairness of `MachineNext`: the machine runs until it has ended. Left
out are classes, objects and properties, spreads, templates, imports and exports,
async functions (section 5), `typeof`, bit operators, division and modulo, and the
sandbox's limits. Strings are one value, without the characters and the length that the machine would
give a program that asks (`vm_object.go:473`, `:217`), and none here does; numbers are
integers.

`IalangVM` has the compiled programs as a constant, `Templates`, and assumes that
they are what `Compiler` makes of `Programs`: TLC compares the two at the start.

The compiler recurses over trees, so these modules declare RECURSIVE operators and
have no theorems.

## 9. The same programs on iavm

`ialang build-iavm` lowers the compiler's chunks to a module, writes it to a file,
and `run-iavm` reads, verifies and runs that. Six tables have to agree on the way:
the names a function uses and their slots, what a closure takes and where it finds
it, the constants of all functions in one pool, the sections of the file, the
verifier's stack effects and what the interpreter pushes and pops.

| Code | Model |
|---|---|
| `LowerToModule`, slots, captures, globals, `lowerFunction` | `Lowering`: `LowerToModule`, `Slots`, `Captures`, `GlobalNames`, `LowerInstruction` |
| `BuildModuleConstantPool` | `BuildModuleConstantPool`, `Pooled` |
| `encoder.go`, `decoder.go` | `ModuleCodec`: a file is a sequence of fields with their widths, written and read one by one |
| `VerifyModule` and its parts | `Verifier`: `VerifyResourceLimits`, `VerifyControlFlow`, `VerifyStackEffects` ... |
| `iavm_module_loader.go` | `Load`: decode, then verify with the profile "sandbox" |
| the interpreter's loop | `IavmVM`: `Compute`, `Fetch`, `StoreLocal`, `StoreGlobal`, `MakeArray`, `Branch`, `PushTry`, `PopTry`, `Throw`, `MakeClosure`, `PushCallFrame`, `CallBuiltin`, `Return`, `Finish` |
| a Go panic | `Panic` |

There is no native that asks here, so the host's answers of section 8 are in an
array that the program indexes. `LanguageSuite` (machine `iavm`) runs 2014
programs: the nested blocks of section 8 with every exit, other than do-while and
for-of, with four lists of answers; and 14 others. 1194 of them are supported.

`IavmFaithful`: a supported program is accepted, ends, and has printed and returned
what `Semantics` says it means. `HeightsVerified`: in every state each call has as
many operands above its base as `VerifyStackEffects` computed for its address.

`PortableForms` says what is supported, and is as much a result as the properties:
every conjunct names a way in which the second machine is not the first.

* A return pushes nothing (`interpreter.go:308`): the caller takes what lies on top
  of the one stack for the value. It is the value if the return has one and the
  call was not left with operands below it; and nothing cuts the stack off when an
  exception leaves a call. Hence `KeepsStack`.
* The verifier does not know the stack effects of what do-while, for-in, for-of,
  `?.` and `??` are lowered to and refuses the module; `&&` and `||` give booleans.
  The address of a handler is no successor (`verifier.go:499`), so code that only
  an exception leads to is not verified; `HeightsVerified` compares nothing there.
* Whether two arrays are equal is a panic (`interpreter.go:1288`).
* A handler whose name is the first constant of its chunk has none
  (`compiler_lowering.go:387`); a function called `main` or `entry` is taken for the
  module's entry (`vm.go:120`); a local that hides another variable is mixed up with
  it (`NamesSupported`).
* A closure is made of copies whose originals move to new cells
  (`interpreter.go:226`), and its cells become its first locals: one closure works,
  made once in a call, without parameters or locals (`ClosuresSupported`). A maker
  of adders does not.
* Errors of operators and unknown names end the run or are values, where the
  language has exceptions (`NoErrors`).

`Compiler`, the reference and these modules declare RECURSIVE operators and have
no theorems.

## 10. The parser and the formatter

`ialang fmt` reads a file, parses it, formats the tree and writes the file back:
a mistake of either is a program that means something else.

| Code | Model |
|---|---|
| `lexer.go` | `Lexer`: a text is a sequence of symbols (words, digits, single characters); `Lexed` |
| `parser.go` | `Parser`: an operator per method, from the index of the current token to the index it stops at and what it has parsed |
| `fmt.go` | `Formatter` |
| one run of the command | `Formatter`: `ParseFile`, then `FormatFile` or `ParseErrors`; up to `MaxRuns` times |

`FrontendProperties` has how a careful programmer writes a tree (`Written`): with
parentheses around every operand that is more than a name or a literal.

| Run | Instance | Shows |
|---|---|---|
| `LanguageSuite` (machine `fmt`) | every form of expression in every place of every other, operators three deep, every form of statement with every form of expression and in every block, other ways to write things, 6000 scraps: beginnings of statements followed by three tokens, and 5850 texts in front of an import list that is broken off; two runs of the command | the parser gives back the tree the text was written for, exactly when it is `Readable` (`FilesUnderstood`); it comes to an end on every text, with a program or with errors, in which no import list is broken off (`FilesReadToEnd`); what is written for a `Formattable` tree is read as the same tree (`FilesKeepMeaning`) |
| `FmtGrouping` | the trees and texts of `MCFrontend` alone | *violation*: `a - (b - c)` is written as `a - b - c` |

Two levels are where a form meets its neighbour; a third one is needed for
operators, of which two can meet around one operand. Two runs of the command tell
what was formatted from what was formatted from that.

What the parser does not read as it is written: `async` arrows with parameters;
arrow defaults, or the last part of a for, that end with a parenthesis; a spread
argument of `new`. It also groups `new C(x).m()` as `new (C(x).m)()`, takes the
branches of a ternary with the precedence of the token behind the question mark,
reads `(a, b + 1)` as `b + 1`, accepts a block that is not closed at the end of the
file, and no case behind a switch's default. What the formatter does not keep, and
`Formattable` excludes: operands of the same precedence on the right, operators
under a unary minus or an await, defaults, rest parameters, spreads, `static`,
`get` and `set`, comments; for arrows, updates, `?.`, `typeof`, `void` and
`import()` it writes `undefined`, for several statements a comment.

An import list broken off behind a name, as in `import { a`, is read for ever: the
loop of `parser.go:543` adds the name again and again. Errors in front of the list do
not prevent that, because the parser goes on behind an error to report more of them:
a method that meets one returns nil, most callers do not look at that, and the next
statement begins behind the token where the last one stopped (`parser.go:192`). The
model does the same (`Nil`, `OrElse`, `Behind`), down to lists and expressions with
nothing in them, and keeps of the errors that there are some; the tree is thrown away
at the end. Which texts hang is stated from both sides: the parse ends unless some
import list is broken off, also in the expression of a template; and it does not end
when such a list begins the text or follows a semicolon (no `for` and no private field
in front, the two places where a semicolon does not end a statement). Between the two lie
texts whose errors decide: `) import { a` hangs, `for ( ; import { a` ends in errors.
Of the 5850 texts 3978 hang and 1872 end.

The command's steps have no fairness, its properties are about each step. `Reading` and `Printing` are constants
that the configurations give the parser and the formatter: TLC's statistics cannot
take in an action with definitions as recursive as theirs.

## 11. The module loader

`ModuleLoader.tla` is `Resolve` of `module_loader.go` and the imports of
`vm_import.go`, with the names of `iacommon/.../module/resolution.go`. Goroutines are
the script and its dynamic imports; each has the bodies of the modules it is in.

| Code | Model |
|---|---|
| `resolveWithStack`: native module, stack, cache | `CheckStack`, `LookUp` |
| the claim under the lock; waiting for who has it | `Claim` (`Register`, `Join`), `Wait` |
| read, parse, compile, run; the cache; what is deferred | `Enter`, `RunEnds`, `Store`, `Forget`, `Release`, `Close` |
| `OpImportName`, `OpImportDynamic`, the await of its promise | `ImportName`; `ImportDynamic`, `RunImport`; `Await` |
| `Resolve` and the resolver of a module: which map is passed on | `Resolve` (`StackOf`, `StacksFor`) |
| `DiscoverModuleResolverOptions`, `ResolveModuleImport`, aliases | operators of the same names; `Target` |
| a map used by two goroutines while one writes it | `ConcurrentMapAccess`: the runtime may end the process, and may not |

A dynamic import is a goroutine that begins with `RunImport`, and again after an
attempt that failed when the IO pool ran it: `Spawn` is given the whole
`loadModuleObject`, so that an attempt asks for the same name, with a new map when
the script asked and with the map of the module when a module did.

`RuntimeSuite` (focus `loader`) runs six projects: a script without a project
file; one module under three names, imported by three at a time; cycles in one
chain, with two other names, and by way of the entry; a cycle in two chains; two
dynamic imports with the map of their module that import each other; a module that
fails, by way of another one that fails, for two who wait for it, retried by the IO
pool. Between them the names are of every kind. `LoadedOnce`: a module is run by one importer at a time, and by none
once its exports are in the cache. `ImportsEnd`: every import ends, but for circles
of goroutines that wait for each other and have maps of two imports of the script:
those are the cycle that `module_loader.go:86` does not see. The property allows
nothing else to wait for ever; it does not say that a cycle which is reported is
one, since two dynamic imports of one module find each other's files in their map.

Fairness: goroutines run; the process need not crash. Left out are what a module
computes, the clone of its exports, and the number of IO workers, of which there
are as many as needed.

`RuntimeProofs` proves `ModulesLoadOnce` (`LoadedOnce`) for every set of projects,
with any files, cycles, names and attempts; the only assumption is that a dynamic
import is attempted at least once. `LoadedOnce` alone is not inductive: that two
goroutines cannot run one module rests on the numbers of loads and on when a claim is
given up. `LoaderInv`, in `ModuleLoader.tla`, has three parts. `OneBody`: a load is
run by one body. `Claimed`: from the claim until `Release` a body's file is in
`inflight` with that body's load, so two bodies of one file would be one
(`ClaimsApart`). `Unstored`: no body is being run whose file is in the cache, which
needs the second look at the cache under the lock (`module_loader.go:78`) when a load
begins, and `ClaimsApart` when the exports are stored. One lemma says what a step
leaves alone that moves a goroutine and keeps its bodies (`LoaderMoved`); it has the
cases of a return (`LoaderReturned`), a failure (`LoaderFailed`), a next place
(`LoaderPassed`) and an import that begins (`LoaderResolves`), which are ten of the
fifteen actions of a goroutine, and a `Claim` that finds the module or its load. The
others change a table or a list of bodies, and have a lemma each: `LoaderStores`,
`LoaderReleases`, `LoaderRegisters`, `LoaderCloses` and `LoaderSpawns`. The proof also
needs that a place has what it uses, a map, a load or a body: that is in `TypeOK`.

## 12. Arrays

`Arrays.tla` has the methods of `array_proto.go` and the functions of
`builtin/array.go` and `builtin/sort.go`, as operators from arguments to an outcome,
on arrays that are slices: a buffer and how much of it is theirs. One action calls
any of them; what it makes is a new array, in a new buffer or, for `push`, in the
room behind the old one. Callbacks compute and have no effects.

`RuntimeSuite` (focus `array`) starts with six families of literals and makes
every call with every argument list of a set that has indexes on both sides of
both ends, null, and all callbacks. `MaxCopies` = 2 bounds the arrays on which
everything is called, `MaxArrays` = 4 those that are pushed together after that
(two pushes onto one array are the fewest that can meet), `MaxLength` = 6. A buffer
has at most 16 places (`MaxCapacity`), up to which the sizes `Grown` gives are those
that Go allocates; the run stays below.

`ArraysKept`: no call changes an array the script has, except that a second push
onto one array may overwrite what the first one appended (`array_proto.go:378`).
`AnswersFit`: a method and the function of its name agree, where `Differ` does not
name a difference; the parts of a slice are the whole; `indexOf`, `lastIndexOf`,
`includes` and `at` agree; `filter`, `some`, `every` and `find` choose the same. The
differences include a panic: `array.slice` with an end in front of the array
(`array.go:365`). Also modelled, and not what one expects: `array.from` of a text
with characters of several bytes leaves nulls, and the array that `splice` leaves
behind is dropped.

`ArraysProofs`, and `RuntimeProofs` for the run, prove `ArraysKept`
(`CallsKeepArrays`) for any arrays to begin with and any argument lists, from
`ArgumentsAreLists`, which says that these are lists and which TLC evaluates on the
run (`ArraysAssumption`). Two facts make the property inductive: `Roomy`, that every
buffer has room for its arrays, and `FirstShortest`, that of the arrays of one buffer
the one it was made for is the shortest. A push writes behind the elements of its
array, so that only a longer array of the same buffer can change, and by
`FirstShortest` that one was pushed as well. The rest is that no call but `push`
writes into an old buffer: every other outcome is `Apart`, function by function.
`AnswersFit` stays with TLC: it compares what folds over any list compute.

## 13. The express router

`Express.tla` is the router of `pkg/express` under a script that installs
middleware, groups and routes while requests run. A handler is a number and the
operations of the context it does. Nothing but the lists is shared, so a handler is
one step. What handlers do is abstracted to a sequence of `Operations` of the
context, one status (201) standing for those a script may set. A group's list is a
slice, since `RouteGroup.Handle` appends to it without storing it; the router's own list is read without the lock that `Use`
holds (`router.go:233`), so a request may see the old list, the new one, or the
length of one with the buffer of the other. The status of an answer is the one the
client gets, the first that was written; the field `status` of `Response` holds the
last one, for a logger that drops it.

| Code | Model |
|---|---|
| `use`, `get` ... `all`, `group`, and those of a group | `Use` and `UseReturns`, `Handle`, `Group`, `GroupUse`, `GroupHandle` |
| `matchPath`, `Match` | operators of the same names; `Params` |
| `ServeHTTP`: global middleware, match, handlers, recover | `Arrive`, `RunGlobal` (`CallNobody`), `MatchRoute`, `RunRoute`; `Recovered` |
| what a script does to a request | `Operation` (`Status`, `Body`, `Redirect`, `Abort`), `Failed`, `Handled` |
| the middleware of `CORS` | `Preflight` |
| `listen` and `close` of an application | `ExpressServer`: `Assign`, `Bind`, `Serve`, `Close` |

`ServicesSuite` (focus `router`) asks five questions, each a set of records of
`RouterSetups`: every list of up to five calls on groups with up to three
middlewares, or with one that ends the request; middleware installed while a request runs; twelve behaviours of a
middleware with twelve of a first handler and three of a second one; every pattern
of up to three parts with every path of up to three; two of these patterns, and a
route for any method, in every order. `Served`: the middleware that was installed
when a request arrived runs before any route, whole and in order; the route is the
first that fits (`Fits` cuts the path into parts and knows nothing of the
algorithm) and its parameters put into the pattern give the path; nothing runs behind
a handler that ended the request; the status is what the first handler that said
anything said. Three exceptions are in the property, each what the code does: a
route of a group may run the handler of a later route of the same group
(`router.go:117`; three middlewares leave room for one), a pattern with parts behind
its wildcard takes more than fits it, and who calls `Use` while a request reads the
list may end the process.

Also modelled, and not what one expects: `ctx.next()` runs nothing, because nobody
gives a context its handlers, so `Recovery` catches nothing and the recover of
`ServeHTTP` answers; a status alone does not count as written, so a panic behind it
adds a body to the status that was sent.

`ExpressProofs` proves `TypeCorrect` and `RequestsServed` (`Served`) for any calls a
script may make, in any order, with any handlers and paths, and any number of
requests at once. `SetupsTyped` is what they assume of `Setups`: paths and methods
are of the given sets; a handler is over when it fails or panics, and `CORS` is a
handler of its own; of a prefix and a path one has the slash that joins them; and a
group is made with at most 32 middlewares, the range in which `RoomOneByOne` is
defined (later calls of its `use` may bring it to any number). The run evaluates it
(`RouterAssumption`). `MCServices` takes the router as an instance of `ExpressProofs`,
which extends `Express`, so that `ServicesProofs` can state the same of the router as
the run checks it (`RequestsServed`) and of the suite (`RouterHolds` in
`ServicesInv`). Two invariants carry the proof.
`GroupsInv` and `RoutesInv` speak of slices: each lies in its buffer, no two groups
append to one buffer, and what lies in a group's buffer belongs to that group and to
its routes, of which none begins with more of the group's middleware than the group
has. That is why an append in place, which overwrites what lies behind the group's
own length, spares the middleware of every route (`Kept`), while it may replace a
handler. `MiddlewareInv`, `ListInv`, `RouteInv` and `AnswerInv` speak of a request:
what it has run and *what is left of the list it read* begins with the list that was
installed, agrees with the list there is now, and only the last of it can be
`Nobody`; while it runs, nothing has ended it, and no handler of its route has run
before the list was done. That `matchPath` takes what `Fits` says (`MatchFits`, `FitsMatches`) and that
its parameters fill the pattern are lemmas about sequences, proved by the least
counterexample, since the cuts that `Fits` speaks of are unbounded in number.

`ExpressServer` (focus `listen`) has two calls of `listen` whose addresses may be
taken and whose close may be called again. In the end a listener whose close was called is closed (part of
`ConnectionsEnd`), unless `listen` was called again while it had one: the variable
of the server is the application's, and the close ends the newer server.

## 14. Streams: server-sent events and WebSockets

| Code | Model |
|---|---|
| `register`, `unregister`, `broadcast`, `closeAll` of the hub | actions of the same names in `SseServer` |
| a request: the select, the write; `close` of the server | `ContextDone`, `Take`, `ChannelEnds`, `Write`; `closeAll`, then `ServerClose` |
| a client: connect, `recv`, `close` or its timeout | `Connect`, `Recv`, `Leave` |
| `writeSSEEvent`, `readSSEEvent` | operators of the same names in `SseFraming` |
| a WebSocket client: `send`, `recv`, `close` | `Begin`, `Lock`, `Send`, `Recv`, `CloseConn` |
| the goroutine that serves it | `WriteWelcome`, `ReadMessage`, `WriteMessage`, `ServerFails` |

`ServicesSuite` has two clients of a server of events, one of which never has to
read, with two sends, two closes, channels of one place (16 in the code) and
connections that take one event before a write blocks; every event with a name of
up to one character and data of up to four, among them spaces, colons, carriage
returns and line feeds; and a WebSocket client with three sends and two receives,
over connections that take one message in each direction.

`Streamed`: a client has read the beginning of what was counted for it, in order,
and while its connection is open the rest is on its way (`InOrder`); `send` answers
how many clients it was put down for (`Counted`); a channel is closed once,
whoever leaves first, and nothing is sent to it then (`ClosedOnce`); what is written
is read as one event with its name and lines, less carriage returns at their ends
(`Framed`, in `TextsRead`); what is echoed comes back in order, once, behind the
greeting (`EchoedInOrder`). `ConnectionsEnd`: in the end a client that reads has read all
that was counted for it, a closed server has no goroutine left, and every call on a
WebSocket has returned. Before a close there are two exceptions, the ways in which
the one mutex of a client (`websocket.go:180`) is never given back: a receive that
waits holds up the send it would be answered by, and sends without a receive fill
both directions.

Fairness: goroutines run, and the clients that are not in `Idle` read. These parts
and the bus make finitely many steps for their bounded inputs, so weak fairness of
all of them together starves none, and what their liveness says stays true once it
is: it is stated as `<>[]` of one predicate. Left out: event names with a line break
in them, which are read as two fields; the `id` and `retry` fields, which no `send`
sets; and a WebSocket connection's own handling of control frames. So is the greeting that a client of SSE gets when it has registered, with its
error, which nobody looks at (`sse.go:324`). Closing a
WebSocket server does not end connections (`net/http` no longer knows them), so there
is no action for it.

`ServicesProofs` proves `StreamsInOrder` (`Streamed`), for any number of clients, sends,
closes and calls, with channels and connections of any size. `StreamsAssumption` says
that the clients are finitely many, that calls are numbers, in the order in which they
begin, and that a WebSocket's connection takes the greeting before it blocks. The
invariant of the hub is `HubInv`: what a client has read *and what is still under way
to it* is the beginning of what was counted for it, since `InOrder` alone says nothing
of events that a cut connection may still bring; only who is writing holds an event;
what is in a client's list was sent before, so that the next send is not in it and
each list has an event once; and nothing is counted for a client, nor is its channel
closed, before it is in the hub. `Client` collects this for one client, and a step of
one (`ClientSteps`) leaves the others alone; `broadcast`, `closeAll` and `ServerClose`
move all at once. The invariant of the WebSocket client is `SocketInv`: before the
greeting a client can only have sent, a server that does not echo drops what it
reads, and while the connection is open the goroutine that serves it has not ended.
That `IsPrefix` of sequences is an agreement of their elements is the lemma `StartIs`.

`SseFramingProofs` proves `EventsFramed` (`Framed`) for a name and data of any length.
The reader's state behind a text that ends a line (`Reads`) moves by one `ReadLine` for
a line more (`ReadsALine`), so that writer and reader can be followed field by field:
the first colon of a written line is the one that `Field` put there (`FirstColon`),
however many the value has, the space behind it is taken off once, and what
`TrimRight` takes off a line it takes off its value (`LedTrims`). What is read of the
data are its lines, each trimmed (`DataRead`). That joining them gives the data back,
less the carriage returns at the ends of its lines (`LinesJoin`), needs to know that
the lines lie in the data one behind the other with a line feed between (`Lie`).

`TextsAreRead` and `ServicesKept` of `ServicesProofs` say the same of the texts of the
run (`TextsRead`), as `MCServices` takes both from their proof modules.

## 15. Not modelled, or only checked

Proved are the safety properties of the pool, the manager, the async runtime, the
combinators, the timers, the module loader, the iavm machine and its suspensions, the
host's handles, the message bus, its event store and its topics, the streams and their
framing, the router, the arrays, and the pool's refinement. Each is proved under the
specification of its part. The suites put parts side by side that share no variable:
`RuntimeMoves` and `ServicesMove` show that a step of a suite is a step of one part
and a stutter of the others, so that the invariants of all parts hold of the suite
(`RuntimeHolds`, `ServicesHold`); `RuntimeTyped` and `ServicesTyped` are its type
invariant `SuiteTypeOK`, and `ServicesKept` has all other invariants of
`ServicesSuite`, `RuntimeKept` and `CallsKeepArrays` those of `RuntimeSuite` but
`AnswersFit`, with its action properties. The other properties are model-checked, on
the instances named: that the answers of array functions fit together (`AnswersFit`),
those of the language (`IalangBalanced` and the faithfulness of machines, compilers
and front end), and of the listeners. Liveness (`WorkSettles`, `CallersReturn`,
`WorkEnds`, `RunSettles`, `ConnectionsEnd`, `ImportsEnd` and the endings in the
faithfulness of the machines) is never proved, nor is what a RECURSIVE operator
computes: the modules of the language, from the lexer to the machines, declare such
operators and have no theorems. What a recursive *function* computes is proved where a
proof needs it, by the least counterexample (`LeastNumber`), since the induction
theorems of the library take an operator. Times and durations are nowhere in the
models: a timeout may strike at any moment.

`PROJECT.json` gives a reason for each component that has no module. Most are
calls of Go's library, which keep no state; the others keep state that one lock
guards from end to end, or are an operating system's processes, sockets and files.
