----------------------------- MODULE MCRuntime ------------------------------
(* Async calls, the combinators, timers, imports, arrays, the iavm machine *)
(* and the host's handles side by side.  They share no variable, so that a *)
(* behaviour in which one of them moves shows all that an interleaving of  *)
(* them could; focus says which.                                           *)
EXTENDS Integers, HostHandles, TLC

CONSTANTS
  Tasks, HangingTasks, TaskTimeout, AwaitTimeout, MaxAwaits,       \* of AsyncRuntime
  N,                                                       \* of PromiseCombinators
  Timeouts, Intervals, Jobs, Loops, Managers, MaxTicks, MaxTimers,        \* of Timer
  Workers, QueueSize, MaxRetries,                 \* of AsyncRuntime and of Timer
  Projects, Builtins,                                              \* of ModuleLoader
  a, b, stuck, write, Programs, Handles, Hanging, RetryCount, None, \* of Suspension
  Literals, ArgumentLists(_, _), MaxCopies, MaxArrays, MaxLength             \* of Arrays

ASSUME RuntimeAssumption ==    \* lengths and bounds are numbers, a call has one kind
  /\ N \in Nat /\ RetryCount \in Nat /\ MaxAwaits \in Nat /\ MaxRetries \in Nat /\ MaxTicks \in Nat
  /\ (Timeouts \cup Intervals \cup Jobs) \cap Loops = {}
  /\ Managers \subseteq {"off", "bare", "open"}
  /\ \A p \in DOMAIN Projects : Projects[p].attempts \in Nat \ {0}

VARIABLES
  focus,
  isInitialized, isShutdown, ioPool, usePool, where, runs, outcome, promise, awaits, awaiting, answers,
  input, first, allAt, all, settledAt, report, watcher, channel, race,
  state, timerTable, issued, closed, ticks, place, callbackRuns, manager, silenced,
  project, cache, inflight, loads, stacks, goroutines, crashed,
  buffers, arrays,
  program, setup, host, call, phase, result, machines, promises, suspension, op, ctx

Async == INSTANCE AsyncRuntime WITH Hanging <- HangingTasks
Combinators == INSTANCE PromiseCombinators
Timers == INSTANCE Timer WITH runs <- callbackRuns, table <- timerTable
Loader == INSTANCE ModuleLoader
Arrays == INSTANCE ArraysProofs
Machine == INSTANCE Suspension

(* A program is well formed, and an async function calls no other.  The    *)
(* name of an operation is no handle.                                      *)
ASSUME ProgramsAssumption ==
  /\ None \notin Handles
  /\ \A code \in Programs : /\ Machine!WellFormed(code.main) /\ Machine!WellFormed(code.async)
                            /\ \A i \in DOMAIN code.async : code.async[i].op # "async"

asyncVars ==
  <<isInitialized, isShutdown, ioPool, usePool, where, runs, outcome, promise, awaits, awaiting, answers>>
promiseVars == <<input, first, allAt, all, settledAt, report, watcher, channel, race>>
timerVars ==
  <<state, timerTable, issued, closed, ticks, place, callbackRuns, manager, silenced>>
loaderVars == <<project, cache, inflight, loads, stacks, goroutines, crashed>>
arrayVars == <<buffers, arrays>>
machineVars == <<program, setup, host, call, phase, result, machines, promises, suspension, op, ctx>>
suiteVars == <<focus, vars, asyncVars, promiseVars, timerVars, loaderVars, arrayVars, machineVars>>

(* Two promises, one awaited twice, an async function, and a call and a    *)
(* poll for which the host hangs.                                          *)

PollOp(h) == [op |-> "poll", arg |-> h]
CallOp(name) == [op |-> "call", arg |-> name]
Load(k) == [op |-> "load", arg |-> k]
Await == [op |-> "await", arg |-> None]
Spawned == [op |-> "async", arg |-> None]

MCPrograms ==
  {[main |-> <<PollOp(a), PollOp(b), Load(1), Await, Load(2), Await>>, async |-> <<>>],
   [main |-> <<PollOp(a), Load(1), Await, CallOp(write), Load(1), Await, Await>>, async |-> <<>>],
   [main |-> <<PollOp(a), Spawned, Await, Load(1), Await>>, async |-> <<PollOp(b), Await>>],
   [main |-> <<Spawned, Await, Await>>, async |-> <<PollOp(a)>>],
   [main |-> <<CallOp(write), PollOp(stuck), Await>>, async |-> <<>>]}
Idle == CHOOSE p \in Programs : TRUE

(* What scripts import from what: modules in p/src of a project p.         *)
Name(kind, path) == [kind |-> kind, path |-> path, ext |-> ""]
Near(x) == Name("relative", <<x>>)
In(x) == [path |-> <<"p", "src", x>>, ext |-> "ia"]
Step(kind, name, caught) == [op |-> kind, name |-> name, caught |-> caught]
Import(name) == Step("import", name, FALSE)
Trying(name) == Step("import", name, TRUE)
Dynamic(name) == Step("dynamic", name, FALSE)
AwaitImport(caught) == Step("await", Near("-"), caught)
ThrowStatement == Step("throw", Near("-"), FALSE)
NativeName == Name("bare", <<"fs">>)
MCBuiltins == {NativeName}
Aliases == (<<"lib">> :> [absolute |-> FALSE, path |-> <<"src">>])
  @@ (<<"lib", "deep">> :> [absolute |-> TRUE, path |-> <<"p", "src", "x">>])
Project(source, attempts) ==
  [source |-> source, entry |-> In("main"), attempts |-> attempts,
   configs |-> <<"p">> :> [rootAlias |-> <<"@">>, aliases |-> Aliases]]

MCProjects == <<
  \* a script without a project file
  [source |-> In("main") :> <<Trying(Name("bare", <<"lib", "c">>)), Trying(Name("slash", <<"c">>))>>,
   entry |-> In("main"), attempts |-> 1, configs |-> <<>>],
  \* one module under three names, imported by three at a time
  Project((In("main") :> <<Dynamic(Name("relative", <<"..", "src", "c">>)), Dynamic([Near("c") EXCEPT !.ext = "ia"]),
                           Import(Name("bare", <<"@", "src", "c">>)), AwaitImport(FALSE)>>)
          @@ (In("c") :> <<>>), 1),
  \* a cycle in one chain, and the script that is a module of its module; two other names; what is not found
  Project((In("main") :> <<Trying(Near("a")), Trying(Near("c")), Import(Name("bare", <<"lib", "d">>)),
                           Import(Name("slash", <<"src", "d">>)), Import(NativeName)>>)
          @@ (In("a") :> <<Dynamic(Near("b")), AwaitImport(FALSE)>>) @@ (In("b") :> <<Import(Near("a"))>>)
          @@ (In("c") :> <<Import(Near("main"))>>)
          @@ (In("d") :> <<Trying(Name("bare", <<"nothing">>)), Trying(Near("missing"))>>), 1),
  \* a cycle of three in two chains
  Project((In("main") :> <<Dynamic(Near("a")), Dynamic(Near("b")), AwaitImport(TRUE), Trying(Near("c"))>>)
          @@ (In("a") :> <<Import(Near("b"))>>) @@ (In("b") :> <<Import(Near("c"))>>)
          @@ (In("c") :> <<Import(Near("a"))>>), 1),
  \* two dynamic imports with the map of their module, which import each other
  Project((In("main") :> <<Trying(Near("a"))>>)
          @@ (In("a") :> <<Dynamic(Near("b")), Dynamic(Near("c")), AwaitImport(TRUE), Import(Near("b"))>>)
          @@ (In("b") :> <<Trying(Near("c"))>>) @@ (In("c") :> <<Trying(Near("b"))>>), 1),
  \* a module that fails, by way of another that fails too, for two who wait, and again
  Project((In("main") :> <<Dynamic(Near("a")), Trying(Near("b")), AwaitImport(TRUE)>>)
          @@ (In("a") :> <<Trying(Near("b")), ThrowStatement>>) @@ (In("b") :> <<ThrowStatement>>), 2)>>

(* The arrays to begin with, and what their functions are called with.     *)
(* Values are written without the constants of Arrays, which these are.    *)
NoLists(name, k) == {}
Values == INSTANCE Arrays
  WITH Literals <- {}, ArgumentLists <- NoLists, MaxCopies <- 0, MaxArrays <- 0, MaxLength <- 0
Num(n) == Values!Number(n)
Str(s) == Values!Text(s)
Fn(f) == Values!Function(f)
At(k) == Values!ArrayAt(k)
Nil == Values!Null
TheLiterals == {
  << <<Num(3), Num(1), Num(2)>> >>,
  << <<Num(2), Str("a"), Nil, Num(2)>> >>,
  << <<>> >>,
  << <<Num(1), Nil>>, <<Num(2), At(1), Str("b")>> >>,
  << <<Str("b"), Str("a"), Str("")>> >>,
  << <<Num(3), Values!Bool(FALSE), Fn("odd"), Num(3)>> >> }
Callbacks == {Fn(f) : f \in {"odd", "later", "failsAtTwo", "nested"}}
TheArguments(name, k) ==
  CASE name \in {"map", "filter", "find", "findIndex", "forEach", "some", "every", "flatMap"} ->
         {<<f>> : f \in Callbacks \cup {Nil}} \cup {<<>>}
    [] name = "sortBy" -> {<<f>> : f \in Callbacks \ {Fn("later")}}
    [] name = "reduce" -> {<<f>> : f \in Callbacks} \cup {<<f, Nil>> : f \in Callbacks}
    [] name \in {"includes"} -> {<<Num(2)>>, <<Nil>>, <<Str("a")>>, <<Fn("odd")>>}
    [] name \in {"indexOf", "lastIndexOf"} ->
         {<<Num(2)>>, <<Nil>>} \cup {<<Num(2), Num(n)>> : n \in {-5, -2, 0, 1, 4}}
    [] name = "join" -> {<<>>, <<Str("a")>>, <<Num(1)>>}
    [] name = "slice" -> {<<>>, <<Nil>>} \cup {<<Num(n)>> : n \in -2..2}
                         \cup {<<Num(n), Num(m)>> : n \in {-1, 0, 1, 5}, m \in {-5, -1, 1, 2, 5}}
    [] name = "splice" -> {<<Num(n)>> : n \in {-1, 1}} \cup {<<Num(n), Num(m), Nil>> : n \in {-5, 1, 5}, m \in {-1, 1, 5}}
    [] name \in {"flat"} -> {<<>>} \cup {<<Num(n)>> : n \in {0, 1, 2}}
    [] name = "fill" -> {<<>>, <<Num(1)>>}
    [] name \in {"concat", "unshift", "push"} -> {<<Num(1)>>, <<Num(2), Nil>>, <<At(1)>>}
    [] name = "range" -> {<<Num(2)>>, <<Num(1), Num(3)>>, <<Num(3), Num(0), Num(-2)>>, <<Num(0), Num(3), Num(0)>>}
    [] name = "from" -> {<<At(k)>>, <<Str("wide")>>, <<Str("a")>>, <<Nil>>}
    [] name = "of" -> {<<Nil, Num(2)>>}
    [] name = "at" -> {<<Num(n)>> : n \in {-1, 0, 5}}
    [] OTHER -> {<<>>}

(* They are lists, of as many elements as they are long.                   *)
ASSUME ArraysAssumption == Arrays!ArgumentsAreLists

SuiteInit ==
  /\ focus \in {"async", "promise", "timer", "loader", "array", "run", "host"}
  /\ Init /\ Async!Init /\ Combinators!Init /\ Timers!Init /\ Loader!Init /\ Machine!Init
  /\ focus # "async" => ioPool = "open"
  /\ focus # "loader" => project = Projects[1]
  /\ IF focus = "array" THEN Arrays!Init ELSE buffers = <<>> /\ arrays = <<>>
  /\ focus # "timer" => manager = "open"
  /\ setup.retries \in {{}, {"poll"}, {"wait", "call"}}
  /\ focus # "run" => program = Idle /\ setup = [waiter |-> FALSE, timeouts |-> FALSE, retries |-> {}]

Steps(async, combinators, timers, loader, arrayCalls, machine, handles) ==
  /\ \/ focus = "async" /\ async /\ UNCHANGED <<vars, promiseVars, timerVars, loaderVars, arrayVars, machineVars>>
     \/ focus = "promise" /\ combinators /\ UNCHANGED <<vars, asyncVars, timerVars, loaderVars, arrayVars, machineVars>>
     \/ focus = "timer" /\ timers /\ UNCHANGED <<vars, asyncVars, promiseVars, loaderVars, arrayVars, machineVars>>
     \/ focus = "loader" /\ loader /\ UNCHANGED <<vars, asyncVars, promiseVars, timerVars, arrayVars, machineVars>>
     \/ focus = "array" /\ arrayCalls /\ UNCHANGED <<vars, asyncVars, promiseVars, timerVars, loaderVars, machineVars>>
     \/ focus = "run" /\ machine /\ UNCHANGED <<vars, asyncVars, promiseVars, timerVars, loaderVars, arrayVars>>
     \/ focus = "host" /\ handles /\ UNCHANGED <<asyncVars, promiseVars, timerVars, loaderVars, arrayVars, machineVars>>
  /\ UNCHANGED focus

SuiteSpec ==
  /\ SuiteInit
  /\ [][Steps(Async!Next, Combinators!Next, Timers!Next, Loader!Next, Arrays!Next, Machine!Next, Next)]_suiteVars
  /\ WF_suiteVars(Steps(Async!Run, Combinators!Combine, Timers!Run, Loader!Run, FALSE, Machine!Proceed, FALSE))

(* The properties of the components, under the names this run gives them.  *)
SuiteTypeOK ==
  TypeOK /\ Async!TypeOK /\ Combinators!TypeOK /\ Timers!TypeOK /\ Loader!TypeOK /\ Machine!TypeOK
(* A promise is answered once, by a run of its function or by its timeout. *)
Answered == Async!OneAnswer /\ Async!AnswerEarned
(* Accepted work is done and awaited results come, through the IO pool,    *)
(* its closing and the timeouts; so do all, race and allSettled, when what *)
(* they wait for comes; and no timer, firing or goroutine is left behind.  *)
(* What has once come to its end stays there, so <>[] says it of all.      *)
WorkEnds == <>[](Async!WorkEnded /\ Combinators!AllSettled /\ Timers!TimersEnded)
CombinatorsFaithful == Combinators!CombinatorsFaithful
ClearedNeverRuns == Timers!ClearedNeverRuns
(* Whoever imports a module, by any name, sees one and the same run of it. *)
LoadedOnce == Loader!LoadedOnce
(* Every import ends, with exports or an error, also when the module fails *)
(* or imports itself by way of others.  Only imports of the script that    *)
(* are made at a time may end up waiting for each other, when their        *)
(* modules import each other: each has a map of its own, in which the      *)
(* other's modules are not (module_loader.go:53, :86).                     *)
ImportsEnd == <>(focus = "loader" => Loader!ImportsEnded)
Coherent == Machine!Coherent
SuspensionKept == Machine!SuspensionKept
(* RunUntilSettled returns when its context has ended, also while the host *)
(* hangs, and when the host is done with every handle.                     *)
RunSettles == Machine!ContextStopsRun /\ Machine!RunSettles
PendingSuspends == Machine!PendingSuspends
(* A call changes none of the arrays that a script has.  The exception is  *)
(* an array that was pushed together, when something else is pushed onto   *)
(* what it was made of (array_proto.go:378).                               *)
ArraysKept == Arrays!ArraysKept

(* The answers of array calls fit together: those of a method and of the   *)
(* function of its name (with the differences that Differ names), the      *)
(* parts of an array and the whole, the first and the last place of an     *)
(* element, and what the same callback chooses.                            *)
AnswersFit ==
  focus = "array" /\ Len(arrays) <= MaxCopies => Arrays!AnswersFit(Len(arrays))
=============================================================================
