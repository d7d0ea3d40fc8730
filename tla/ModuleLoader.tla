---------------------------- MODULE ModuleLoader ----------------------------
(***************************************************************************)
(* Imports (lang/module_loader.go, runtime/vm/vm_import.go): a script and  *)
(* the modules it loads, on several goroutines.  A module is read and run  *)
(* by the first that imports it; who imports it meanwhile waits.           *)
(*                                                                         *)
(* A resolver knows the modules that are being loaded above it from a map, *)
(* the stack.  An import of the script has a map of its own; the imports   *)
(* of a module use the map it was loaded with, its dynamic imports too,    *)
(* which run on goroutines of their own (with the pools initialised on IO  *)
(* workers, of which there are as many as needed here).                    *)
(*                                                                         *)
(* A file is its path, a sequence of segments, and its extension.  What is *)
(* in it is a sequence of statements, those that matter here; a module     *)
(* that cannot be read, parsed or compiled is a file without source.       *)
(***************************************************************************)
EXTENDS Integers, SequencesExt, FiniteSets

CONSTANTS
  Projects,    (* what there is to run: sequence of records of               *)
               (*   source    statements of every file                       *)
               (*   entry     the script                                     *)
               (*   configs   of directories with a pkg.toml                 *)
               (*   attempts  of a dynamic import that fails: 1, or          *)
               (*             MaxRetries + 1 of the IO pool                  *)
  Builtins     (* names of native modules                                    *)

VARIABLES
  project,     (* the one that runs                                          *)
  cache,       (* exports of the modules that were loaded, by file: the      *)
               (* number of the load that made them                          *)
  inflight,    (* loads in progress, by file                                 *)
  loads,       (* all loads: whether done is closed, and with what answer    *)
  stacks,      (* the maps                                                   *)
  goroutines,  (* the script and the dynamic imports                         *)
  crashed      (* the process was ended                                      *)

vars == <<project, cache, inflight, loads, stacks, goroutines, crashed>>

Source == project.source
Configs == project.configs

-----------------------------------------------------------------------------
(* From a name to a file (module/resolution.go).  A name has a kind: it    *)
(* starts with . or .., with a slash, or with neither.                     *)

NotFound == [path |-> <<>>, ext |-> "none"]
Native == [path |-> <<>>, ext |-> "native"]
Clean(path) ==
  FoldLeft(LAMBDA p, s : IF s = ".." THEN SubSeq(p, 1, Len(p) - 1) ELSE IF s = "." THEN p ELSE Append(p, s),
           <<>>, path)
Dir(file) == Front(file.path)
AppendModuleExt(path, ext) == [path |-> Clean(path), ext |-> IF ext = "" THEN "ia" ELSE ext]

(* The nearest directory with a project file, from the script upwards. *)
FindProjectConfig(dir) ==
  LET found == {d \in DOMAIN Configs : IsPrefix(d, dir)}
  IN IF found = {} THEN <<>> ELSE <<CHOOSE d \in found : \A e \in found : Len(e) <= Len(d)>>
DiscoverModuleResolverOptions(script) ==
  LET root == FindProjectConfig(Dir(script))
  IN IF root = <<>> THEN [root |-> <<>>, rootAlias |-> <<>>, aliases |-> <<>>]
     ELSE [root |-> root, rootAlias |-> Configs[root[1]].rootAlias, aliases |-> Configs[root[1]].aliases]

Suffix(path, n) == SubSeq(path, n + 1, Len(path))
HasRootAlias(name, opts) ==
  opts.rootAlias # <<>> /\ opts.root # <<>> /\ IsPrefix(opts.rootAlias, name.path)
MatchModuleAlias(name, aliases) ==
  LET matching == {a \in DOMAIN aliases : a # <<>> /\ IsPrefix(a, name.path)}
  IN IF matching = {} THEN <<>> ELSE CHOOSE a \in matching : \A b \in matching : Len(b) <= Len(a)
(* The longest alias decides, also when its target needs a root and there  *)
(* is none.                                                                *)
ResolveAliasModuleImport(name, opts) ==
  LET alias == MatchModuleAlias(name, opts.aliases)
      target == opts.aliases[alias]
      rest == Suffix(name.path, Len(alias))
  IN IF alias = <<>> THEN NotFound
     ELSE IF target.absolute THEN AppendModuleExt(target.path \o rest, name.ext)
     ELSE IF opts.root = <<>> THEN NotFound
     ELSE AppendModuleExt(opts.root[1] \o target.path \o rest, name.ext)

ModuleImportPath(from, name, opts) ==
  CASE name.kind = "relative" -> AppendModuleExt(Dir(from) \o name.path, name.ext)
    [] name.kind = "slash" ->
         AppendModuleExt((IF opts.root = <<>> THEN <<>> ELSE opts.root[1]) \o name.path, name.ext)
    [] name.kind = "bare" /\ HasRootAlias(name, opts) ->
         AppendModuleExt(opts.root[1] \o Suffix(name.path, Len(opts.rootAlias)), name.ext)
    [] OTHER -> ResolveAliasModuleImport(name, opts)

(* The registry of native modules comes first. *)
Target(from, name) ==
  IF name \in Builtins THEN Native
  ELSE ModuleImportPath(from, name, DiscoverModuleResolverOptions(project.entry))

-----------------------------------------------------------------------------
(* A goroutine: the dynamic import it is for, the bodies it is in, where   *)
(* it is, and, during an import, what it imports with which map, the load  *)
(* it waits for, and the answer.                                           *)

Goroutine(import, calls, at) ==
  [import |-> import, calls |-> calls, at |-> at, target |-> NotFound, stack |-> 0, load |-> 0,
   attempts |-> project.attempts, answer |-> "none"]
(* What a body with a map asks for; the body of the script is load 0.      *)
Request(call, target) == [target |-> target, load |-> call.load, stack |-> call.stack]
Call(file, load, stack) == [file |-> file, load |-> load, stack |-> stack, pc |-> 1, promise |-> 0]

Init ==
  /\ \E i \in DOMAIN Projects : project = Projects[i]
  /\ cache = <<>> /\ inflight = <<>> /\ loads = <<>> /\ stacks = <<>> /\ crashed = FALSE
  /\ LET script == Call(project.entry, 0, 0)
     IN goroutines = <<Goroutine(Request(script, NotFound), <<script>>, "body")>>

At(g, at) == ~crashed /\ goroutines[g].at = at
Become(g, r) == goroutines' = [goroutines EXCEPT ![g] = r]
Moved(g, at) == [goroutines[g] EXCEPT !.at = at]
Top(r) == Last(r.calls)
Statement(r) == Source[Top(r).file][Top(r).pc]
Advanced(r) ==
  [r EXCEPT !.at = "body", !.calls[Len(r.calls)].pc = @ + 1, !.target = NotFound, !.stack = 0, !.load = 0, !.answer = "none"]

(* An error leaves the body, and the loads that run it, or the script. *)
Failing(r, error) ==
  [r EXCEPT !.at = IF Top(r).load = 0 THEN "ended" ELSE "forget", !.answer = error]

(* An import, or an await, returns to the body it is in, and the import of *)
(* a goroutine to its promise, after another attempt if it may have one.   *)
Returned(r, answer) ==
  CASE r.calls = <<>> /\ answer # "exports" /\ r.attempts > 1 ->
         [r EXCEPT !.at = "start", !.attempts = @ - 1]
    [] r.calls = <<>> /\ (answer = "exports" \/ r.attempts = 1) -> [r EXCEPT !.at = "ended", !.answer = answer]
    [] r.calls # <<>> /\ (answer = "exports" \/ Statement(r).caught) -> Advanced(r)
    [] OTHER -> Failing(r, answer)

-----------------------------------------------------------------------------
(* The statements of a body.                                               *)

Executes(g, op) ==
  /\ At(g, "body")
  /\ Top(goroutines[g]).pc <= Len(Source[Top(goroutines[g]).file])
  /\ Statement(goroutines[g]).op = op

(* Resolve makes a new map for an import of the script; the resolver of a  *)
(* module passes its own.                                                  *)
StackOf(request) == IF request.load = 0 THEN Len(stacks) + 1 ELSE request.stack
StacksFor(request) == IF request.load = 0 THEN Append(stacks, {}) ELSE stacks
Resolve(g, request) ==
  /\ Become(g, [goroutines[g] EXCEPT !.at = "check", !.target = request.target, !.stack = StackOf(request)])
  /\ stacks' = StacksFor(request)
  /\ UNCHANGED <<project, cache, inflight, loads, crashed>>

Requested(r) == Request(Top(r), Target(Top(r).file, Statement(r).name))
ImportName(g) == Executes(g, "import") /\ Resolve(g, Requested(goroutines[g]))

(* What is spawned is run on a goroutine, again after it failed. *)
ImportDynamic(g) ==
  LET r == goroutines[g] IN
  /\ Executes(g, "dynamic")
  /\ goroutines' = Append([goroutines EXCEPT ![g] = [Advanced(r) EXCEPT !.calls[Len(r.calls)].promise = Len(goroutines) + 1]],
                          Goroutine(Requested(r), <<>>, "start"))
  /\ UNCHANGED <<project, cache, inflight, loads, stacks, crashed>>
RunImport(g) == At(g, "start") /\ Resolve(g, goroutines[g].import)

(* Of the dynamic import before. *)
Await(g) ==
  LET r == goroutines[g] IN
  /\ Executes(g, "await")
  /\ Top(r).promise \in DOMAIN goroutines
  /\ goroutines[Top(r).promise].at = "ended"
  /\ Become(g, Returned(r, goroutines[Top(r).promise].answer))
  /\ UNCHANGED <<project, cache, inflight, loads, stacks, crashed>>

Throws(g) ==
  /\ Executes(g, "throw")
  /\ Become(g, Failing(goroutines[g], "failed"))
  /\ UNCHANGED <<project, cache, inflight, loads, stacks, crashed>>

RunEnds(g) ==
  LET r == goroutines[g] IN
  /\ At(g, "body") /\ Top(r).pc > Len(Source[Top(r).file])
  /\ Become(g, IF Top(r).load = 0 THEN [r EXCEPT !.at = "ended", !.answer = "exports"] ELSE Moved(g, "store"))
  /\ UNCHANGED <<project, cache, inflight, loads, stacks, crashed>>

-----------------------------------------------------------------------------
(* resolveWithStack.                                                       *)

(* A cycle is not looked for: two that import each other wait for ever. *)
CheckStackNever(g) ==
  LET r == goroutines[g] IN
  /\ At(g, "check")
  /\ Become(g, CASE r.target = Native -> Returned(r, "exports")
                 [] r.target = NotFound -> Returned(r, "failed")
                 [] OTHER -> Moved(g, "lookup"))
  /\ UNCHANGED <<project, cache, inflight, loads, stacks, crashed>>
CheckStack(g) ==
  LET r == goroutines[g] IN
  /\ At(g, "check")
  /\ Become(g, CASE r.target = Native -> Returned(r, "exports")
                 [] r.target = NotFound -> Returned(r, "failed")
                 [] r.target \in stacks[r.stack] -> Returned(r, "cyclic")
                 [] OTHER -> Moved(g, "lookup"))
  /\ UNCHANGED <<project, cache, inflight, loads, stacks, crashed>>

LookUp(g) ==
  LET r == goroutines[g] IN
  /\ At(g, "lookup")
  /\ Become(g, IF r.target \in DOMAIN cache THEN Returned(r, "exports") ELSE Moved(g, "claim"))
  /\ UNCHANGED <<project, cache, inflight, loads, stacks, crashed>>

With(table, key, value) ==
  [k \in DOMAIN table \cup {key} |-> IF k = key THEN value ELSE table[k]]
Register(g) ==
  LET r == goroutines[g] IN
  /\ inflight' = With(inflight, r.target, Len(loads) + 1)
  /\ loads' = Append(loads, [done |-> FALSE, answer |-> "none"])
  /\ Become(g, [Moved(g, "enter") EXCEPT !.calls = Append(@, Call(r.target, Len(loads) + 1, r.stack))])
Join(g) == Become(g, [Moved(g, "wait") EXCEPT !.load = inflight[goroutines[g].target]])

(* What was looked up before the lock is not looked up again. *)
ClaimUnseen(g) ==
  LET r == goroutines[g] IN
  /\ At(g, "claim")
  /\ IF r.target \in DOMAIN inflight
     THEN Join(g) /\ UNCHANGED <<inflight, loads>>
     ELSE Register(g)
  /\ UNCHANGED <<project, cache, stacks, crashed>>
Claim(g) ==
  LET r == goroutines[g] IN
  /\ At(g, "claim")
  /\ IF r.target \in DOMAIN cache
     THEN Become(g, Returned(r, "exports")) /\ UNCHANGED <<inflight, loads>>
     ELSE IF r.target \in DOMAIN inflight
     THEN Join(g) /\ UNCHANGED <<inflight, loads>>
     ELSE Register(g)
  /\ UNCHANGED <<project, cache, stacks, crashed>>

Wait(g) ==
  /\ At(g, "wait") /\ loads[goroutines[g].load].done
  /\ Become(g, Returned(goroutines[g], loads[goroutines[g].load].answer))
  /\ UNCHANGED <<project, cache, inflight, loads, stacks, crashed>>

(* Read, parse and compile. *)
Enter(g) ==
  LET call == Top(goroutines[g]) IN
  /\ At(g, "enter")
  /\ stacks' = [stacks EXCEPT ![call.stack] = @ \cup {call.file}]
  /\ Become(g, IF call.file \in DOMAIN Source THEN Moved(g, "body") ELSE Failing(goroutines[g], "failed"))
  /\ UNCHANGED <<project, cache, inflight, loads, crashed>>

Store(g) ==
  LET call == Top(goroutines[g]) IN
  /\ At(g, "store")
  /\ cache' = With(cache, call.file, call.load)
  /\ Become(g, [Moved(g, "forget") EXCEPT !.answer = "exports"])
  /\ UNCHANGED <<project, inflight, loads, stacks, crashed>>

(* What was deferred, the last first. *)
Forget(g) ==
  LET call == Top(goroutines[g]) IN
  /\ At(g, "forget")
  /\ stacks' = [stacks EXCEPT ![call.stack] = @ \ {call.file}]
  /\ Become(g, Moved(g, "release"))
  /\ UNCHANGED <<project, cache, inflight, loads, crashed>>

Release(g) ==
  /\ At(g, "release")
  /\ inflight' = [f \in DOMAIN inflight \ {Top(goroutines[g]).file} |-> inflight[f]]
  /\ Become(g, Moved(g, "close"))
  /\ UNCHANGED <<project, cache, loads, stacks, crashed>>

(* Only a load that succeeded is closed. *)
CloseOnSuccess(g) ==
  LET r == goroutines[g] IN
  /\ At(g, "close")
  /\ loads' = [loads EXCEPT ![Top(r).load] = [done |-> r.answer = "exports", answer |-> r.answer]]
  /\ Become(g, Returned([r EXCEPT !.calls = Front(@)], r.answer))
  /\ UNCHANGED <<project, cache, inflight, stacks, crashed>>
Close(g) ==
  LET r == goroutines[g] IN
  /\ At(g, "close")
  /\ loads' = [loads EXCEPT ![Top(r).load] = [done |-> TRUE, answer |-> r.answer]]
  /\ Become(g, Returned([r EXCEPT !.calls = Front(@)], r.answer))
  /\ UNCHANGED <<project, cache, inflight, stacks, crashed>>

(* Two goroutines with one map, and one of them writes it: the runtime may *)
(* end the process.                                                        *)
MapOf(g) ==
  CASE At(g, "check") /\ goroutines[g].target \notin {Native, NotFound} -> goroutines[g].stack
    [] At(g, "enter") \/ At(g, "forget") -> Top(goroutines[g]).stack
    [] OTHER -> 0
ConcurrentMapAccess ==
  /\ \E g, h \in DOMAIN goroutines :
       g # h /\ MapOf(g) # 0 /\ MapOf(g) = MapOf(h) /\ goroutines[g].at # "check"
  /\ crashed' = TRUE
  /\ UNCHANGED <<project, cache, inflight, loads, stacks, goroutines>>

Run == \E g \in DOMAIN goroutines :
  \/ ImportName(g) \/ ImportDynamic(g) \/ RunImport(g) \/ Await(g) \/ Throws(g) \/ RunEnds(g)
  \/ CheckStack(g) \/ LookUp(g) \/ Claim(g) \/ Wait(g)
  \/ Enter(g) \/ Store(g) \/ Forget(g) \/ Release(g) \/ Close(g)
Next == Run \/ ConcurrentMapAccess
Spec == Init /\ [][Next]_vars /\ WF_vars(Run)

-----------------------------------------------------------------------------
IsSequence(s) == s \in Seq({s[i] : i \in DOMAIN s})
Answers == {"none", "exports", "cyclic", "failed"}
Resolving == {"check", "lookup", "claim", "wait"}
Loading == {"enter", "body", "store", "forget", "release", "close"}

(* Of so many loads and maps.  A body of a module was loaded with a map.   *)
HasMap(request, maps) == request.load # 0 => request.stack \in 1 .. maps
CallOK(c, loaded, maps) ==
  /\ DOMAIN c = {"file", "load", "stack", "pc", "promise"}
  /\ c.load \in 0 .. loaded /\ HasMap(c, maps)
GoroutineOK(r, loaded, maps) ==
  /\ DOMAIN r = {"import", "calls", "at", "target", "stack", "load", "attempts", "answer"}
  /\ HasMap(r.import, maps)
  /\ IsSequence(r.calls) /\ \A i \in DOMAIN r.calls : CallOK(r.calls[i], loaded, maps)
  /\ r.at \in Resolving \cup Loading \cup {"start", "ended"}
  /\ r.attempts \in Nat \ {0} /\ r.answer \in Answers
  /\ r.at \in Resolving => r.stack \in 1 .. maps
  /\ r.at = "wait" => r.load \in 1 .. loaded
  /\ r.at \in Loading => r.calls # <<>>
  /\ r.at \in Loading \ {"body"} => Top(r).load # 0
TypeOK ==
  /\ crashed \in BOOLEAN /\ project.attempts \in Nat \ {0}
  /\ loads \in Seq([done : BOOLEAN, answer : Answers])
  /\ IsSequence(stacks) /\ IsSequence(goroutines)
  /\ \A f \in DOMAIN cache : cache[f] \in DOMAIN loads
  /\ \A f \in DOMAIN inflight : inflight[f] \in DOMAIN loads
  /\ \A g \in DOMAIN goroutines : GoroutineOK(goroutines[g], Len(loads), Len(stacks))

(* Who runs the body of a file, or is about to. *)
Calls(g) == goroutines[g].calls
Evaluates(g, i) ==
  Calls(g)[i].load # 0 /\ (i = Len(Calls(g)) => goroutines[g].at \notin {"forget", "release", "close"})
Evaluations(f) ==
  UNION {{<<g, i>> : i \in {j \in DOMAIN Calls(g) : Evaluates(g, j) /\ Calls(g)[j].file = f}} :
         g \in DOMAIN goroutines}
(* A module is run by one importer at a time, and by none once its exports *)
(* are in the cache: whoever imports it, by any name, sees one and the     *)
(* same run of it (module_loader.go:71-93).                                *)
LoadedOnce == \A f \in DOMAIN inflight \cup DOMAIN cache :
  Cardinality(Evaluations(f)) <= (IF f \in DOMAIN cache THEN 0 ELSE 1)

(* The inductive invariant behind LoadedOnce: a load has one body, which   *)
(* claims its file until it releases it; and no body is run of a file      *)
(* whose exports are in the cache.                                         *)
Claims(g, i) == Calls(g)[i].load # 0 /\ (i = Len(Calls(g)) => goroutines[g].at # "close")
OneBody == \A g, h \in DOMAIN goroutines : \A i \in DOMAIN Calls(g), j \in DOMAIN Calls(h) :
  Calls(g)[i].load # 0 /\ Calls(g)[i].load = Calls(h)[j].load => g = h /\ i = j
Claimed == \A g \in DOMAIN goroutines : \A i \in DOMAIN Calls(g) :
  Claims(g, i) => LET f == Calls(g)[i].file IN f \in DOMAIN inflight /\ inflight[f] = Calls(g)[i].load
Unstored == \A g \in DOMAIN goroutines : \A i \in DOMAIN Calls(g) :
  Evaluates(g, i) => Calls(g)[i].file \notin DOMAIN cache
LoaderInv == OneBody /\ Claimed /\ Unstored

(* What a goroutine waits for: the goroutine of a load or of a promise. *)
Waits(g) ==
  LET r == goroutines[g]
      loader == {h \in DOMAIN goroutines : \E i \in DOMAIN goroutines[h].calls : goroutines[h].calls[i].load = r.load}
  IN CASE r.at = "wait" -> IF loader = {} THEN 0 ELSE CHOOSE h \in loader : TRUE
       [] r.at = "body" /\ Executes(g, "await") -> Top(r).promise
       [] OTHER -> 0
Ahead(g) ==
  LET next[n \in Nat] == IF n = 0 THEN Waits(g) ELSE IF next[n - 1] = 0 THEN 0 ELSE Waits(next[n - 1])
  IN {next[n] : n \in 0..Len(goroutines)}
Maps(gs) == UNION {{goroutines[g].calls[i].stack : i \in DOMAIN goroutines[g].calls} : g \in gs} \ {0}
(* In a circle of goroutines that wait for each other, which are there for *)
(* two imports of the script at least.                                     *)
InCircle(g) == 0 \notin Ahead(g) /\ Cardinality(Maps(Ahead(g))) > 1

(* Nothing is left to do, but what waits in circles. *)
ImportsEnded ==
  crashed \/ \A g \in DOMAIN goroutines : goroutines[g].at = "ended" \/ InCircle(g)
=============================================================================
