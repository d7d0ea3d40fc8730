------------------------------ MODULE Express ------------------------------
(***************************************************************************)
(* The router of src/ialang/pkg/express (router.go, context.go, types.go,  *)
(* middleware.go): a script installs middleware, groups and routes while   *)
(* requests, each in a goroutine of its own, run through them.             *)
(*                                                                         *)
(* A handler is known by its number and by what it does to the request: a  *)
(* sequence of operations of the context.  Nothing but the router and its  *)
(* lists is shared, so that a handler runs in one step.  The list of a     *)
(* group is a slice: a buffer, and how much of it is the group's.          *)
(***************************************************************************)
EXTENDS Integers, SequencesExt, FiniteSetsExt

CONSTANTS
  ParamName,    \* of ":id" the name id, of every part that is a parameter
  WildName,     \* of "*rest" the name rest, of "*" the name wildcard
  Parts, Methods,  \* what may stand between the slashes of a path; the methods of requests
  Setups        \* what the script may call and how often; the requests, and what they ask for

VARIABLES
  setup, wants,              \* one of Setups; the method and path of a request
  middleware, pending,       \* the router's list; the one Use is storing
  groups, routes, buffers,
  made,                      \* how many handlers there are
  calls,                     \* how many calls the script has made
  at, chain, routed, params, answer, crashed,
  log, installed, knew       \* what ran; what there was on arrival, and at the match

scriptVars == <<middleware, pending, groups, routes, buffers, made, calls>>
requestVars == <<at, chain, routed, params, answer, crashed, log, installed, knew>>
vars == <<setup, wants, scriptVars, requestVars>>

(* A handler that fails or panics is over; what CORS does is a handler of  *)
(* its own.  Of a prefix and a path one has the slash that joins them.  A  *)
(* slice of at most 32 elements has doubled its room whenever it grew.     *)
NoText == ""
Over(does) ==
  /\ \A i \in 1 .. Len(does) - 1 : does[i] \notin {"error", "panic"}
  /\ \A i \in 1 .. Len(does) : does[i] = "preflight" => Len(does) = 1
Operations == {"status", "body", "redirect", "end", "error", "preflight", "panic", "next"}
Doing == {does \in Seq(Operations) : Over(does)}
Path == Seq(Parts) \ {<<>>}
Ask == [method : Methods, path : Path]
SetupsTyped ==
  /\ NoText \in Parts
  /\ \A s \in Setups :
       /\ s.guards \subseteq Doing /\ s.lists \subseteq Seq(Doing)
       /\ s.asks \subseteq Ask /\ s.routes \subseteq Ask
       /\ s.prefixes \subseteq Path /\ s.stacks \subseteq Seq(Doing) /\ \A l \in s.stacks : Len(l) <= 32
       /\ \A p \in s.prefixes, r \in s.routes : NoText \in {Last(p), Head(r.path)}

Nobody == [id |-> 0, does |-> <<"panic">>]   \* what lies behind the end of a list
Unanswered == [status |-> 0, written |-> FALSE, bodies |-> <<>>, aborted |-> FALSE, panicked |-> FALSE]

Empty ==
  /\ wants \in [setup.clients -> setup.asks]
  /\ middleware = <<>> /\ pending = <<>> /\ groups = <<>> /\ routes = <<>> /\ buffers = <<>>
  /\ made = 0 /\ calls = 0 /\ crashed = FALSE
  /\ at = [q \in setup.clients |-> "idle"]
  /\ chain = [q \in setup.clients |-> <<>>]
  /\ routed = [q \in setup.clients |-> 0]
  /\ params = [q \in setup.clients |-> [n \in {} |-> <<>>]]
  /\ answer = [q \in setup.clients |-> Unanswered]
  /\ log = [q \in setup.clients |-> [global |-> <<>>, route |-> <<>>]]
  /\ installed = [q \in setup.clients |-> <<>>]
  /\ knew = [q \in setup.clients |-> 0]
Init == setup \in Setups /\ Empty

-----------------------------------------------------------------------------
(* Slices.  append doubles the room, or makes as much as is needed.        *)
Elements(s) == IF s.length = 0 THEN <<>> ELSE SubSeq(buffers[s.buffer], 1, s.length)
Room(s) == IF s.buffer = 0 THEN 0 ELSE Len(buffers[s.buffer])
Grown(room, need) == IF need > 2 * room THEN need ELSE 2 * room
InPlace(s, hs) == s.length + Len(hs) <= Room(s)
AppendedSlice(s, hs) ==
  [buffer |-> IF InPlace(s, hs) THEN s.buffer ELSE Len(buffers) + 1, length |-> s.length + Len(hs)]
AppendedBuffers(s, hs) ==
  LET written(old) ==
        [i \in DOMAIN old |-> IF i - s.length \in DOMAIN hs THEN hs[i - s.length] ELSE old[i]]
      room == Grown(Room(s), s.length + Len(hs))
      fresh == [i \in 1 .. room |-> IF i <= s.length THEN Elements(s)[i] ELSE Nobody]
  IN  IF hs = <<>> THEN buffers
      ELSE IF InPlace(s, hs) THEN [buffers EXCEPT ![s.buffer] = written(@)]
      ELSE Append(buffers, written(fresh))
(* What a slice has room for that n elements were appended to one by one.  *)
RoomOneByOne(n) == IF n = 0 THEN 0 ELSE CHOOSE k \in {1, 2, 4, 8, 16, 32} : n <= k /\ k < 2 * n

-----------------------------------------------------------------------------
(* The script.                                                             *)
Handlers(lists) == {[i \in DOMAIN l |-> [id |-> made + i, does |-> l[i]]] : l \in lists}

ScriptCalls(name) ==
  /\ ~crashed /\ name \in setup.calls /\ calls < setup.max
  /\ pending = <<>>
  /\ calls' = calls + 1
  /\ UNCHANGED <<setup, wants, requestVars>>

(* Router.Use appends under the lock and stores the list; requests read it *)
(* without the lock.                                                       *)
Use ==
  /\ ScriptCalls("use")
  /\ \E hs \in Handlers({<<d>> : d \in setup.guards}) :
       pending' = middleware \o hs /\ made' = made + 1
  /\ UNCHANGED <<middleware, groups, routes, buffers>>

UseReturns ==
  /\ pending # <<>> /\ ~crashed
  /\ middleware' = pending /\ pending' = <<>>
  /\ UNCHANGED <<setup, wants, groups, routes, buffers, made, calls, requestVars>>

NoSlice == [buffer |-> 0, length |-> 0]
Register(method, path, slice, registered, group) ==
  routes' = Append(routes,
    [method |-> method, path |-> path, slice |-> slice, registered |-> registered.list,
     front |-> registered.front, group |-> group])

Handle ==
  /\ ScriptCalls("handle")
  /\ \E r \in setup.routes : \E hs \in Handlers(setup.lists) :
       /\ Register(r.method, r.path, AppendedSlice(NoSlice, hs), [list |-> hs, front |-> 0], 0)
       /\ buffers' = AppendedBuffers(NoSlice, hs)
       /\ made' = made + Len(hs)
  /\ UNCHANGED <<middleware, pending, groups>>

(* The middleware of a group is collected one by one.                      *)
Collected(n) == IF n = 0 THEN NoSlice ELSE [buffer |-> Len(buffers) + 1, length |-> n]
Group ==
  /\ ScriptCalls("group")
  /\ \E prefix \in setup.prefixes : \E hs \in Handlers(setup.stacks) :
       LET n == Len(hs) IN
       /\ groups' = Append(groups, [prefix |-> prefix, declared |-> hs, slice |-> Collected(n)])
       /\ buffers' = IF n = 0 THEN buffers
                     ELSE Append(buffers, [i \in 1 .. RoomOneByOne(n) |-> IF i <= n THEN hs[i] ELSE Nobody])
       /\ made' = made + n
  /\ UNCHANGED <<middleware, pending, routes>>

GroupUse ==
  /\ ScriptCalls("groupUse")
  /\ \E g \in DOMAIN groups : \E hs \in Handlers({<<d>> : d \in setup.guards}) :
       /\ groups' = [groups EXCEPT ![g].slice = AppendedSlice(@, hs), ![g].declared = @ \o hs]
       /\ buffers' = AppendedBuffers(groups[g].slice, hs)
       /\ made' = made + 1
  /\ UNCHANGED <<middleware, pending, routes>>

(* g.prefix + path: the last part of one and the first part of the other,  *)
(* one of which is empty, become one.                                      *)
Joined(prefix, path) ==
  Front(prefix) \o <<IF Last(prefix) = NoText THEN Head(path) ELSE Last(prefix)>> \o Tail(path)

(* append(g.middleware, handlers...), which is not stored in the group.    *)
GroupHandle ==
  /\ ScriptCalls("groupHandle")
  /\ \E g \in DOMAIN groups : \E r \in setup.routes : \E hs \in Handlers(setup.lists) :
       /\ Register(r.method, Joined(groups[g].prefix, r.path), AppendedSlice(groups[g].slice, hs),
                   [list |-> groups[g].declared \o hs, front |-> Len(groups[g].declared)], g)
       /\ buffers' = AppendedBuffers(groups[g].slice, hs)
       /\ made' = made + Len(hs)
  /\ UNCHANGED <<middleware, pending, groups>>

-----------------------------------------------------------------------------
(* Matching.  A path is what stands between its slashes; strings.Trim      *)
(* takes the slashes off both ends.                                        *)
Trimmed(path) ==
  LET full == {i \in DOMAIN path : path[i] # NoText} IN
  IF full = {} THEN <<NoText>> ELSE SubSeq(path, Min(full), Max(full))

IsParam(part) == part \in DOMAIN ParamName
IsWild(part) == part \in DOMAIN WildName
Wilds(p) == {i \in DOMAIN p : IsWild(p[i])}
FirstWild(p) == IF Wilds(p) = {} THEN Len(p) + 1 ELSE Min(Wilds(p))

(* A mutant of matchPath: a pattern also takes longer paths.               *)
MatchesPrefix(path, request) ==
  LET p == Trimmed(path)
      t == Trimmed(request)
  IN  Len(p) <= Len(t) /\ \A i \in 1 .. FirstWild(p) - 1 : IsParam(p[i]) \/ p[i] = t[i]

matchPath(path, request) ==
  LET p == Trimmed(path)
      t == Trimmed(request)
  IN  /\ IF Wilds(p) = {} THEN Len(p) = Len(t) ELSE Len(p) <= Len(t)
      /\ \A i \in 1 .. FirstWild(p) - 1 : IsParam(p[i]) \/ p[i] = t[i]

Params(path, request) ==
  LET p == Trimmed(path)
      t == Trimmed(request)
      w == FirstWild(p)
      Named(n) == {i \in 1 .. w - 1 : IsParam(p[i]) /\ ParamName[p[i]] = n}
      names == {ParamName[p[i]] : i \in {j \in 1 .. w - 1 : IsParam(p[j])}}
      wild == IF w \in DOMAIN p THEN {WildName[p[w]]} ELSE {}
  IN  [n \in names \cup wild |-> IF n \in wild THEN SubSeq(t, w, Len(t)) ELSE <<t[Max(Named(n))]>>]

Candidates(want) ==
  {i \in DOMAIN routes : routes[i].method \in {want.method, "ANY"} /\ matchPath(routes[i].path, want.path)}
Match(want) == IF Candidates(want) = {} THEN 0 ELSE Min(Candidates(want))

-----------------------------------------------------------------------------
(* What the client gets: WriteHeader keeps the first status it is given, a *)
(* body sets 200 when there is none.  (The field status of Response keeps  *)
(* the last one, for Logger, which drops it.)  NotFound and Redirect of    *)
(* net/http pass by Response, which does not learn that they wrote; the    *)
(* latter has a text only for a GET that no content type was set for.      *)
Status(a, code) == IF a.status = 0 THEN [a EXCEPT !.status = code] ELSE a
Body(a, text) == [Status(a, 200) EXCEPT !.written = TRUE, !.bodies = Append(@, text)]
Abort(a) == [a EXCEPT !.aborted = TRUE]
NotFound(a) == [Status(a, 404) EXCEPT !.bodies = Append(@, "not found")]
Redirect(a, method) ==
  [Status(a, 302) EXCEPT !.bodies = IF method = "GET" /\ @ = <<>> THEN Append(@, "redirect") ELSE @]

(* A script function that failed; the middleware of CORS.                  *)
Failed(a) == Abort(Body(Status(a, 500), "error"))
Preflight(a) == Abort(Status(a, 204))

(* What a context operation does.  ctx.Next runs the handlers of the       *)
(* context, of which there are none: ServeHTTP does not set them, and      *)
(* Recovery, Logger and AdaptMiddleware call nothing else.                 *)
Operation(a, op, method) ==
  CASE op = "status" -> Status(a, 201)
    [] op = "body" -> Body(a, "body")
    [] op = "redirect" -> Redirect(a, method)
    [] op = "end" -> Abort(a)
    [] op = "error" -> Failed(a)
    [] op = "preflight" /\ method = "OPTIONS" -> Preflight(a)
    [] op = "panic" -> [a EXCEPT !.panicked = TRUE]
    [] OTHER -> a

Handled(q, h) ==
  LET after[i \in 0 .. Len(h.does)] ==
        IF i = 0 THEN answer[q] ELSE Operation(after[i - 1], h.does[i], wants[q].method)
  IN  after[Len(h.does)]

(* A mutant of Recovered: it answers whatever was written.                 *)
AlwaysRecovered(a) == Body(Status(a, 500), "error")

(* The deferred recover of ServeHTTP.                                      *)
Recovered(a) == IF a.written THEN a ELSE Body(Status(a, 500), "error")

(* A mutant of Run: an aborted request goes on.                            *)
RunOn(q, h, part, rest) ==
  LET a == Handled(q, h) IN
  /\ log' = [log EXCEPT ![q][part] = Append(@, h)]
  /\ answer' = [answer EXCEPT ![q] = IF a.panicked THEN Recovered(a) ELSE a]
  /\ at' = [at EXCEPT ![q] = IF a.panicked THEN "done" ELSE rest]

(* One handler of a list runs; the next one, or rest when it was the last. *)
Run(q, h, part, rest) ==
  LET a == Handled(q, h) IN
  /\ log' = [log EXCEPT ![q][part] = Append(@, h)]
  /\ answer' = [answer EXCEPT ![q] = IF a.panicked THEN Recovered(a) ELSE a]
  /\ at' = [at EXCEPT ![q] = IF a.panicked \/ a.aborted THEN "done" ELSE rest]

(* The range over r.middleware reads the list without the lock: the old    *)
(* one or the new one; when the new one is in a buffer of its own, also    *)
(* the length of the new one with the buffer of the old one.               *)
Torn == pending # <<>> /\ RoomOneByOne(Len(pending)) # RoomOneByOne(Len(middleware))
Readable ==
  {middleware} \cup (IF pending # <<>> THEN {pending} ELSE {})
               \cup (IF Torn THEN {Append(middleware, Nobody)} ELSE {})

Arrive(q) ==
  /\ at[q] = "idle" /\ ~crashed
  /\ \E seen \in Readable : chain' = [chain EXCEPT ![q] = seen]
  /\ at' = [at EXCEPT ![q] = "global"]
  /\ installed' = [installed EXCEPT ![q] = middleware]
  /\ UNCHANGED <<setup, wants, scriptVars, routed, params, answer, crashed, log, knew>>

RunGlobal(q) ==
  /\ at[q] = "global" /\ chain[q] # <<>> /\ ~crashed
  /\ Run(q, Head(chain[q]), "global", "global")
  /\ chain' = [chain EXCEPT ![q] = Tail(@)]
  /\ UNCHANGED <<setup, wants, scriptVars, routed, params, crashed, installed, knew>>

(* What is no function is called: that panics, or it ends the process.     *)
CallNobody(q) ==
  /\ at[q] = "global" /\ chain[q] # <<>> /\ ~crashed
  /\ Head(chain[q]) = Nobody
  /\ crashed' = TRUE
  /\ UNCHANGED <<setup, wants, scriptVars, at, chain, routed, params, answer, log, installed, knew>>

(* Router.Match, under the read lock; http.NotFound.                       *)
MatchRoute(q) ==
  /\ at[q] = "global" /\ chain[q] = <<>> /\ pending = <<>> /\ ~crashed
  /\ LET i == Match(wants[q]) IN
       /\ routed' = [routed EXCEPT ![q] = i]
       /\ params' = IF i = 0 THEN params
                    ELSE [params EXCEPT ![q] = Params(routes[i].path, wants[q].path)]
       /\ at' = [at EXCEPT ![q] = IF i = 0 \/ routes[i].slice.length = 0 THEN "done" ELSE "route"]
       /\ answer' = IF i # 0 THEN answer
                    ELSE [answer EXCEPT ![q] = NotFound(@)]
  /\ knew' = [knew EXCEPT ![q] = Len(routes)]
  /\ UNCHANGED <<setup, wants, scriptVars, chain, crashed, log, installed>>

(* The handlers of the route, read from its buffer one at a time.          *)
RunRoute(q) ==
  /\ at[q] = "route" /\ ~crashed
  /\ LET list == Elements(routes[routed[q]].slice)
         k == Len(log[q].route) + 1
     IN  Run(q, list[k], "route", IF k = Len(list) THEN "done" ELSE "route")
  /\ UNCHANGED <<setup, wants, scriptVars, chain, routed, params, crashed, installed, knew>>

ServeHTTP(q) == Arrive(q) \/ RunGlobal(q) \/ CallNobody(q) \/ MatchRoute(q) \/ RunRoute(q)
Next ==
  \/ Use \/ UseReturns \/ Handle \/ Group \/ GroupUse \/ GroupHandle
  \/ \E q \in setup.clients : ServeHTTP(q)
Spec == Init /\ [][Next]_vars

-----------------------------------------------------------------------------
(* A route runs the handlers it was registered with, behind the middleware *)
(* its group had then.  Only, GroupHandle appends to the group's own       *)
(* buffer: what is registered on the group later may stand in the place of *)
(* a handler of the route, but not of the group's middleware.              *)
OfGroup(g, h) ==
  \/ h \in Range(groups[g].declared)
  \/ \E i \in DOMAIN routes : routes[i].group = g /\ h \in Range(routes[i].registered)
Kept(r, j, h) ==
  \/ h = r.registered[j]
  \/ r.group # 0 /\ j > r.front /\ h.id > Last(r.registered).id /\ OfGroup(r.group, h)
RoutesKept ==
  \A i \in DOMAIN routes :
    LET list == Elements(routes[i].slice) IN
    Len(list) = Len(routes[i].registered) /\ \A j \in DOMAIN list : Kept(routes[i], j, list[j])

(* The middleware that was installed when a request arrived runs before    *)
(* any handler of a route, all of it and in its order; what a route runs   *)
(* is its own; nothing runs behind a handler that ended the request.       *)
Ends(h, method) ==
  \E i \in DOMAIN h.does : \/ h.does[i] \in {"end", "error", "panic"}
                           \/ h.does[i] = "preflight" /\ method = "OPTIONS"
Known == IF pending # <<>> THEN pending ELSE middleware
Ran(q) == log[q].global \o log[q].route
Guarded(q) ==
  LET ran == log[q].global
      own == log[q].route
  IN  /\ own # <<>> => IsPrefix(installed[q], ran)
      /\ Len(ran) <= Len(Known)
      /\ \A j \in DOMAIN ran : ran[j] = Known[j] \/ (ran[j] = Nobody /\ j = Len(ran))
      /\ \A j \in DOMAIN own : Kept(routes[routed[q]], j, own[j])
      /\ \A j \in 1 .. Len(Ran(q)) - 1 : ~Ends(Ran(q)[j], wants[q].method)

(* What a pattern means: the request can be cut so that a name stands for  *)
(* itself, a parameter for one part, a wildcard for one or more.           *)
Fits(path, request) ==
  LET p == Trimmed(path)
      t == Trimmed(request)
  IN  \E cut \in [0 .. Len(p) -> 0 .. Len(t)] :
        /\ cut[0] = 0 /\ cut[Len(p)] = Len(t)
        /\ \A i \in DOMAIN p :
             IF IsWild(p[i]) THEN cut[i - 1] < cut[i]
             ELSE cut[i] = cut[i - 1] + 1 /\ (IsParam(p[i]) \/ t[cut[i]] = p[i])
EndsInWild(path) == FirstWild(Trimmed(path)) >= Len(Trimmed(path))

(* The pattern with the values in it is the request.                       *)
Name(part) == IF IsWild(part) THEN WildName[part] ELSE ParamName[part]
Fills(path, values, request) ==
  LET p == Trimmed(path)
      t == Trimmed(request)
      filled(i) == IF IsParam(p[i]) \/ IsWild(p[i]) THEN values[Name(p[i])] ELSE <<p[i]>>
  IN  \E cut \in [0 .. Len(p) -> 0 .. Len(t)] :
        /\ cut[0] = 0 /\ cut[Len(p)] = Len(t)
        /\ \A i \in DOMAIN p : cut[i - 1] <= cut[i] /\ SubSeq(t, cut[i - 1] + 1, cut[i]) = filled(i)
NamesDiffer(path) ==
  LET p == Trimmed(path) IN
  \A i, j \in DOMAIN p : i # j /\ {p[i], p[j]} \subseteq DOMAIN ParamName \cup DOMAIN WildName
                           => Name(p[i]) # Name(p[j])

(* A request goes to the first route that fits it, and to none only when   *)
(* none does (a route with parts behind a wildcard takes more than fits    *)
(* it); its parameters put into the pattern are the request.               *)
RoutedRight(q) ==
  LET fits(i) == routes[i].method \in {wants[q].method, "ANY"} /\ Fits(routes[i].path, wants[q].path)
      i == routed[q]
  IN  /\ \A k \in 1 .. (IF i = 0 THEN knew[q] ELSE i - 1) : ~fits(k)
      /\ i # 0 /\ EndsInWild(routes[i].path) =>
           /\ fits(i)
           /\ NamesDiffer(routes[i].path) => Fills(routes[i].path, params[q], wants[q].path)

(* The status of a request is what the first handler that said anything    *)
(* said; a panic says 500, and so does an error; a panic adds nothing to   *)
(* what a handler has written.                                             *)
Speaks(op, method) ==
  op \in {"status", "body", "redirect", "error", "panic"} \/ (op = "preflight" /\ method = "OPTIONS")
Says(op) ==
  CASE op = "status" -> 201 [] op = "body" -> 200 [] op = "redirect" -> 302
    [] op \in {"error", "panic"} -> 500 [] op = "preflight" -> 204
Voices(h, method) == {k \in DOMAIN h.does : Speaks(h.does[k], method)}
Said(q) ==
  LET speakers == {j \in DOMAIN Ran(q) : Voices(Ran(q)[j], wants[q].method) # {}}
      first == Ran(q)[Min(speakers)]
  IN  IF speakers # {} THEN Says(first.does[Min(Voices(first, wants[q].method))])
      ELSE IF at[q] = "done" /\ routed[q] = 0 /\ (\A j \in DOMAIN Ran(q) : ~Ends(Ran(q)[j], wants[q].method))
           THEN 404 ELSE 0
AnsweredRight(q) ==
  /\ answer[q].status = Said(q)
  /\ \A i, j \in DOMAIN answer[q].bodies :
       j < i /\ answer[q].bodies[i] = "error" /\ answer[q].bodies[j] = "body" =>
         Ran(q) # <<>> /\ "error" \in Range(Last(Ran(q)).does)

Served ==
  RoutesKept /\ \A q \in setup.clients : at[q] # "idle" => Guarded(q) /\ RoutedRight(q) /\ AnsweredRight(q)

-----------------------------------------------------------------------------
(* Types.                                                                  *)
Handler == [id : Nat, does : Doing]
Slice == [buffer : Nat, length : Nat]
Answer ==
  [status : Nat, written : BOOLEAN, bodies : Seq({"body", "redirect", "error", "not found"}), aborted : BOOLEAN, panicked : BOOLEAN]
ScriptTyped ==
  /\ middleware \in Seq(Handler) /\ pending \in Seq(Handler)
  /\ groups \in Seq([prefix : Path, declared : Seq(Handler), slice : Slice])
  /\ routes \in Seq([method : Methods, path : Path, slice : Slice,
                     registered : Seq(Handler), front : Nat, group : Nat])
  /\ buffers \in Seq(Seq(Handler)) /\ made \in Nat /\ calls \in Nat
RequestsTyped ==
  /\ at \in [setup.clients -> {"idle", "global", "route", "done"}]
  /\ chain \in [setup.clients -> Seq(Handler)] /\ installed \in [setup.clients -> Seq(Handler)]
  /\ routed \in [setup.clients -> Nat] /\ knew \in [setup.clients -> Nat]
  /\ params = [q \in setup.clients |-> params[q]]
  /\ answer \in [setup.clients -> Answer] /\ crashed \in BOOLEAN
  /\ log \in [setup.clients -> [global : Seq(Handler), route : Seq(Handler)]]
TypeOK ==
  setup \in Setups /\ wants \in [setup.clients -> Ask] /\ ScriptTyped /\ RequestsTyped

(* What makes RoutesKept inductive: a slice lies in its buffer, no two     *)
(* groups append to one buffer, and of the routes only a group's own lie   *)
(* in it, with no more of the group's middleware than the group has.       *)
Holds(s) ==
  IF s.buffer = 0 THEN s.length = 0
  ELSE s.buffer \in DOMAIN buffers /\ s.length <= Len(buffers[s.buffer])
Made(handlers) == \A j \in DOMAIN handlers : handlers[j].id <= made
GroupsInv ==
  \A g \in DOMAIN groups :
    LET s == groups[g].slice IN
    /\ Holds(s) /\ s.length = Len(groups[g].declared) /\ Made(groups[g].declared)
    /\ \A j \in DOMAIN groups[g].declared : buffers[s.buffer][j] = groups[g].declared[j]
    /\ \A h \in DOMAIN groups : h # g => s.buffer = 0 \/ groups[h].slice.buffer # s.buffer
RoutesInv ==
  \A i \in DOMAIN routes :
    LET r == routes[i] IN
    /\ Holds(r.slice) /\ r.slice.length = Len(r.registered) /\ Made(r.registered)
    /\ r.group # 0 => r.group \in DOMAIN groups /\ r.front <= Len(groups[r.group].declared)
    /\ \A j \in DOMAIN r.registered : Kept(r, j, buffers[r.slice.buffer][j])
    /\ \A g \in DOMAIN groups :
         r.slice.buffer # 0 /\ groups[g].slice.buffer = r.slice.buffer => r.group = g

(* What makes the rest inductive: a request has run, and will run, the     *)
(* list it read, then the handlers of its route; its answer is that of the *)
(* handlers so far.                                                        *)
MiddlewareInv ==
  /\ Len(middleware) <= Len(Known) /\ \A j \in DOMAIN middleware : middleware[j] = Known[j]
  /\ \A j \in DOMAIN Known : Known[j] # Nobody
Seen(q) == log[q].global \o chain[q]
ListInv(q) ==
  /\ IsPrefix(installed[q], Seen(q)) /\ Len(Seen(q)) <= Len(Known)
  /\ \A j \in DOMAIN Seen(q) : Seen(q)[j] = Known[j] \/ (Seen(q)[j] = Nobody /\ j = Len(Seen(q)))
RouteInv(q) ==
  /\ at[q] \in {"idle", "global"} => log[q].route = <<>> /\ routed[q] = 0 /\ knew[q] = 0
  /\ log[q].route # <<>> \/ at[q] = "route" => chain[q] = <<>> /\ routed[q] # 0
  /\ at[q] = "route" => Len(log[q].route) < Len(routes[routed[q]].registered)
  /\ routed[q] <= Len(routes) /\ knew[q] <= Len(routes)
  /\ \A j \in DOMAIN log[q].route : Kept(routes[routed[q]], j, log[q].route[j])
AnswerInv(q) ==
  /\ at[q] = "idle" => log[q].global = <<>>
  /\ \A j \in DOMAIN Ran(q) : Ends(Ran(q)[j], wants[q].method) => at[q] = "done" /\ j = Len(Ran(q))
  /\ at[q] # "done" =>
       ~answer[q].aborted /\ ~answer[q].panicked /\ "error" \notin Range(answer[q].bodies)
  /\ answer[q].written => answer[q].status # 0
  /\ "body" \in Range(answer[q].bodies) => answer[q].written
  /\ AnsweredRight(q)
RequestInv(q) == ListInv(q) /\ RouteInv(q) /\ RoutedRight(q) /\ AnswerInv(q)
RouterInv ==
  GroupsInv /\ RoutesInv /\ MiddlewareInv /\ \A q \in setup.clients : RequestInv(q)
=============================================================================
