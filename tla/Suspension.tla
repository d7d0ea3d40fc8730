----------------------------- MODULE Suspension -----------------------------
(***************************************************************************)
(* A run of the iavm virtual machine (iavm/pkg/runtime/vm.go, promise.go   *)
(* and the interpreter's host and await instructions).  A program polls    *)
(* handles of the host and awaits the promises it gets.  An await of a     *)
(* pending promise suspends the machine: the embedding program then resumes*)
(* it, waits for it, or lets RunUntilSettled do both until the run ends.   *)
(* Each host operation goes through a retry loop under a context.          *)
(*                                                                         *)
(* An async function is run to its end by a machine of its own, without a  *)
(* run context, below the machine that called it.                          *)
(***************************************************************************)
EXTENDS Naturals, Sequences, FiniteSets, SequencesExt

CONSTANTS
  Programs,     (* records of two instruction sequences, "main" and "async"  *)
  Handles,      (* handles of the host                                       *)
  Hanging,      (* handles, and operations of host.call, for which the host  *)
                (* never returns by itself                                   *)
  RetryCount,
  None

(* The host is external: a handle becomes ready or fails at any time, an   *)
(* operation reports the state of its handle, and one whose context has    *)
(* ended reports that.                                                     *)
VARIABLES
  program, setup,  (* the program; the options of the machine and its host   *)
  host,            (* state of each handle                                   *)
  call, phase,     (* the call of the embedding program, and where it is     *)
  result,          (* what the last call returned                            *)
  machines,        (* the machine of main and that of an async function      *)
  promises,        (* every promise made so far                              *)
  suspension,      (* the promise that is waited for                         *)
  op,              (* the host operation under way                           *)
  ctx              (* the run context, and the one given to WaitSuspension   *)

fixed == <<program, setup>>
vars == <<fixed, host, call, phase, result, machines, promises, suspension, op, ctx>>

(* The host may implement Waiter, each operation may have a deadline of    *)
(* its own, and the retries of polls, waits and listed calls are set apart.*)
Setups == [waiter : BOOLEAN, timeouts : BOOLEAN, retries : SUBSET {"poll", "wait", "call"}]
HostState == {"pending", "ready", "rejected"}
Result == {"none", "done", "pending", "rejected", "error", "ended"}
CtxState == {"none", "live", "over"}
NoOp == [kind |-> "none", handle |-> None, attempt |-> 0]
Kinds == {"poll", "call", "resume", "wait", "pollWait"}

(* A value is a promise, by its number, or what a handle yielded.  A promise*)
(* of an async function that returned a promise yields that one (inner).   *)
Promise(p) == [promise |-> p, of |-> None]
Plain(h) == [promise |-> 0, of |-> h]
NewMachine(fn) == [fn |-> fn, ip |-> 1, stack |-> <<>>]

Top == machines[Len(machines)]
InAsync == Len(machines) > 1
Code(m) == program[m.fn]

TypeOK ==
  /\ program \in Programs /\ setup \in Setups
  /\ host \in [Handles -> HostState]
  /\ call \in {"none", "run", "resume", "wait", "settle"}
  /\ phase \in {"new", "interpret", "wait", "op", "sleep", "idle"}
  /\ result \in Result
  /\ \A i \in DOMAIN machines :
       /\ machines[i].fn = IF i = 1 THEN "main" ELSE "async"
       /\ machines[i].ip \in 1 .. Len(Code(machines[i])) + 1
       /\ \A j \in DOMAIN machines[i].stack : machines[i].stack[j].promise \in 0 .. Len(promises)
  /\ Len(machines) <= 2
  /\ \A p \in DOMAIN promises : promises[p].status \in HostState
  /\ suspension \in 0 .. Len(promises)
  /\ op # NoOp => op.kind \in Kinds /\ op.attempt \in 0 .. RetryCount
  /\ ctx \in [{"run", "wait"} -> CtxState]

Init ==
  /\ program \in Programs /\ setup \in Setups
  /\ host = [h \in Handles |-> "pending"]
  /\ call = "none" /\ phase = "new" /\ result = "none"
  /\ machines = <<>> /\ promises = <<>>
  /\ suspension = 0
  /\ op = NoOp
  /\ ctx = [c \in {"run", "wait"} |-> "none"]

HostCompletes(h) ==
  /\ host[h] = "pending"
  /\ \E s \in {"ready", "rejected"} : host' = [host EXCEPT ![h] = s]
  /\ UNCHANGED <<fixed, call, phase, result, machines, promises, suspension, op, ctx>>

ContextEnds(c) ==
  /\ ctx[c] = "live"
  /\ ctx' = [ctx EXCEPT ![c] = "over"]
  /\ UNCHANGED <<fixed, host, call, phase, result, machines, promises, suspension, op>>

-----------------------------------------------------------------------------
(* The calls of the embedding program. *)

(* Run has a context when MaxDuration is set, RunUntilSettled also when it *)
(* is given one.                                                           *)
Run(c) ==
  /\ phase = "new"
  /\ call' = c /\ phase' = "interpret"
  /\ machines' = <<NewMachine("main")>>
  /\ \E s \in {"none", "live"} : ctx' = [ctx EXCEPT !["run"] = s]
  /\ UNCHANGED <<fixed, host, result, promises, suspension, op>>

BeginOp(kind, h) ==
  /\ phase' = "op"
  /\ op' = [kind |-> kind, handle |-> h, attempt |-> 0]

(* A promise that is waited for is pending: it is polled again.            *)
ResumeSuspension ==
  /\ phase = "idle" /\ suspension # 0
  /\ call' = "resume"
  /\ BeginOp("resume", promises[suspension].handle)
  /\ UNCHANGED <<fixed, host, result, machines, promises, suspension, ctx>>

WaitSuspension ==
  /\ phase = "idle" /\ suspension # 0
  /\ call' = "wait" /\ phase' = "wait"
  /\ \E s \in {"none", "live"} : ctx' = [ctx EXCEPT !["wait"] = s]
  /\ UNCHANGED <<fixed, host, result, machines, promises, suspension, op>>

(* RunUntilSettled waits again whenever a call says that the promise is    *)
(* pending; otherwise the call returns, and a run context with it.         *)
Return(r) ==
  /\ op' = NoOp
  /\ IF call = "settle" /\ r = "pending"
     THEN phase' = "wait" /\ UNCHANGED <<call, result, ctx>>
     ELSE /\ phase' = "idle" /\ call' = "none" /\ result' = r
          /\ ctx' = [c \in {"run", "wait"} |-> "none"]

-----------------------------------------------------------------------------
(* The interpreter. *)

Advance(value) ==
  machines' = [machines EXCEPT ![Len(machines)].ip = @ + 1,
                               ![Len(machines)].stack = Append(@, value)]

(* The machine of an async function is forgotten when a call returns.      *)
Abandon == machines' = <<machines[1]>>

Interpreting == phase = "interpret" /\ (InAsync \/ ctx["run"] # "over")
AtOp(name) ==
  /\ Interpreting
  /\ Top.ip <= Len(Code(Top)) /\ Code(Top)[Top.ip].op = name
Instruction == Code(Top)[Top.ip]

InterpretEnds ==
  /\ phase = "interpret" /\ ~InAsync /\ ctx["run"] = "over"
  /\ Return("ended")
  /\ UNCHANGED <<fixed, host, machines, promises, suspension>>

HostOperation ==
  /\ \/ AtOp("poll") /\ BeginOp("poll", Instruction.arg)
     \/ AtOp("call") /\ BeginOp("call", Instruction.arg)
  /\ UNCHANGED <<fixed, host, call, result, machines, promises, suspension, ctx>>

LoadLocal ==
  /\ AtOp("load")
  /\ Advance(Top.stack[Instruction.arg])
  /\ UNCHANGED <<fixed, host, call, phase, result, promises, suspension, op, ctx>>

CallAsync ==
  /\ AtOp("async")
  /\ machines' = Append(machines, NewMachine("async"))
  /\ UNCHANGED <<fixed, host, call, phase, result, promises, suspension, op, ctx>>

FunctionEnds ==
  /\ Interpreting /\ Top.ip > Len(Code(Top))
  /\ \/ /\ ~InAsync
        /\ Return("done")
        /\ UNCHANGED <<machines, promises>>
     \/ /\ InAsync
        /\ LET value == IF Top.stack = <<>> THEN Plain(None) ELSE Last(Top.stack)
           IN  /\ promises' = Append(promises,
                                  [handle |-> value.of, inner |-> value.promise, status |-> "ready"])
               /\ machines' = <<[machines[1] EXCEPT !.ip = @ + 1,
                                   !.stack = Append(@, Promise(Len(promises) + 1))]>>
        /\ UNCHANGED <<call, phase, result, op, ctx>>
  /\ UNCHANGED <<fixed, host, suspension>>

Yielded(p) == [promise |-> promises[p].inner, of |-> promises[p].handle]

Awaited(status) ==
  Last(Top.stack).promise # 0 /\ promises[Last(Top.stack).promise].status = status

Popped == [machines EXCEPT ![Len(machines)].ip = @ + 1, ![Len(machines)].stack = Front(@)]

AwaitSettled ==
  /\ AtOp("await")
  /\ \/ /\ Awaited("ready")
        /\ machines' = [Popped EXCEPT ![Len(machines)].stack =
                          Append(@, Yielded(Last(Top.stack).promise))]
        /\ UNCHANGED <<call, phase, result, op, ctx>>
     \/ /\ Last(Top.stack).promise = 0
        /\ machines' = [machines EXCEPT ![Len(machines)].ip = @ + 1]
        /\ UNCHANGED <<call, phase, result, op, ctx>>
     \/ /\ Awaited("rejected")
        /\ Return("rejected") /\ Abandon
  /\ UNCHANGED <<fixed, host, promises, suspension>>

(* The machine of an async function keeps its suspension to itself.        *)
AwaitPending ==
  /\ AtOp("await")
  /\ Awaited("pending")
  /\ machines' = IF InAsync THEN <<machines[1]>> ELSE Popped
  /\ suspension' = IF InAsync THEN suspension ELSE Last(Top.stack).promise
  /\ Return("pending")
  /\ UNCHANGED <<fixed, host, promises>>

-----------------------------------------------------------------------------
(* Waiting, which RunUntilSettled does with the run context. *)

WaitCtxOwn == "wait"

WaitCtx == IF call = "settle" THEN "run" ELSE "wait"

Wait ==
  /\ phase = "wait"
  /\ \/ /\ suspension = 0                     \* "vm is not suspended"
        /\ Return("error")
     \/ /\ suspension # 0
        /\ BeginOp(IF setup.waiter THEN "wait" ELSE "pollWait", promises[suspension].handle)
        /\ UNCHANGED <<call, result, ctx>>
  /\ UNCHANGED <<fixed, host, machines, promises, suspension>>

(* Between two polls; a timer that is ready may win over the context.      *)
Sleep ==
  /\ phase = "sleep"
  /\ \/ /\ ctx[WaitCtx] = "over"
        /\ Return("ended")
     \/ BeginOp("pollWait", promises[suspension].handle) /\ UNCHANGED <<call, result, ctx>>
  /\ UNCHANGED <<fixed, host, machines, promises, suspension>>

-----------------------------------------------------------------------------
(* The answer to a host operation. *)

OpCtx ==
  CASE op.kind \in {"wait", "pollWait"}            -> ctx[WaitCtx]
    [] op.kind \notin {"wait", "pollWait"} /\ InAsync  -> "none"
    [] op.kind \notin {"wait", "pollWait"} /\ ~InAsync -> ctx["run"]

Answering == phase = "op" /\ OpCtx # "over" /\ op.handle \notin Hanging

(* ResumeSuspension with the promise settled: the awaiting instruction gets*)
(* its value, or the call returns the rejection.                           *)
SettleAndResumeTwice ==
  LET s == host[op.handle] IN
    /\ promises' = [promises EXCEPT ![suspension].status = s]
    /\ IF s = "ready"
       THEN /\ machines' = [machines EXCEPT ![1].stack = Append(@, Plain(op.handle))]
            /\ phase' = "interpret" /\ op' = NoOp
            /\ UNCHANGED <<call, result, ctx, suspension>>
       ELSE Return("rejected") /\ suspension' = 0 /\ UNCHANGED machines

SettleAndResume ==
  LET s == host[op.handle] IN
    /\ promises' = [promises EXCEPT ![suspension].status = s]
    /\ suspension' = 0
    /\ IF s = "ready"
       THEN /\ machines' = [machines EXCEPT ![1].stack = Append(@, Plain(op.handle))]
            /\ phase' = "interpret" /\ op' = NoOp
            /\ UNCHANGED <<call, result, ctx>>
       ELSE Return("rejected") /\ UNCHANGED machines

Polled ==
  /\ Answering /\ op.kind = "poll"
  /\ promises' = Append(promises, [handle |-> op.handle, inner |-> 0, status |-> host[op.handle]])
  /\ Advance(Promise(Len(promises) + 1))
  /\ phase' = "interpret" /\ op' = NoOp
  /\ UNCHANGED <<fixed, host, call, result, suspension, ctx>>

Called ==
  /\ Answering /\ op.kind = "call"
  /\ Advance(Plain(op.handle))
  /\ phase' = "interpret" /\ op' = NoOp
  /\ UNCHANGED <<fixed, host, call, result, promises, suspension, ctx>>

StillPending ==
  /\ Answering /\ op.kind \in {"resume", "pollWait"} /\ host[op.handle] = "pending"
  /\ \/ /\ op.kind = "pollWait"
        /\ phase' = "sleep" /\ op' = NoOp
        /\ UNCHANGED <<call, result, ctx>>
     \/ /\ op.kind = "resume"
        /\ Return("pending")
  /\ UNCHANGED <<fixed, host, machines, promises, suspension>>

(* Wait of a host may return before the handle is done, but need not.      *)
WaitWokeEarly ==
  /\ Answering /\ op.kind = "wait" /\ host[op.handle] = "pending"
  /\ Return("pending")
  /\ UNCHANGED <<fixed, host, machines, promises, suspension>>

SettledIfReady ==
  /\ Answering /\ op.kind \in {"resume", "wait", "pollWait"} /\ host[op.handle] = "ready"
  /\ SettleAndResume
  /\ UNCHANGED <<fixed, host>>

Settled ==
  /\ Answering /\ op.kind \in {"resume", "wait", "pollWait"} /\ host[op.handle] # "pending"
  /\ SettleAndResume
  /\ UNCHANGED <<fixed, host>>

FailForgets(r) ==
  /\ Return(r)
  /\ suspension' = 0
  /\ Abandon
  /\ UNCHANGED <<fixed, host, promises>>

(* Once more after an error that may be retried, or the error: a failed    *)
(* resume ends the suspension, a failed wait does not.                     *)
Fail(r) ==
  /\ Return(r)
  /\ suspension' = IF op.kind = "resume" THEN 0 ELSE suspension
  /\ Abandon
  /\ UNCHANGED <<fixed, host, promises>>

RetryEnabled ==
  (IF op.kind \in {"resume", "pollWait"} THEN "poll" ELSE op.kind) \in setup.retries

RetryOnceMore ==
  /\ RetryEnabled /\ op.attempt <= RetryCount
  /\ op' = [op EXCEPT !.attempt = @ + 1]
  /\ UNCHANGED <<fixed, host, call, phase, result, machines, promises, suspension, ctx>>

Retry ==
  /\ RetryEnabled /\ op.attempt < RetryCount
  /\ op' = [op EXCEPT !.attempt = @ + 1]
  /\ UNCHANGED <<fixed, host, call, phase, result, machines, promises, suspension, ctx>>

(* The host says no, once and for all or for now.                          *)
OpFails == Answering /\ (Retry \/ Fail("error"))

(* HostTimeout or WaitTimeout has passed.                                  *)
OpTimesOut ==
  /\ phase = "op" /\ OpCtx # "over" /\ setup.timeouts
  /\ Retry \/ Fail("error")

OpContextEnds ==
  /\ phase = "op" /\ OpCtx = "over"
  /\ Fail("ended")

-----------------------------------------------------------------------------
Interpret == LoadLocal \/ HostOperation \/ CallAsync \/ FunctionEnds \/ AwaitSettled \/ AwaitPending \/ InterpretEnds
Answered == Polled \/ Called \/ StillPending \/ Settled \/ OpTimesOut \/ OpContextEnds
Proceed == Interpret \/ Wait \/ Sleep \/ Answered

Next ==
  \/ Proceed \/ WaitWokeEarly \/ OpFails
  \/ Run("run") \/ Run("settle") \/ ResumeSuspension \/ WaitSuspension
  \/ \E h \in Handles : HostCompletes(h)
  \/ \E c \in {"run", "wait"} : ContextEnds(c)

(* The goroutine runs, the host answers except on a Hanging handle, and it *)
(* honours a context.  No handle need ever be done, no context ever end.   *)
Spec == Init /\ [][Next]_vars /\ WF_vars(Proceed)

-----------------------------------------------------------------------------
(* Properties. *)

(* The stack that the first n instructions leave, as pairs: what was polled*)
(* or called, and how many promises deep it is.                            *)
Effect(s, i, asyncValue) ==
  CASE i.op = "poll"  -> Append(s, <<i.arg, 1>>)
    [] i.op = "call"  -> Append(s, <<i.arg, 0>>)
    [] i.op = "load"  -> Append(s, s[i.arg])
    [] i.op = "async" -> Append(s, <<asyncValue[1], asyncValue[2] + 1>>)
    [] i.op = "await" -> Append(Front(s), <<Last(s)[1], IF Last(s)[2] = 0 THEN 0 ELSE Last(s)[2] - 1>>)

Stacks(code, asyncValue) ==
  LET stack[n \in 0 .. Len(code)] == IF n = 0 THEN <<>> ELSE Effect(stack[n - 1], code[n], asyncValue)
  IN  stack

(* What an async function, which calls no other, leaves on top.            *)
Nothing == <<None, 0>>
AsyncValue ==
  LET s == Stacks(program.async, Nothing)[Len(program.async)]
  IN  IF s = <<>> THEN Nothing ELSE Last(s)

Expected(m) == Stacks(Code(m), IF m.fn = "main" THEN AsyncValue ELSE Nothing)[m.ip - 1]

Held(v) ==
  IF v.promise = 0 THEN <<v.of, 0>>
  ELSE LET p == promises[v.promise]
       IN  IF p.inner = 0 THEN <<p.handle, 1>> ELSE <<promises[p.inner].handle, 2>>

Shape(stack) == [i \in DOMAIN stack |-> Held(stack[i])]
Matches(m) == Shape(m.stack) = Expected(m)

(* Whatever was polled, suspended, retried and waited for, each machine has*)
(* the operands its program has computed so far: every await was answered  *)
(* once, by its own promise, and a suspended machine lacks just that value.*)
(* A promise says what the host said of its handle.                        *)
Coherent ==
  /\ phase = "interpret" \/ op.kind \in {"poll", "call"} \/ (phase = "idle" /\ result = "done") =>
       /\ suspension = 0
       /\ \A i \in DOMAIN machines : Matches(machines[i])
  /\ suspension # 0 =>
       Append(Shape(machines[1].stack), <<promises[suspension].handle, 0>>) = Expected(machines[1])
  /\ \A p \in DOMAIN promises :
       promises[p].handle \in Handles /\ promises[p].status # "pending" =>
         promises[p].status = host[promises[p].handle]

(* A suspension is given up for a settled promise or by a resume of the    *)
(* embedding program that failed; a wait that failed can be made again.    *)
SuspensionKept ==
  [][suspension # 0 /\ suspension' # suspension =>
       suspension' = 0 /\ (call = "resume" \/ promises'[suspension].status # "pending")]_vars

(* "until the module completes or the context ends": RunUntilSettled       *)
(* returns when its context has ended, also while the host hangs.          *)
ContextStopsRun == call = "settle" /\ ctx["run"] = "over" ~> call = "none"

(* RunUntilSettled returns when the host is done with every handle, if it  *)
(* answers at all.                                                         *)
Answers == \A fn \in {"main", "async"} : \A i \in DOMAIN program[fn] : program[fn][i].arg \notin Hanging
RunSettles ==
  call = "settle" /\ Answers /\ (\A h \in Handles : host[h] # "pending") ~> call = "none"

(* "await host.poll(handle) suspends the VM": when a run says that its     *)
(* promise is pending there is a suspension to resume.                     *)
PendingSuspends ==
  phase = "wait" \/ (phase = "idle" /\ result = "pending") => suspension # 0
-----------------------------------------------------------------------------
(* The inductive invariant behind SuspensionKept.  Every instruction       *)
(* leaves one operand more but await, which replaces one: a program is     *)
(* well formed when its loads and awaits find what they take.              *)
Height(code, i) == Cardinality({j \in 1 .. i - 1 : code[j].op # "await"})

WellFormed(code) ==
  /\ DOMAIN code = 1 .. Len(code) /\ Len(code) \in Nat
  /\ \A i \in DOMAIN code :
       /\ code[i].op = "poll" => code[i].arg \in Handles \cup Hanging
       /\ code[i].op = "call" => code[i].arg \notin Handles
       /\ code[i].op = "load" => code[i].arg \in 1 .. Height(code, i)
       /\ code[i].op = "await" => Height(code, i) > 0

Things == {None} \cup UNION {{program[fn][i].arg : i \in DOMAIN program[fn]} : fn \in {"main", "async"}}
Operands == Seq([promise : 0 .. Len(promises), of : Things])

PromisesInv ==
  /\ promises \in Seq([handle : Things, inner : Nat, status : HostState])
  /\ \A p \in DOMAIN promises :
       /\ promises[p].inner < p
       /\ promises[p].status = "pending" => promises[p].handle \in Handles

MachinesInv ==
  /\ machines \in Seq([fn : {"main", "async"}, ip : Nat, stack : Operands])
  /\ Len(machines) <= 2
  /\ \A i \in DOMAIN machines :
       /\ machines[i].fn = IF i = 1 THEN "main" ELSE "async"
       /\ machines[i].ip \in 1 .. Len(Code(machines[i])) + 1
  /\ phase = "new" <=> machines = <<>>

OpInv ==
  /\ op = NoOp \/ op \in [kind : Kinds, handle : Things, attempt : 0 .. RetryCount]
  /\ phase = "op" <=> op # NoOp
  /\ op.kind \in {"resume", "wait", "pollWait"} =>
       suspension # 0 /\ op.handle = promises[suspension].handle
  /\ op.kind = "resume" => call = "resume"
  /\ phase = "sleep" => suspension # 0

(* While a program computes, each machine has its operands, and the one of *)
(* main is at its call of the async function.                              *)
Computing == phase = "interpret" \/ op.kind \in {"poll", "call"}
AtCall(m, name) == m.ip \in DOMAIN Code(m) /\ Code(m)[m.ip].op = name
ComputeInv ==
  Computing =>
    /\ suspension = 0
    /\ \A i \in DOMAIN machines : Len(machines[i].stack) = Height(Code(machines[i]), machines[i].ip)
    /\ InAsync => AtCall(machines[1], "async")
    /\ op.kind \in {"poll", "call"} => AtCall(Top, op.kind) /\ op.handle = Instruction.arg

(* A suspended machine waits for a pending promise, and lacks its value.   *)
SuspendInv ==
  suspension # 0 =>
    /\ suspension \in DOMAIN promises /\ promises[suspension].status = "pending"
    /\ Len(machines) = 1
    /\ Len(machines[1].stack) + 1 = Height(Code(machines[1]), machines[1].ip)

(* The operands are those of the program: a promise yields the value or the*)
(* promise it stands for, and what is shown of a handle is final.          *)
MachinesMatch ==
  Computing \/ (phase = "idle" /\ result = "done") =>
    suspension = 0 /\ \A i \in DOMAIN machines : Matches(machines[i])
SuspendedMatches ==
  suspension # 0 => Append(Shape(machines[1].stack), <<promises[suspension].handle, 0>>) = Expected(machines[1])
PromiseTrue(p) ==
  /\ promises[p].status = "pending" => promises[p].inner = 0
  /\ promises[p].inner # 0 => promises[promises[p].inner].inner = 0 /\ promises[p].handle = None
  /\ promises[p].handle \in Handles /\ promises[p].status # "pending" =>
       promises[p].status = host[promises[p].handle]
OperandTrue(v, i) ==
  /\ v.promise = 0 /\ v.of \in Handles => host[v.of] = "ready"
  /\ v.promise # 0 => v.of = None
  /\ i = 2 /\ v.promise # 0 => promises[v.promise].inner = 0
AllTrue ==
  /\ \A p \in DOMAIN promises : PromiseTrue(p)
  /\ \A i \in DOMAIN machines : \A j \in DOMAIN machines[i].stack : OperandTrue(machines[i].stack[j], i)
CoherentInv == MachinesMatch /\ SuspendedMatches /\ AllTrue

RunInv == PromisesInv /\ MachinesInv /\ OpInv /\ ComputeInv /\ SuspendInv
=============================================================================
