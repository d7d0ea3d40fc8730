------------------------------ MODULE IalangVM ------------------------------
(***************************************************************************)
(* The machine of ialang/pkg/lang/runtime/vm: a stack of values, a stack   *)
(* of handlers and an instruction pointer for every call that is running   *)
(* (a call runs in a machine of its own, whose caller waits for it), and   *)
(* environments that closures keep.  One action per kind of instruction;   *)
(* an instruction that fails does what its handler, or that of the nearest *)
(* caller with one, makes of the failure.                                  *)
(*                                                                         *)
(* Not modelled: classes and objects, async calls, imports and exports,    *)
(* and the step and time limits of the sandbox.                            *)
(***************************************************************************)
EXTENDS Compiler

CONSTANTS
  Programs,  \* a sequence of programs, each a sequence of functions
  Templates, \* what the compiler makes of each of them
  MaxAsks    \* bound: the host answers no from then on

VARIABLES
  prog,      \* the program that runs
  frames,    \* the calls: [fn, ip, stack, try, env], the last one is running
  envs,      \* the environments made so far
  out,       \* the calls of natives: what can be seen of the program
  ending     \* None, or how the run ended

vars == <<prog, frames, envs, out, ending>>

(* Both once more, as definitions that TLC evaluates once. *)
Sources == <<>> \o Programs
Chunks == <<>> \o Templates

ASSUME ChunksAssumption ==
  /\ DOMAIN Chunks = DOMAIN Sources
  /\ \A i \in DOMAIN Sources : Chunks[i] = Compiled(Sources[i])

Frame(f, k) == [fn |-> f, ip |-> 1, stack |-> <<>>, try |-> <<>>, env |-> k]
Code(f) == Chunks[prog][f].code

Init ==
  /\ prog \in {i \in DOMAIN Chunks : ~HasErrors(Chunks[i])}
  /\ frames = <<Frame(1, 1)>>
  /\ envs = <<Environment(0)>>
  /\ out = <<>>
  /\ ending = None

Running == Last(frames)
Ip == Running.ip
Stack == Running.stack
Executes(op) == ending = None /\ Ip # 0 /\ Code(Running.fn)[Ip].op \in op
Ins == Code(Running.fn)[Ip]

(* The operand n places below the top. *)
Operand(n) == Stack[Len(Stack) - n]
Popped(n) == SubSeq(Stack, 1, Len(Stack) - n)

Resume(stack, ip) == [frames EXCEPT ![Len(frames)].stack = stack, ![Len(frames)].ip = ip]
Continue(stack) == frames' = Resume(stack, Ip + 1)

(* What was on the stack of the call stays there. *)
RaiseKeepingStack(v) ==
  LET guarded == {i \in DOMAIN frames : frames[i].try # <<>>}
      n == Max(guarded)
      f == frames[n]
      h == Last(f.try)
  IN IF guarded = {}
     THEN /\ ending' = <<"failed", v>>
          /\ UNCHANGED <<prog, frames, envs, out>>
     ELSE /\ frames' = Append(SubSeq(frames, 1, n - 1), [f EXCEPT !.try = Front(@), !.ip = h.catch])
          /\ envs' = Define(envs, f.env, h.name, v)
          /\ UNCHANGED <<prog, out, ending>>

(* A failure unwinds to the nearest call that has a handler: its stack is  *)
(* cut to what it was when the handler was pushed, and the value gets the  *)
(* name of the handler.  Without one the run fails.                        *)
Raise(v) ==
  LET guarded == {i \in DOMAIN frames : frames[i].try # <<>>}
      n == Max(guarded)
      f == frames[n]
      h == Last(f.try)
  IN IF guarded = {}
     THEN /\ ending' = <<"failed", v>>
          /\ UNCHANGED <<prog, frames, envs, out>>
     ELSE /\ frames' = Append(SubSeq(frames, 1, n - 1),
                              [f EXCEPT !.try = Front(@), !.ip = h.catch,
                                        !.stack = SubSeq(@, 1, h.base)])
          /\ envs' = Define(envs, f.env, h.name, v)
          /\ UNCHANGED <<prog, out, ending>>
Fail == Raise(Text)

(* An instruction that needs n operands fails if there are fewer. *)
Needs(n) == Len(Stack) >= n

-----------------------------------------------------------------------------
(* Values. *)

Pushes == {"OpConstant", "OpGetName", "OpClosure"}
Fetched ==
  CASE Ins.op = "OpConstant" -> <<Ins.a>>
    [] Ins.op = "OpClosure" -> <<Closure(Ins.a, Running.env)>>
    [] Ins.op = "OpGetName" ->
         IF Known(envs, Running.env, Ins.a) THEN <<Get(envs, Running.env, Ins.a)>> ELSE None

Fetch ==
  /\ Executes(Pushes)
  /\ IF Fetched = None THEN Fail
     ELSE /\ Continue(Append(Stack, Fetched[1]))
          /\ UNCHANGED <<prog, envs, out, ending>>

OneOperand == {"OpNot", "OpNeg", "OpGetProperty", "OpObjectKeys"}
TwoOperands == {"PLUS", "MINUS", "ASTERISK", "EQ", "NEQ", "LT", "GT", "LTE", "GTE",
                "OpAnd", "OpOr", "OpIndex"}
Arity == IF Ins.op \in OneOperand THEN 1 ELSE 2

(* What is pushed for the operands; the logical operators have both. *)
Computed ==
  CASE Ins.op = "OpNot" -> Unary("BANG", Operand(0))
    [] Ins.op = "OpNeg" -> Unary("MINUS", Operand(0))
    [] Ins.op = "OpGetProperty" -> Length(Operand(0))
    [] Ins.op = "OpObjectKeys" -> ObjectKeys(Operand(0))
    [] Ins.op = "OpAnd" -> <<IF Truthy(Operand(1)) THEN Operand(0) ELSE Operand(1)>>
    [] Ins.op = "OpOr" -> <<IF Truthy(Operand(1)) THEN Operand(1) ELSE Operand(0)>>
    [] Ins.op = "OpIndex" -> Index(Operand(1), Operand(0))
    [] OTHER -> Binary(Ins.op, Operand(1), Operand(0))

Compute ==
  /\ Executes(OneOperand \cup TwoOperands)
  /\ IF ~Needs(Arity) \/ Computed = None THEN Fail
     ELSE /\ Continue(Append(Popped(Arity), Computed[1]))
          /\ UNCHANGED <<prog, envs, out, ending>>

MakeArray ==
  /\ Executes({"OpArray"})
  /\ IF ~Needs(Ins.a) THEN Fail
     ELSE /\ Continue(Append(Popped(Ins.a), Array(SubSeq(Stack, Len(Stack) - Ins.a + 1, Len(Stack)))))
          /\ UNCHANGED <<prog, envs, out, ending>>

PopOrDup ==
  /\ Executes({"OpPop", "OpDup"})
  /\ IF ~Needs(1) THEN Fail
     ELSE /\ Continue(IF Ins.op = "OpPop" THEN Popped(1) ELSE Append(Stack, Operand(0)))
          /\ UNCHANGED <<prog, envs, out, ending>>

(* A definition is in the scope of the call, an assignment in the nearest  *)
(* one that knows the name.                                                *)
Store ==
  /\ Executes({"OpDefineName", "OpSetName"})
  /\ IF ~Needs(1) \/ (Ins.op = "OpSetName" /\ ~Settable(envs, Running.env, Ins.a)) THEN Fail
     ELSE /\ envs' = IF Ins.op = "OpDefineName"
                     THEN Define(envs, Running.env, Ins.a, Operand(0))
                     ELSE Set(envs, Running.env, Ins.a, Operand(0))
          /\ Continue(Popped(1))
          /\ UNCHANGED <<prog, out, ending>>

-----------------------------------------------------------------------------
(* Control. *)

Jumps == {"OpJump", "OpJumpIfFalse", "OpJumpIfTrue", "OpJumpIfNotNullish"}
Taken ==
  CASE Ins.op = "OpJump" -> TRUE
    [] Ins.op = "OpJumpIfFalse" -> ~Truthy(Operand(0))
    [] Ins.op = "OpJumpIfTrue" -> Truthy(Operand(0))
    [] Ins.op = "OpJumpIfNotNullish" -> Operand(0) # Null

Branch ==
  /\ Executes(Jumps)
  /\ IF Ins.op # "OpJump" /\ ~Needs(1) THEN Fail
     ELSE /\ frames' = Resume(IF Ins.op \in {"OpJumpIfFalse", "OpJumpIfTrue"} THEN Popped(1) ELSE Stack,
                              IF Taken THEN Ins.a ELSE Ip + 1)
          /\ UNCHANGED <<prog, envs, out, ending>>

PushTry ==
  /\ Executes({"OpPushTry"})
  /\ frames' = [frames EXCEPT
       ![Len(frames)].try = Append(@, [catch |-> Ins.a, name |-> Ins.b, base |-> Len(Stack)]),
       ![Len(frames)].ip = @ + 1]
  /\ UNCHANGED <<prog, envs, out, ending>>

PopTry ==
  /\ Executes({"OpPopTry"})
  /\ IF Running.try = <<>> THEN Fail
     ELSE /\ frames' = [frames EXCEPT ![Len(frames)].try = Front(@), ![Len(frames)].ip = @ + 1]
          /\ UNCHANGED <<prog, envs, out, ending>>

Throw ==
  /\ Executes({"OpThrow"})
  /\ Raise(IF Needs(1) THEN Operand(0) ELSE Text)

(* Calls. *)

Callee == Operand(Ins.a)
Arguments == SubSeq(Stack, Len(Stack) - Ins.a + 1, Len(Stack))
Asked == Cardinality({i \in DOMAIN out : out[i][1] = Native("ask")})

CallNative ==
  /\ Executes({"OpCall"}) /\ Needs(Ins.a + 1) /\ Callee[1] = "native"
  /\ \E answer \in IF Asked < MaxAsks THEN BOOLEAN ELSE {FALSE} :
       LET seen == IF Callee = Native("ask") THEN <<Bool(answer)>> ELSE Arguments
       IN /\ out' = Append(out, <<Callee>> \o seen)
          /\ Continue(Append(Popped(Ins.a + 1), IF Callee = Native("ask") THEN Bool(answer) ELSE Null))
  /\ UNCHANGED <<prog, envs, ending>>

Accepts(f) == ~TooMany(Chunks[prog][f], Arguments)
(* The function runs in the scope of its caller. *)
CallFunctionDynamic ==
  /\ Executes({"OpCall"}) /\ Needs(Ins.a + 1) /\ Callee[1] = "function"
  /\ Accepts(Callee[2])
  /\ envs' = Call(envs, Running.env, Chunks[prog][Callee[2]], Arguments)
  /\ frames' = Append(Resume(Popped(Ins.a + 1), Ip + 1), Frame(Callee[2], Len(envs')))
  /\ UNCHANGED <<prog, out, ending>>

CallFunction ==
  /\ Executes({"OpCall"}) /\ Needs(Ins.a + 1) /\ Callee[1] = "function"
  /\ Accepts(Callee[2])
  /\ envs' = Call(envs, Callee[3], Chunks[prog][Callee[2]], Arguments)
  /\ frames' = Append(Resume(Popped(Ins.a + 1), Ip + 1), Frame(Callee[2], Len(envs')))
  /\ UNCHANGED <<prog, out, ending>>

Uncallable ==
  IF ~Needs(Ins.a + 1) THEN TRUE
  ELSE IF Callee[1] = "function" THEN ~Accepts(Callee[2]) ELSE Callee[1] # "native"
CallFails == Executes({"OpCall"}) /\ Uncallable /\ Fail

(* The value goes to the caller, or the run ends.  (The value is there:    *)
(* the compiler puts its expression right before the return.)              *)
Returned == IF Ins.a = 1 THEN Operand(0) ELSE Null
Return ==
  /\ Executes({"OpReturn"})
  /\ IF Len(frames) = 1
     THEN /\ ending' = <<"returned", Returned>>
          /\ UNCHANGED frames
     ELSE LET caller == frames[Len(frames) - 1]
          IN /\ frames' = Append(SubSeq(frames, 1, Len(frames) - 2),
                                 [caller EXCEPT !.stack = Append(@, Returned)])
             /\ UNCHANGED ending
  /\ UNCHANGED <<prog, envs, out>>

(* A jump that was never patched: the index is out of range. *)
Panic ==
  /\ ending = None /\ Ip = 0
  /\ ending' = <<"panic", Null>>
  /\ UNCHANGED <<prog, frames, envs, out>>

Next ==
  \/ Fetch \/ Compute \/ MakeArray \/ PopOrDup \/ Store
  \/ Branch \/ PushTry \/ PopTry \/ Throw
  \/ CallNative \/ CallFunction \/ CallFails \/ Return \/ Panic

Spec == Init /\ [][Next]_vars /\ WF_vars(Next)
=============================================================================
