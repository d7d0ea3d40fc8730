------------------------------- MODULE IavmVM -------------------------------
(***************************************************************************)
(* The interpreter of iavm/pkg/runtime on a module that was loaded from a  *)
(* file: frames with locals and handlers, one stack of operands for all of *)
(* them, globals, and cells that closures share with the frame that made   *)
(* them.  A module the verifier refuses does not run.                      *)
(*                                                                         *)
(* A return pushes nothing: what the caller takes for the value is what    *)
(* lies on top.  Nothing is ever cut off the stack, and a pop of the empty *)
(* stack gives null.  An exception goes to the innermost handler of any    *)
(* frame; an error of the machine ends the run.                            *)
(*                                                                         *)
(* Left out: objects, classes and this, async functions and suspension     *)
(* (module Suspension), the host's calls (modules HostHandles and          *)
(* Suspension), division and the operators on bits.                        *)
(***************************************************************************)
EXTENDS Verifier

VARIABLES
  loaded,  \* what runs: a result of Load
  frames,  \* the calls, the last one is running
  stack,   \* the operands of all of them
  globals,
  cells,   \* the variables that are shared with closures
  out,     \* the calls of print
  ending   \* None, or how the run ended

vars == <<loaded, frames, stack, globals, cells, out, ending>>

Functions == loaded.module.functions

FuncRef(f, upvalues) == <<"function", f, upvalues>>
NoCells == [k \in {} |-> 0]
NewFrame(f, base) ==
  [fn |-> f, ip |-> 0, locals |-> [k \in DOMAIN Functions[f + 1].locals |-> Null],
   base |-> base, try |-> <<>>, upvalues |-> NoCells]

(* The first function that is the entry or is called like one. *)
Entry ==
  LET n == SelectInSeq(Functions, IsEntry) IN IF n = 0 THEN 0 ELSE n - 1

(* Of the machine that New makes for a module. *)
Init ==
  /\ frames = IF loaded.accepted THEN <<NewFrame(Entry, 0)>> ELSE <<>>
  /\ ending = IF loaded.accepted THEN None ELSE <<"rejected">>
  /\ stack = <<>> /\ globals = <<>> /\ cells = <<>> /\ out = <<>>

Running == Last(frames)
Code == Functions[Running.fn + 1].code
Ins == Code[Running.ip + 1]
Executes(ops) ==
  ending = None /\ frames # <<>> /\ Running.ip < Len(Code) /\ Ins.op \in ops

(* The operand n places below the top. *)
Operand(n) == IF n < Len(stack) THEN stack[Len(stack) - n] ELSE Null
Popped(n) == SubSeq(stack, 1, Len(stack) - n)
Arguments(n) == [k \in 1..n |-> Operand(n - k)]

Resume(ip) == [frames EXCEPT ![Len(frames)].ip = ip]
Goes(s) == stack' = s /\ frames' = Resume(Running.ip + 1)
Error == /\ ending' = <<"error">>
         /\ UNCHANGED <<loaded, frames, stack, globals, cells, out>>

-----------------------------------------------------------------------------
(* Values. *)

IsNumeric(v) == v[1] \in {"number", "int"}
Holds(v) == IF v[1] = "int" THEN v[2] # 0 ELSE Truthy(v)

Calculated(op, m, n) ==
  CASE op = "OpAdd" -> m + n [] op = "OpSub" -> m - n [] op = "OpMul" -> m * n
Arithmetic(op, v, w) ==
  CASE op = "OpAdd" /\ (v[1] = "string" \/ w[1] = "string") -> Text
    [] v[1] = "int" /\ w[1] = "int" -> Integer(Calculated(op, v[2], w[2]))
    [] IsNumeric(v) /\ IsNumeric(w) -> Number(Calculated(op, v[2], w[2]))
    [] OTHER -> Null

(* Two arrays cannot be compared: the machine panics. *)
Comparable(v, w) == ~(v[1] = "array" /\ w[1] = "array")
ValuesEqual(v, w) ==
  CASE v[1] = "function" /\ w[1] = "function" -> v[2] = w[2]
    [] IsNumeric(v) /\ IsNumeric(w) -> v[2] = w[2]
    [] OTHER -> v = w
ValuesLess(v, w) == IsNumeric(v) /\ IsNumeric(w) /\ v[2] < w[2]
Compared(op, v, w) ==
  CASE op = "OpEq" -> ValuesEqual(v, w)
    [] op = "OpNe" -> ~ValuesEqual(v, w)
    [] op = "OpLt" -> ValuesLess(v, w)
    [] op = "OpGt" -> ValuesLess(w, v)
    [] op = "OpLe" -> ValuesEqual(v, w) \/ ValuesLess(v, w)
    [] op = "OpGe" -> ValuesEqual(v, w) \/ ValuesLess(w, v)

(* Of an array, or of a string, which gives a string; else an error. *)
IndexOf(v, i) ==
  CASE v[1] = "array" /\ IsNumeric(i) ->
         <<IF i[2] \in 0..(Len(v[2]) - 1) THEN v[2][i[2] + 1] ELSE Null>>
    [] v[1] = "string" /\ IsNumeric(i) -> <<Text>>
    [] OTHER -> None

Unaries == {"OpNeg", "OpNot", "OpObjectKeys", "OpGetProp"}
Arithmetics == {"OpAdd", "OpSub", "OpMul"}
Comparisons == {"OpEq", "OpNe", "OpLt", "OpGt", "OpLe", "OpGe"}
Binaries == Arithmetics \cup Comparisons \cup {"OpAnd", "OpOr", "OpIndex"}

(* The result, or None, an error: nothing here has properties. *)
Computed ==
  LET v == Operand(1)
      w == Operand(0)
  IN CASE Ins.op = "OpNeg" -> <<IF IsNumeric(w) THEN <<w[1], -w[2]>> ELSE Null>>
       [] Ins.op = "OpNot" -> <<Bool(~Holds(w))>>
       [] Ins.op = "OpObjectKeys" -> <<Array(<<>>)>>
       [] Ins.op = "OpGetProp" -> None
       [] Ins.op \in Arithmetics -> <<Arithmetic(Ins.op, v, w)>>
       [] Ins.op \in Comparisons -> <<Bool(Compared(Ins.op, v, w))>>
       [] Ins.op = "OpAnd" -> <<Bool(Holds(v) /\ Holds(w))>>
       [] Ins.op = "OpOr" -> <<Bool(Holds(v) \/ Holds(w))>>
       [] Ins.op = "OpIndex" -> IndexOf(v, w)

Panics == Ins.op \in {"OpEq", "OpNe", "OpLe", "OpGe"} /\ ~Comparable(Operand(1), Operand(0))
Compute ==
  /\ Executes(Unaries \cup Binaries) /\ ~Panics
  /\ IF Computed = None THEN Error
     ELSE /\ Goes(Append(Popped(IF Ins.op \in Unaries THEN 1 ELSE 2), Computed[1]))
          /\ UNCHANGED <<loaded, globals, cells, out, ending>>
Panic ==
  /\ Executes(Comparisons) /\ Panics
  /\ ending' = <<"panic">>
  /\ UNCHANGED <<loaded, frames, stack, globals, cells, out>>

(* A variable is what it was when the closure was made. *)
LoadedOwnLocal == Running.locals[Ins.a + 1]
(* A local that is shared is read from its cell. *)
LoadedLocal ==
  IF Ins.a \in DOMAIN Running.upvalues THEN cells[Running.upvalues[Ins.a]]
  ELSE Running.locals[Ins.a + 1]
Fetched ==
  CASE Ins.op = "OpConst" -> loaded.module.constants[Ins.a + 1]
    [] Ins.op = "OpLoadLocal" -> LoadedLocal
    [] Ins.op = "OpLoadGlobal" -> IF Ins.a < Len(globals) THEN globals[Ins.a + 1] ELSE Null
    [] Ins.op = "OpDup" -> Operand(0)
Fetch ==
  /\ Executes({"OpConst", "OpLoadLocal", "OpLoadGlobal", "OpDup"})
  /\ Goes(Append(stack, Fetched))
  /\ UNCHANGED <<loaded, globals, cells, out, ending>>

(* ... and written to both places. *)
StoreLocal ==
  /\ Executes({"OpStoreLocal"})
  /\ frames' = [Resume(Running.ip + 1) EXCEPT ![Len(frames)].locals[Ins.a + 1] = Operand(0)]
  /\ cells' = IF Ins.a \in DOMAIN Running.upvalues
              THEN [cells EXCEPT ![Running.upvalues[Ins.a]] = Operand(0)] ELSE cells
  /\ stack' = Popped(1)
  /\ UNCHANGED <<loaded, globals, out, ending>>

(* The globals grow as far as they are needed. *)
StoreGlobal ==
  /\ Executes({"OpStoreGlobal"})
  /\ globals' = [k \in 1..Max({Len(globals), Ins.a + 1}) |->
                   CASE k = Ins.a + 1 -> Operand(0)
                     [] k # Ins.a + 1 /\ k \in DOMAIN globals -> globals[k]
                     [] OTHER -> Null]
  /\ Goes(Popped(1))
  /\ UNCHANGED <<loaded, cells, out, ending>>

Pop ==
  /\ Executes({"OpPop"})
  /\ Goes(Popped(1))
  /\ UNCHANGED <<loaded, globals, cells, out, ending>>

MakeArray ==
  /\ Executes({"OpMakeArray"})
  /\ Goes(Append(Popped(Ins.a), Array(Arguments(Ins.a))))
  /\ UNCHANGED <<loaded, globals, cells, out, ending>>

-----------------------------------------------------------------------------
(* Control. *)

Branch ==
  /\ Executes({"OpJump", "OpJumpIfFalse"})
  /\ frames' = Resume(IF Ins.op = "OpJump" \/ ~Holds(Operand(0)) THEN Ins.a ELSE Running.ip + 1)
  /\ stack' = IF Ins.op = "OpJump" THEN stack ELSE Popped(1)
  /\ UNCHANGED <<loaded, globals, cells, out, ending>>

PushTry ==
  /\ Executes({"OpPushTry"})
  /\ frames' = [Resume(Running.ip + 1) EXCEPT
       ![Len(frames)].try = Append(@, [handler |-> Ins.a, local |-> Ins.b])]
  /\ UNCHANGED <<loaded, stack, globals, cells, out, ending>>

PopTry ==
  /\ Executes({"OpPopTry"})
  /\ frames' = [Resume(Running.ip + 1) EXCEPT
       ![Len(frames)].try = IF @ = <<>> THEN @ ELSE Front(@)]
  /\ UNCHANGED <<loaded, stack, globals, cells, out, ending>>

(* The exception goes into the local of the handler, one above its number, *)
(* or onto the stack.  The cell of a shared local keeps what it had.       *)
Throw ==
  /\ Executes({"OpThrow"})
  /\ LET guarded == {k \in DOMAIN frames : frames[k].try # <<>>}
         n == Max(guarded)
         h == Last(frames[n].try)
         named == h.local \in 1..Len(frames[n].locals)
         caught == [frames[n] EXCEPT !.try = Front(@), !.ip = h.handler]
     IN IF guarded = {}
        THEN frames' = <<>> /\ stack' = Popped(1) /\ ending' = <<"failed">>
        ELSE /\ frames' = Append(SubSeq(frames, 1, n - 1),
                                 IF named THEN [caught EXCEPT !.locals[h.local] = Operand(0)] ELSE caught)
             /\ stack' = IF named THEN Popped(1) ELSE stack
             /\ UNCHANGED ending
  /\ UNCHANGED <<loaded, globals, cells, out>>

-----------------------------------------------------------------------------
(* Closures and calls. *)

(* Every variable that is captured is copied to a new cell, which the      *)
(* frame uses for it from now on.                                          *)
MakeClosure ==
  /\ Executes({"OpClosure"})
  /\ LET captures == Functions[Ins.a + 1].captures
         fresh == [k \in DOMAIN captures |-> Len(cells) + k]
         shared == [s \in ToSet(captures) |-> fresh[SelectLastInSeq(captures, LAMBDA c : c = s)]]
         copied == [k \in DOMAIN captures |->
                      IF captures[k] < Len(Running.locals) THEN Running.locals[captures[k] + 1] ELSE Null]
     IN /\ cells' = cells \o copied
        /\ frames' = [Resume(Running.ip + 1) EXCEPT ![Len(frames)].upvalues = shared @@ @]
        /\ stack' = Append(stack, FuncRef(Ins.a, fresh))
  /\ UNCHANGED <<loaded, globals, out, ending>>

Callee == Operand(Ins.a)
Returns == Running.ip + 1
IsFunction(v) == v[1] = "function" \/ (v[1] = "int" /\ v[2] < Len(Functions))

(* Arguments that are too many are dropped, missing ones are null; cell k  *)
(* of a closure goes to local k, whatever that is for.                     *)
PushCallFrame ==
  /\ Executes({"OpCall"}) /\ IsFunction(Callee)
  /\ LET new == NewFrame(Callee[2], Len(Popped(Ins.a + 1)))
         upvalues == IF Callee[1] = "function" THEN Callee[3] ELSE <<>>
     IN frames' = Append(Resume(Returns),
          [new EXCEPT !.locals = [k \in DOMAIN @ |-> IF k <= Ins.a THEN Operand(Ins.a - k) ELSE Null],
                      !.upvalues = [s \in {t \in 0..(Len(upvalues) - 1) : t < Len(new.locals)} |->
                                      upvalues[s + 1]]])
  /\ stack' = Popped(Ins.a + 1)
  /\ UNCHANGED <<loaded, globals, cells, out, ending>>

(* A string calls the builtin of this name; of these there is only print. *)
CallBuiltin ==
  /\ Executes({"OpCall"}) /\ Callee = Name("print")
  /\ out' = Append(out, <<Native("print")>> \o Arguments(Ins.a))
  /\ Goes(Append(Popped(Ins.a + 1), Null))
  /\ UNCHANGED <<loaded, globals, cells, ending>>

CallFails ==
  /\ Executes({"OpCall"}) /\ ~IsFunction(Callee) /\ Callee # Name("print")
  /\ Error

(* By the instruction, or at the end of the code. *)
Return ==
  /\ ending = None /\ frames # <<>>
  /\ Running.ip < Len(Code) => Ins.op = "OpReturn"
  /\ frames' = Front(frames)
  /\ UNCHANGED <<loaded, stack, globals, cells, out, ending>>

Finish ==
  /\ ending = None /\ frames = <<>>
  /\ ending' = <<"returned">>
  /\ UNCHANGED <<loaded, frames, stack, globals, cells, out>>

Next ==
  \/ Fetch \/ Compute \/ Panic \/ StoreLocal \/ StoreGlobal \/ Pop \/ MakeArray
  \/ Branch \/ PushTry \/ PopTry \/ Throw
  \/ MakeClosure \/ PushCallFrame \/ CallBuiltin \/ CallFails \/ Return \/ Finish

-----------------------------------------------------------------------------
(* What lowering, the file of a module, its verifier and this interpreter  *)
(* promise together: a program does on iavm what it means.  They promise   *)
(* it for fewer programs than the machine of ialang does.                  *)
VARIABLE expected \* what the program means, or None if it is not supported

(* A supported program is accepted by the verifier, comes to an end, and   *)
(* has then printed what it means and returned or failed as it should:     *)
(* every name, jump, handler, constant and closure is still what it was    *)
(* after lowering, encoding and decoding.                                  *)
AgreesOnIavm == out = expected[1].out /\ ending[1] = expected[1].ending[1]
HasItsMeaning == expected # None => ending # None /\ AgreesOnIavm
IavmFaithful == <>HasItsMeaning

(* The verifier's heights are those of the machine: above its base a call  *)
(* has the operands that verifyStackEffects computed for the address it is *)
(* at; a caller waits for one more.                                        *)
Heights(k) == loaded.heights[frames[k].fn + 1]
HeightsAgree ==
  \A k \in DOMAIN frames :
    LET top == IF k = Len(frames) THEN Len(stack) ELSE frames[k + 1].base
        waits == IF k = Len(frames) THEN 0 ELSE 1
    IN frames[k].ip \in DOMAIN Heights(k) => top - frames[k].base = Heights(k)[frames[k].ip] - waits
HeightsHold == expected # None => HeightsAgree
=============================================================================
