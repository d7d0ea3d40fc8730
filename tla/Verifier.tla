------------------------------ MODULE Verifier ------------------------------
(***************************************************************************)
(* What is checked of a module before it runs: binary/verifier.go.  The    *)
(* header, limits, indexes, and that at every address of a function the    *)
(* stack has the same height on whatever way control gets there.           *)
(*                                                                         *)
(* Left out: types of values, imports and capabilities, of which a lowered *)
(* module has none, and the effects of the instructions that lowering      *)
(* never makes.                                                            *)
(***************************************************************************)
EXTENDS ModuleCodec

(* Profiles: 0 is no limit. *)
Unlimited == [requireEntry |-> FALSE, functions |-> 0, constants |-> 0, code |-> 0, locals |-> 0, stack |-> 0]
BuildVerifyOptions(profile) ==
  CASE profile = "default" -> Unlimited
    [] profile = "strict" -> [Unlimited EXCEPT !.requireEntry = TRUE]
    [] profile = "sandbox" ->
         [requireEntry |-> TRUE, functions |-> 128, constants |-> 512, code |-> 4096,
          locals |-> 64, stack |-> 128]
Within(n, limit) == limit = 0 \/ n <= limit

VerifyHeader(m) == m.magic = "IAVM" /\ m.version \in 1..2 /\ m.target # ""

VerifyResourceLimits(m, o) ==
  /\ Within(Len(m.functions), o.functions)
  /\ Within(Len(m.constants), o.constants)
  /\ \A k \in DOMAIN m.functions :
       LET f == m.functions[k]
       IN /\ Within(Len(f.code), o.code)
          /\ Within(Len(f.locals), o.locals)
          /\ m.constants = <<>> => Within(Len(f.constants), o.constants)
          /\ Within(f.maxStack, o.stack)

(* Addresses, locals and constants are in range; globals are not checked. *)
Targeting == Jumping \cup {"OpPushTry"}
InRange(i, f, m) ==
  CASE i.op \in Targeting -> i.a \in 0..(Len(f.code) - 1)
    [] i.op \in {"OpLoadLocal", "OpStoreLocal"} -> i.a < Len(f.locals)
    [] i.op \in {"OpConst", "OpGetProp"} ->
         i.a \in 0..(Len(IF m.constants = <<>> THEN f.constants ELSE m.constants) - 1)
    [] OTHER -> TRUE
VerifyControlFlow(f, m) == \A n \in DOMAIN f.code : InRange(f.code[n], f, m)

-----------------------------------------------------------------------------
(* Heights. *)

(* What an instruction takes and what it puts, or nothing where the table  *)
(* does not know it: the jumps on true and on null, and OpObjectKeys.      *)
Takes(pop, push) == <<[pop |-> pop, push |-> push]>>
(* A call takes its arguments only. *)
CallKeepsFunction(i) == Takes(i.a, 1)
(* A call takes the arguments and the function. *)
CallStackEffect(i) == Takes(i.a + 1, 1)
StackEffect(i) ==
  CASE i.op \in {"OpNop", "OpJump", "OpPushTry", "OpPopTry", "OpReturn"} -> Takes(0, 0)
    [] i.op \in {"OpConst", "OpLoadLocal", "OpLoadGlobal", "OpClosure"} -> Takes(0, 1)
    [] i.op \in {"OpStoreLocal", "OpStoreGlobal", "OpJumpIfFalse", "OpPop", "OpThrow"} -> Takes(1, 0)
    [] i.op \in {"OpNeg", "OpNot", "OpGetProp"} -> Takes(1, 1)
    [] i.op = "OpDup" -> Takes(1, 2)
    [] i.op \in {"OpAdd", "OpSub", "OpMul", "OpEq", "OpNe", "OpLt", "OpGt", "OpLe", "OpGe",
                 "OpAnd", "OpOr", "OpIndex"} -> Takes(2, 1)
    [] i.op = "OpMakeArray" -> Takes(i.a, 1)
    [] i.op = "OpCall" -> CallStackEffect(i)
    [] OTHER -> None

StackSuccessors(i, n, length) ==
  (CASE i.op = "OpJump" -> {i.a}
     [] i.op = "OpJumpIfFalse" -> {i.a, n + 1}
     [] i.op \in {"OpReturn", "OpThrow"} -> {}
     [] OTHER -> {n + 1}) \cap (0..(length - 1))

(* The addresses to go on from, the heights at the addresses that were     *)
(* reached, and whether nothing was wrong so far.  A handler's address is  *)
(* no successor: it is reached only when other code leads there too.       *)
Applied(i, height) ==
  LET e == StackEffect(i)
  IN IF e = None \/ height < e[1].pop THEN None ELSE <<height - e[1].pop + e[1].push>>
RECURSIVE Visit(_, _, _)
Visit(f, work, heights) ==
  IF work = {} THEN [ok |-> TRUE, heights |-> heights]
  ELSE LET n == CHOOSE n \in work : TRUE
           i == f.code[n + 1]
           after == Applied(i, heights[n])
           next == StackSuccessors(i, n, Len(f.code))
           new == next \ DOMAIN heights
       IN IF after = None \/ ~Within(after[1], f.maxStack)
             \/ \E k \in next \ new : heights[k] # after[1]
          THEN [ok |-> FALSE, heights |-> heights]
          ELSE Visit(f, (work \ {n}) \cup new, heights @@ [k \in new |-> after[1]])

VerifyStackEffects(f) ==
  IF f.code = <<>> THEN [ok |-> TRUE, heights |-> [k \in {} |-> 0]]
  ELSE Visit(f, {0}, 0 :> 0)

-----------------------------------------------------------------------------
VerifyFunctions(m) ==
  \A k \in DOMAIN m.functions :
    LET f == m.functions[k]
    IN /\ f.type < Len(m.types)
       /\ VerifyControlFlow(f, m)
       /\ VerifyStackEffects(f).ok

VerifyExports(m) == \A k \in DOMAIN m.exports : m.exports[k].index < Len(m.functions)
VerifyGlobals(m) == \A k \in DOMAIN m.globals : m.globals[k] # ""

(* What would run first is there. *)
IsEntry(f) == f.isEntry \/ f.name \in {"main", "entry"}
VerifyEntry(m) == \E k \in DOMAIN m.functions : IsEntry(m.functions[k])

VerifyModule(m, o) ==
  /\ VerifyHeader(m)
  /\ VerifyResourceLimits(m, o)
  /\ VerifyFunctions(m)
  /\ VerifyExports(m)
  /\ VerifyGlobals(m)
  /\ o.requireEntry => VerifyEntry(m)

(* A module is read from its file and verified before it runs. *)
Load(file, profile) ==
  LET m == DecodeModule(file)
  IN [module |-> m, accepted |-> VerifyModule(m, BuildVerifyOptions(profile)),
      heights |-> [k \in DOMAIN m.functions |-> VerifyStackEffects(m.functions[k]).heights]]
=============================================================================
