------------------------------ MODULE Lowering ------------------------------
(***************************************************************************)
(* From the chunks of the compiler to a module of iavm:                    *)
(* bridge/ialang/compiler_lowering.go.  A module has a flat list of        *)
(* functions, one pool of constants, and slots for what the compiler       *)
(* leaves as names: a name becomes a local, a global, the number of a      *)
(* function, or a string.                                                  *)
(*                                                                         *)
(* The operands of iavm are those of the code and count from 0, addresses  *)
(* too.  In a chunk every instruction with a constant has one of its own   *)
(* here, while the code shares the name between the two instructions of an *)
(* update; the numbers differ, which of them is 0 does not.  Classes, this *)
(* and async functions are left out.                                       *)
(***************************************************************************)
EXTENDS Compiler

(* Constants: a name is a string that says which, and the number of a      *)
(* function is an integer, all other numbers being floats.                 *)
Name(x) == <<"string", x>>
Integer(n) == <<"int", n>>

Distinct(s) == FoldLeft(LAMBDA r, x : IF Contains(r, x) THEN r ELSE Append(r, x), <<>>, s)
Position(s, x) == SelectInSeq(s, LAMBDA y : y = x) - 1

Carrying == {"OpConstant", "OpGetName", "OpSetName", "OpDefineName", "OpGetProperty",
             "OpPushTry", "OpClosure"}
ConstantOf(i) ==
  CASE i.op = "OpConstant" -> i.a
    [] i.op = "OpPushTry" -> Name(i.b)
    [] OTHER -> Name(i.a)

(* The constants of a chunk; its function templates become functions. *)
IsConstant(i) == i.op \in Carrying \ {"OpClosure"}
LowerConstants(code) ==
  LET carriers == SelectSeq(code, IsConstant)
  IN [k \in DOMAIN carriers |-> ConstantOf(carriers[k])]
ConstantIndex(code, n) == Len(SelectSeq(SubSeq(code, 1, n - 1), IsConstant))

-----------------------------------------------------------------------------
(* Names. *)

(* The operands of some of the instructions, in order. *)
Operands(code, ops) ==
  LET chosen == SelectSeq(code, LAMBDA i : i.op \in ops)
  IN [k \in DOMAIN chosen |-> chosen[k].a]

(* A handler has a name when the constant of the name is not number 0. *)
HasCatchName(code, n) ==
  code[n].op = "OpPushTry" /\ \E j \in 1..(n - 1) : code[j].op \in Carrying
Declared(code, ops) ==
  LET at == SelectSeq([n \in DOMAIN code |-> n],
                      LAMBDA n : code[n].op \in ops \/ HasCatchName(code, n))
  IN [k \in DOMAIN at |-> IF code[at[k]].op = "OpPushTry" THEN code[at[k]].b ELSE code[at[k]].a]

Locals(t) == Distinct(t.params \o t.rest \o Declared(t.code, {"OpDefineName"}))
(* At the top level only the names of handlers are local. *)
EntryLocals(t) == Distinct(Declared(t.code, {}))

(* The functions a function makes, those below it, and all in the order    *)
(* they have in the module: the top level is the last one.                 *)
Inner(ts, f) == Operands(ts[f].code, {"OpClosure"})
RECURSIVE Below(_, _)
Below(ts, f) ==
  LET fs == Inner(ts, f)
  IN FlattenSeq([k \in DOMAIN fs |-> <<fs[k]>> \o Below(ts, fs[k])])
Order(ts) ==
  LET fs == Inner(ts, 1)
  IN fs \o FlattenSeq([k \in DOMAIN fs |-> Below(ts, fs[k])]) \o <<1>>
MakerOf(ts, f) == CHOOSE g \in DOMAIN ts : Contains(Inner(ts, g), f)

(* The names a function takes from the one around it get slots behind its  *)
(* own; what it takes are the slots over there.                            *)
RECURSIVE Slots(_, _)
CapturedNames(ts, f) ==
  IF f = 1 \/ MakerOf(ts, f) = 1 THEN <<>>
  ELSE LET own == Locals(ts[f])
           outer == Slots(ts, MakerOf(ts, f))
       IN SelectSeq(Distinct(Operands(ts[f].code, {"OpGetName", "OpSetName"})),
                    LAMBDA x : ~Contains(own, x) /\ Contains(outer, x))
Slots(ts, f) == IF f = 1 THEN EntryLocals(ts[1]) ELSE Locals(ts[f]) \o CapturedNames(ts, f)
Captures(ts, f) ==
  LET outer == IF f = 1 THEN <<>> ELSE Slots(ts, MakerOf(ts, f))
      names == CapturedNames(ts, f)
  IN [k \in DOMAIN names |-> Position(outer, names[k])]

(* Globals are what the top level defines or sets, and what the functions  *)
(* it makes set.                                                           *)
GlobalNames(ts) ==
  LET fs == Inner(ts, 1)
  IN Distinct(Operands(ts[1].code, {"OpSetName", "OpDefineName"})
              \o FlattenSeq([k \in DOMAIN fs |-> Operands(ts[fs[k]].code, {"OpSetName"})]))

(* The names of the functions of the top level. *)
FunctionNames(ts) ==
  LET made == SelectSeq(ts[1].code, LAMBDA i : i.op = "OpClosure")
  IN [k \in DOMAIN made |-> made[k].b]
NameOf(ts, f) ==
  IF f = 1 THEN "entry"
  ELSE LET code == ts[MakerOf(ts, f)].code
       IN code[SelectInSeq(code, LAMBDA i : i.op = "OpClosure" /\ i.a = f)].b

-----------------------------------------------------------------------------
(* Instructions.  The operand of OpConst is the constant itself, until the *)
(* pool of the module is made.                                             *)

Same == [OpConstant |-> "OpConst", PLUS |-> "OpAdd", MINUS |-> "OpSub", ASTERISK |-> "OpMul",
         EQ |-> "OpEq", NEQ |-> "OpNe", LT |-> "OpLt", GT |-> "OpGt", LTE |-> "OpLe", GTE |-> "OpGe",
         OpNeg |-> "OpNeg", OpNot |-> "OpNot", OpAnd |-> "OpAnd", OpOr |-> "OpOr",
         OpIndex |-> "OpIndex", OpObjectKeys |-> "OpObjectKeys", OpArray |-> "OpMakeArray",
         OpCall |-> "OpCall", OpPop |-> "OpPop", OpDup |-> "OpDup",
         OpPopTry |-> "OpPopTry", OpThrow |-> "OpThrow"]
Jumping == {"OpJump", "OpJumpIfFalse", "OpJumpIfTrue", "OpJumpIfNotNullish"}

Instruction(op, a, b) == [op |-> op, a |-> a, b |-> b]

LoadName(scope, x) ==
  LET local == Position(scope.locals, x)
      function == Position(scope.functions, x)
      global == Position(scope.globals, x)
  IN CASE local >= 0 -> Instruction("OpLoadLocal", local, 0)
       [] local < 0 /\ function >= 0 -> Instruction("OpConst", Integer(function), 0)
       [] local < 0 /\ function < 0 /\ global >= 0 -> Instruction("OpLoadGlobal", global, 0)
       [] OTHER -> Instruction("OpConst", Name(x), 0)

(* A name nobody collected leaves the number of its constant. *)
StoreName(scope, x, constant) ==
  LET local == Position(scope.locals, x)
      global == Position(scope.globals, x)
  IN CASE local >= 0 -> Instruction("OpStoreLocal", local, 0)
       [] local < 0 /\ global >= 0 -> Instruction("OpStoreGlobal", global, 0)
       [] OTHER -> Instruction("OpStoreGlobal", constant, 0)

(* The names of slots, of functions (that only the top level knows) and of *)
(* globals, for the code of f.                                             *)
ScopeOf(ts, f) ==
  [locals |-> Slots(ts, f), globals |-> GlobalNames(ts),
   functions |-> IF f = 1 THEN FunctionNames(ts) ELSE <<>>]

LowerInstruction(i, n, code, scope, order) ==
  CASE i.op = "OpGetName" -> LoadName(scope, i.a)
    [] i.op \in {"OpSetName", "OpDefineName"} -> StoreName(scope, i.a, ConstantIndex(code, n))
    [] i.op = "OpClosure" -> Instruction("OpClosure", Position(order, i.a), 0)
    [] i.op = "OpGetProperty" -> Instruction("OpGetProp", Name(i.a), 0)
    [] i.op = "OpPushTry" ->
         Instruction("OpPushTry", i.a - 1,
                     IF HasCatchName(code, n) THEN Position(scope.locals, i.b) + 1 ELSE 0)
    [] i.op \in Jumping -> Instruction(i.op, i.a - 1, 0)
    [] i.op = "OpReturn" -> Instruction("OpReturn", 0, 0)
    [] OTHER -> Instruction(Same[i.op], i.a, 0)

LowerFunction(ts, f) ==
  LET scope == ScopeOf(ts, f)
      order == Order(ts)
      code == ts[f].code
      lowered == [n \in DOMAIN code |-> LowerInstruction(code[n], n, code, scope, order)]
      functions == SelectSeq(lowered, LAMBDA i : i.op = "OpConst" /\ i.a[1] = "int")
  IN [name |-> NameOf(ts, f), type |-> 0, maxStack |-> 0, isEntry |-> f = 1,
      locals |-> [k \in DOMAIN scope.locals |-> "null"], captures |-> Captures(ts, f),
      code |-> lowered,
      constants |-> LowerConstants(code) \o [k \in DOMAIN functions |-> functions[k].a]]

-----------------------------------------------------------------------------
(* The module: one pool for the constants of all functions, every value    *)
(* once, and the instructions with their numbers in it.                    *)

Pooled(i, pool) == IF i.op \in {"OpConst", "OpGetProp"} THEN [i EXCEPT !.a = Position(pool, @)] ELSE i
BuildModuleConstantPool(functions) ==
  LET pool == Distinct(FlattenSeq([k \in DOMAIN functions |-> functions[k].constants]))
      pooled(f) == [f EXCEPT !.constants = <<>>,
                             !.code = [n \in DOMAIN f.code |-> Pooled(f.code[n], pool)]]
  IN [constants |-> pool, functions |-> [k \in DOMAIN functions |-> pooled(functions[k])]]

Exported(names) ==
  SelectSeq([k \in DOMAIN names |-> [name |-> names[k], index |-> k - 1]], LAMBDA e : e.name # "")
LowerToModule(ts) ==
  LET order == Order(ts)
      built == BuildModuleConstantPool([k \in DOMAIN order |-> LowerFunction(ts, order[k])])
  IN [magic |-> "IAVM", version |-> 1, target |-> "ialang", abi |-> 1, flags |-> 0,
      types |-> <<[params |-> <<>>, results |-> <<"null">>]>>,
      functions |-> built.functions, constants |-> built.constants,
      globals |-> GlobalNames(ts), exports |-> Exported(FunctionNames(ts))]
=============================================================================
