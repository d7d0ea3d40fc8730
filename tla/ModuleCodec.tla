---------------------------- MODULE ModuleCodec ----------------------------
(***************************************************************************)
(* The file of an iavm module: binary/encoder.go and binary/decoder.go.    *)
(* A file is a header and a sequence of sections, and a section a sequence *)
(* of fields <<width, value>>.  What is read with another width than it    *)
(* was written with, or behind the end, reads as nothing: in the code that *)
(* is 0 behind the end, and garbage before.  A string is one field, and so *)
(* are the operation and the operands of an instruction.                   *)
(*                                                                         *)
(* Sections that LowerToModule leaves empty (imports, data, capabilities)  *)
(* are not written, and their formats are left out.                        *)
(***************************************************************************)
EXTENDS Lowering

U8(v) == <<<<"u8", v % 256>>>>
U16(v) == <<<<"u16", v % 65536>>>>
U32(v) == <<<<"u32", v>>>>
U64(v) == <<<<"u64", v>>>>
Float64(v) == <<<<"float64", v>>>>
Flag(b) == U8(IF b THEN 1 ELSE 0)
String16(x) == <<<<"string16", x>>>>
String32(x) == <<<<"string32", x>>>>

Kinds == <<"null", "bool", "i64", "f64", "string", "bytes", "array", "object", "function",
           "handle", "promise">>
Kind(k) == U8(Position(Kinds, k))

Repeated(items, Write(_)) ==
  U32(Len(items)) \o FlattenSeq([k \in DOMAIN items |-> Write(items[k])])
(* Of an empty list there is no section. *)
Section(items, Write(_)) == IF items = <<>> THEN <<>> ELSE Repeated(items, Write)

-----------------------------------------------------------------------------
(* Writing. *)

EncodeTypeSection(m) ==
  Section(m.types, LAMBDA t : Repeated(t.params, Kind) \o Repeated(t.results, Kind))

EncodeFunction(f) ==
  String16(f.name) \o U32(f.type) \o U8(f.maxStack) \o Flag(f.isEntry)
  \o Repeated(f.locals, Kind) \o Repeated(f.captures, U32)
EncodeFunctionSection(m) == Section(m.functions, EncodeFunction)

EncodeGlobalSection(m) ==
  Section(m.globals, LAMBDA x : String16(x) \o Kind("null") \o Flag(TRUE))
EncodeExportSection(m) ==
  Section(m.exports, LAMBDA e : String16(e.name) \o U8(0) \o U32(e.index))

EncodeConstant(c) ==
  CASE c = Null -> U8(0)
    [] c[1] = "bool" -> U8(1) \o Flag(c[2])
    [] c[1] = "int" -> U8(2) \o U64(c[2])
    [] c[1] = "number" -> U8(3) \o Float64(c[2])
    [] c[1] = "string" -> U8(4) \o String32(Tail(c))
EncodeConstants(cs) == Section(cs, EncodeConstant)

EncodeInstructions(code) ==
  IF code = <<>> THEN <<>> ELSE U32(Len(code)) \o [n \in DOMAIN code |-> <<"instruction", code[n]>>]

(* Without a pool every function has constants of its own before its code. *)
EncodeCode(m, f) ==
  LET own == EncodeConstants(f.constants)
      code == EncodeInstructions(f.code)
  IN (IF m.constants = <<>> THEN U32(Len(own)) \o own ELSE <<>>) \o U32(Len(code)) \o code
EncodeCodeSection(m) == Section(m.functions, LAMBDA f : EncodeCode(m, f))

(* The constants after the code that refers to them. *)
SectionsConstantsLast(m) == <<
  [id |-> "types", data |-> EncodeTypeSection(m)],
  [id |-> "functions", data |-> EncodeFunctionSection(m)],
  [id |-> "globals", data |-> EncodeGlobalSection(m)],
  [id |-> "exports", data |-> EncodeExportSection(m)],
  [id |-> "code", data |-> EncodeCodeSection(m)],
  [id |-> "constants", data |-> EncodeConstants(m.constants)]>>

(* In this order: what is read of the code depends on the constants. *)
Sections(m) == <<
  [id |-> "types", data |-> EncodeTypeSection(m)],
  [id |-> "functions", data |-> EncodeFunctionSection(m)],
  [id |-> "globals", data |-> EncodeGlobalSection(m)],
  [id |-> "exports", data |-> EncodeExportSection(m)],
  [id |-> "constants", data |-> EncodeConstants(m.constants)],
  [id |-> "code", data |-> EncodeCodeSection(m)]>>

EncodeModule(m) ==
  [header |-> <<m.magic, m.version, m.target, m.abi, m.flags>>,
   sections |-> SelectSeq(Sections(m), LAMBDA s : s.data # <<>>)]

-----------------------------------------------------------------------------
(* Reading.  A reader gives what it has read and where to read on. *)

Width(d, p) == IF p \in DOMAIN d THEN d[p][1] ELSE "none"
Number32(d, p) == IF Width(d, p) = "u32" THEN d[p][2] ELSE 0
Number8(d, p) == IF Width(d, p) = "u8" THEN d[p][2] ELSE 0
Text16(d, p) == IF Width(d, p) = "string16" THEN d[p][2] ELSE ""
Read(x, next) == [item |-> x, next |-> next]

ReadList(d, p, ReadItem(_, _)) ==
  FoldLeft(LAMBDA r, k : LET x == ReadItem(d, r.next)
                         IN [items |-> Append(r.items, x.item), next |-> x.next],
           [items |-> <<>>, next |-> p + 1], [k \in 1..Number32(d, p) |-> k])

DecodeNumber(d, p) == Read(Number32(d, p), p + 1)
DecodeKind(d, p) == Read(Kinds[Number8(d, p) + 1], p + 1)
DecodeType(d, p) ==
  LET params == ReadList(d, p, DecodeKind)
      results == ReadList(d, params.next, DecodeKind)
  IN Read([params |-> params.items, results |-> results.items], results.next)

DecodeFunction(d, p) ==
  LET locals == ReadList(d, p + 4, DecodeKind)
      captures == ReadList(d, locals.next, DecodeNumber)
  IN Read([name |-> Text16(d, p), type |-> Number32(d, p + 1), maxStack |-> Number8(d, p + 2),
           isEntry |-> Number8(d, p + 3) = 1, locals |-> locals.items,
           captures |-> captures.items, code |-> <<>>, constants |-> <<>>], captures.next)

DecodeGlobal(d, p) == Read(Text16(d, p), p + 3)
DecodeExport(d, p) == Read([name |-> Text16(d, p), index |-> Number32(d, p + 2)], p + 3)

DecodeConstant(d, p) ==
  CASE Width(d, p) # "u8" -> Read(Null, p)
    [] Number8(d, p) = 0 -> Read(Null, p + 1)
    [] Number8(d, p) = 1 -> Read(Bool(Number8(d, p + 1) = 1), p + 2)
    [] Number8(d, p) = 2 -> Read(IF Width(d, p + 1) = "u64" THEN Integer(d[p + 1][2]) ELSE Integer(0), p + 2)
    [] Number8(d, p) = 3 -> Read(IF Width(d, p + 1) = "float64" THEN Number(d[p + 1][2]) ELSE Number(0), p + 2)
    [] Number8(d, p) = 4 -> Read(IF Width(d, p + 1) = "string32" THEN Text \o d[p + 1][2] ELSE Text, p + 2)
    [] OTHER -> Read(Null, p + 1)

Nop == Instruction("OpNop", 0, 0)
DecodeInstructions(d, p) ==
  [k \in 1..Number32(d, p) |-> IF Width(d, p + k) = "instruction" THEN d[p + k][2] ELSE Nop]

(* The constants, in a module without a pool, and the code of a function.  *)
(* Their size says where the next thing starts, wherever they end.         *)
DecodeCode(m, d, p) ==
  LET own == ReadList(d, p + 1, DecodeConstant)
      start == IF m.constants = <<>> THEN p + 1 + Number32(d, p) ELSE p
      code == IF Number32(d, start) = 0 THEN <<>>
              ELSE DecodeInstructions(d, start + 1)
  IN Read([constants |-> IF m.constants = <<>> /\ Number32(d, p) > 0 THEN own.items ELSE <<>>,
           code |-> code],
          start + 1 + Number32(d, start))

DecodeCodeSection(m, d) ==
  LET read == ReadList(d, 1, LAMBDA e, p : DecodeCode(m, e, p)).items
  IN [m EXCEPT !.functions = [k \in DOMAIN @ |->
        IF k \in DOMAIN read THEN [@[k] EXCEPT !.code = read[k].code, !.constants = read[k].constants]
        ELSE @[k]]]

DecodeSection(m, s) ==
  CASE s.id = "types" -> [m EXCEPT !.types = ReadList(s.data, 1, DecodeType).items]
    [] s.id = "functions" -> [m EXCEPT !.functions = ReadList(s.data, 1, DecodeFunction).items]
    [] s.id = "globals" -> [m EXCEPT !.globals = ReadList(s.data, 1, DecodeGlobal).items]
    [] s.id = "exports" -> [m EXCEPT !.exports = ReadList(s.data, 1, DecodeExport).items]
    [] s.id = "constants" -> [m EXCEPT !.constants = ReadList(s.data, 1, DecodeConstant).items]
    [] s.id = "code" -> DecodeCodeSection(m, s.data)
    [] OTHER -> m

DecodeModule(file) ==
  FoldLeft(DecodeSection,
           [magic |-> file.header[1], version |-> file.header[2], target |-> file.header[3],
            abi |-> file.header[4], flags |-> file.header[5],
            types |-> <<>>, functions |-> <<>>, constants |-> <<>>, globals |-> <<>>, exports |-> <<>>],
           file.sections)
=============================================================================
