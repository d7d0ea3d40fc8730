------------------------------- MODULE Arrays -------------------------------
(***************************************************************************)
(* Arrays of ialang: the methods (runtime/array_proto.go) and the native   *)
(* modules array and sort (builtin/array.go, builtin/sort.go).             *)
(*                                                                         *)
(* An array is a slice: a buffer, and how many of its places are the       *)
(* array's.  Two arrays may have one buffer.  No call assigns a place of   *)
(* an array; most make a copy, and push appends to the buffer where there  *)
(* is room.  What a script can tell of a call is its answer and what has   *)
(* become of the arrays it has.                                            *)
(*                                                                         *)
(* Numbers are integers.  The texts of values are compared by a rank.      *)
(* Callbacks change nothing and are known by what they compute.            *)
(***************************************************************************)
EXTENDS Integers, SequencesExt, FiniteSetsExt

CONSTANTS
  Literals,       (* sequences of array literals a script may begin with     *)
  ArgumentLists(_, _), (* of a call, by the function's name and the array    *)
  MaxCopies,      (* bound: arrays before which every call is made           *)
  MaxArrays,      (* bound: arrays that are pushed together after that       *)
  MaxLength       (* bound: of an array that is made                         *)

VARIABLES
  buffers,        (* the places of every buffer, as many as its capacity     *)
  arrays          (* the buffer and the length of every array                *)
vars == <<buffers, arrays>>

Value(type, num, name) == [type |-> type, num |-> num, name |-> name]
Null == Value("null", 0, "")
Number(n) == Value("number", n, "")
Bool(b) == Value("bool", IF b THEN 1 ELSE 0, "")
Text(s) == Value("text", 0, s)
ArrayAt(k) == Value("array", k, "")
Function(f) == Value("function", 0, f)

Elements(k) == SubSeq(buffers[arrays[k].buffer], 1, arrays[k].length)
Truthy(v) == v # Null /\ v \notin {Bool(FALSE), Number(0), Text("")}

(* The outcomes of a call: a value, a new array in a buffer of a capacity, *)
(* one in the buffer of another array, an error, a panic.                  *)
Answer(v) == [kind |-> "value", value |-> v]
Fresh(xs, capacity) == [kind |-> "array", elements |-> xs, capacity |-> capacity]
Copy(xs) == Fresh(xs, Len(xs))
Pushed(k, xs) == [kind |-> "pushed", onto |-> k, elements |-> xs]
Error == [kind |-> "error"]
Panic == [kind |-> "panic"]

(* Of append: what is needed, or twice of what there was.  These are the   *)
(* sizes that are allocated up to MaxCapacity places, a bound.             *)
MaxCapacity == 16
Grown(capacity, need) ==
  IF need <= capacity THEN capacity ELSE IF need > 2 * capacity THEN need ELSE 2 * capacity
(* A result that begins empty and to which chunks are appended. *)
Appended(chunks) ==
  LET all == FlattenSeq(chunks)
      capacity == FoldLeft(LAMBDA c, n : [have |-> c.have + n, cap |-> Grown(c.cap, c.have + n)],
                           [have |-> 0, cap |-> 0], [i \in DOMAIN chunks |-> Len(chunks[i])])
  IN Fresh(all, capacity.cap)
Ones(xs) == [i \in DOMAIN xs |-> <<xs[i]>>]

-----------------------------------------------------------------------------
(* Callbacks.  They get the item and its index, or no index (-1), those of *)
(* reduce what they answered before that.                                  *)

Apply(f, item, index) ==
  CASE f = Function("odd") -> Answer(Bool(item.type = "number" /\ item.num % 2 = 1))
    [] f = Function("later") -> IF index = -1 THEN Error ELSE Answer(Bool(index > 0))
    [] f = Function("failsAtTwo") -> IF item = Number(2) THEN Error ELSE Answer(Null)
    [] f = Function("nested") -> Answer(IF index = 0 THEN ArrayAt(1) ELSE item)
    [] OTHER -> Error
Combine(f, acc, item, index) ==
  CASE f = Function("odd") -> Answer(item)
    [] f = Function("later") -> Answer(acc)
    [] OTHER -> Apply(f, item, index)

Results(f, xs) == [i \in DOMAIN xs |-> Apply(f, xs[i], i - 1)]
Fails(r) == r.kind = "error"
SomeFails(rs) == \E i \in DOMAIN rs : Fails(rs[i])
(* Until a result is an error, or as wanted. *)
Search(rs, wanted, Found(_), none) ==
  LET stops == {i \in DOMAIN rs : Fails(rs[i]) \/ Truthy(rs[i].value) = wanted}
  IN IF stops = {} THEN Answer(none) ELSE IF Fails(rs[Min(stops)]) THEN Error ELSE Answer(Found(Min(stops)))

Mapped(f, xs) ==
  LET rs == Results(f, xs) IN IF SomeFails(rs) THEN Error ELSE Copy([i \in DOMAIN rs |-> rs[i].value])
Chosen(f, xs) ==
  LET rs == Results(f, xs)
      indices == SelectSeq([i \in DOMAIN xs |-> i], LAMBDA i : Truthy(rs[i].value))
  IN [i \in DOMAIN indices |-> xs[indices[i]]]
Reduced(f, xs, start, from) ==
  LET last == FoldLeft(LAMBDA acc, i : IF Fails(acc) THEN acc ELSE Combine(f, acc.value, xs[i], i - 1),
                       Answer(start), [i \in 1..(Len(xs) - from + 1) |-> from + i - 1])
  IN IF Fails(last) THEN Error ELSE Answer(last.value)

(* valueEqual of the methods; valuesEqual of the module knows no functions. *)
ValueEqual(v, w) == v = w /\ v.type # "array"
ValuesEqual(v, w) == v = w /\ v.type \notin {"array", "function"}
IndexOf(xs, from, Equals(_)) ==
  LET at == {i \in DOMAIN xs : i > from /\ Equals(xs[i])} IN Number(IF at = {} THEN -1 ELSE Min(at) - 1)
LastIndexOf(xs, from, Equals(_)) ==
  LET at == {i \in DOMAIN xs : i - 1 <= from /\ Equals(xs[i])} IN Number(IF at = {} THEN -1 ELSE Max(at) - 1)

(* Sorting so few is insertion: an element goes in front of those at the   *)
(* end that it is less than.                                               *)
Sorted(xs, Less(_, _)) ==
  FoldLeft(LAMBDA s, x : LET stays == {i \in DOMAIN s : ~Less(x, s[i])}
                         IN InsertAt(s, IF stays = {} THEN 1 ELSE Max(stays) + 1, x),
           <<>>, xs)
(* The order of the texts in use.  (No two arrays are in one array.) *)
TextOrder == <<Text(""), Number(-1), Number(0), Number(1), Number(2), Number(3), ArrayAt(1), Function("odd"),
               Text("a"), Text("b"), Bool(FALSE), Null, Bool(TRUE), Text("wide")>>
Rank(v) == CHOOSE i \in DOMAIN TextOrder : TextOrder[i] = v
Less(v, w) == IF v.type = "number" /\ w.type = "number" THEN v.num < w.num ELSE Rank(v) < Rank(w)
(* compareValues: null, then by the names of the types. *)
TypeOrder(v) == CASE v.type = "null" -> 0 [] v.type = "function" -> 1 [] v.type = "bool" -> 2
                  [] v.type = "number" -> 3 [] v.type = "text" -> 4 [] v.type = "array" -> 5
CompareValues(v, w) ==
  IF v.type = w.type /\ v.type = "number" THEN v.num < w.num
  ELSE IF v.type = w.type /\ v.type = "text" THEN Rank(v) < Rank(w)
  ELSE TypeOrder(v) < TypeOrder(w)

FlattenOnce(xs) == [i \in DOMAIN xs |-> IF xs[i].type = "array" THEN Elements(xs[i].num) ELSE <<xs[i]>>]
Deeper(xs, n) == FoldLeft(LAMBDA ys, i : FlattenSeq(FlattenOnce(ys)), xs, [i \in 1..n |-> i])
FlattenArray(xs, depth) ==
  IF depth <= 0 THEN Copy(xs) ELSE Appended([i \in DOMAIN xs |-> Deeper(FlattenOnce(xs)[i], depth - 1)])

-----------------------------------------------------------------------------
(* The methods.  The array is the last of the arguments.                   *)

Receiver(args) == Elements(Last(args).num)
NumberOr(args, i, default) ==
  IF i <= Len(args) /\ args[i].type = "number" THEN args[i].num ELSE default
FromEnd(n, length) == IF n < 0 THEN length + n ELSE n
AtLeast(n, m) == IF n < m THEN m ELSE n
AtMost(n, m) == IF n > m THEN m ELSE n

ProtoSort(args) == Copy(Sorted(Receiver(args), Less))
ProtoReverse(args) ==
  LET xs == Receiver(args) IN Copy([i \in DOMAIN xs |-> xs[Len(xs) - i + 1]])
ProtoMap(args) == IF Len(args) < 2 THEN Error ELSE Mapped(args[1], Receiver(args))
ProtoFilter(args) ==
  IF Len(args) < 2 \/ SomeFails(Results(args[1], Receiver(args))) THEN Error
  ELSE Fresh(Chosen(args[1], Receiver(args)), Len(Receiver(args)))
ProtoFind(args) ==
  LET xs == Receiver(args) IN
  IF Len(args) < 2 THEN Error ELSE Search(Results(args[1], xs), TRUE, LAMBDA i : xs[i], Null)
ProtoFindIndex(args) ==
  IF Len(args) < 2 THEN Error
  ELSE Search(Results(args[1], Receiver(args)), TRUE, LAMBDA i : Number(i - 1), Number(-1))
ProtoForEach(args) ==
  IF Len(args) < 2 \/ SomeFails(Results(args[1], Receiver(args))) THEN Error ELSE Answer(Null)
ProtoSome(args) ==
  IF Len(args) < 2 THEN Error
  ELSE Search(Results(args[1], Receiver(args)), TRUE, LAMBDA i : Bool(TRUE), Bool(FALSE))
ProtoEvery(args) ==
  IF Len(args) < 2 THEN Error
  ELSE Search(Results(args[1], Receiver(args)), FALSE, LAMBDA i : Bool(FALSE), Bool(TRUE))
ProtoReduce(args) ==
  LET xs == Receiver(args) IN
  CASE Len(args) = 3 -> Reduced(args[1], xs, args[2], 1)
    [] Len(args) = 2 /\ xs # <<>> -> Reduced(args[1], xs, xs[1], 2)
    [] OTHER -> Error

(* Without an argument they look for the array itself, which equals nothing. *)
ProtoIncludes(args) == Answer(Bool(\E i \in DOMAIN Receiver(args) : ValueEqual(Receiver(args)[i], args[1])))
ProtoIndexOf(args) ==
  LET xs == Receiver(args)
      from == AtLeast(FromEnd(NumberOr(args, 2, 0), Len(xs)), 0)
  IN Answer(IndexOf(xs, from, LAMBDA x : ValueEqual(x, args[1])))
ProtoLastIndexOf(args) ==
  LET xs == Receiver(args)
      from == AtMost(FromEnd(NumberOr(args, 2, Len(xs) - 1), Len(xs)), Len(xs) - 1)
  IN Answer(LastIndexOf(xs, from, LAMBDA x : ValueEqual(x, args[1])))

Joined(xs, null, sep) == Answer([items |-> [i \in DOMAIN xs |-> IF xs[i] = Null THEN Text(null) ELSE xs[i]], sep |-> sep])
Separator(args, i) == IF i <= Len(args) /\ args[i].type = "text" THEN args[i].name ELSE ","
ProtoJoin(args) == Joined(Receiver(args), "nil", Separator(Front(args), 1))

(* An end behind the array is its end, and one in front of the start makes *)
(* the slice empty.                                                        *)
ProtoSliceEndInside(args) ==
  LET xs == Receiver(args)
      start == AtLeast(FromEnd(args[1].num, Len(xs)), 0)
      end == AtMost(FromEnd(NumberOr(args, 2, Len(xs)), Len(xs)), Len(xs) - 1)
  IN IF args[1].type # "number" THEN Error ELSE IF start >= end THEN Copy(<<>>) ELSE Copy(SubSeq(xs, start + 1, end))
ProtoSlice(args) ==
  LET xs == Receiver(args)
      start == AtLeast(FromEnd(args[1].num, Len(xs)), 0)
      end == AtMost(FromEnd(NumberOr(args, 2, Len(xs)), Len(xs)), Len(xs))
  IN IF args[1].type # "number" THEN Error ELSE IF start >= end THEN Copy(<<>>) ELSE Copy(SubSeq(xs, start + 1, end))

ProtoFlat(args) == FlattenArray(Receiver(args), NumberOr(Front(args), 1, 1))
ProtoFill(args) == LET xs == Receiver(args) IN Copy([i \in DOMAIN xs |-> args[1]])
ProtoConcat(args) ==
  LET chunks == [i \in DOMAIN Front(args) |-> IF args[i].type = "array" THEN Elements(args[i].num) ELSE <<args[i]>>]
  IN Copy(Receiver(args) \o FlattenSeq(chunks))
ProtoPush(args) == Pushed(Last(args).num, Receiver(args) \o Front(args))

(* What is left of the array in its own buffer. *)
ProtoPopSharing(args) == Pushed(Last(args).num, IF Receiver(args) = <<>> THEN <<>> ELSE Front(Receiver(args)))
ProtoPop(args) == Copy(IF Receiver(args) = <<>> THEN <<>> ELSE Front(Receiver(args)))
ProtoUnshift(args) == Copy(Front(args) \o Receiver(args))
ProtoShift(args) == Copy(IF Receiver(args) = <<>> THEN <<>> ELSE Tail(Receiver(args)))
ProtoAt(args) ==
  LET xs == Receiver(args)
      i == FromEnd(args[1].num, Len(xs))
  IN IF args[1].type # "number" THEN Error ELSE Answer(IF i \in 0..(Len(xs) - 1) THEN xs[i + 1] ELSE Null)

Proto(name, args) ==
  CASE name = "sort" -> ProtoSort(args) [] name = "reverse" -> ProtoReverse(args) [] name = "map" -> ProtoMap(args)
    [] name = "filter" -> ProtoFilter(args) [] name = "find" -> ProtoFind(args)
    [] name = "findIndex" -> ProtoFindIndex(args) [] name = "forEach" -> ProtoForEach(args)
    [] name = "some" -> ProtoSome(args) [] name = "every" -> ProtoEvery(args) [] name = "reduce" -> ProtoReduce(args)
    [] name = "includes" -> ProtoIncludes(args) [] name = "indexOf" -> ProtoIndexOf(args)
    [] name = "lastIndexOf" -> ProtoLastIndexOf(args) [] name = "join" -> ProtoJoin(args)
    [] name = "slice" -> ProtoSlice(args) [] name = "flat" -> ProtoFlat(args) [] name = "fill" -> ProtoFill(args)
    [] name = "concat" -> ProtoConcat(args) [] name = "push" -> ProtoPush(args) [] name = "pop" -> ProtoPop(args)
    [] name = "unshift" -> ProtoUnshift(args) [] name = "shift" -> ProtoShift(args) [] name = "at" -> ProtoAt(args)
    [] OTHER -> Error

-----------------------------------------------------------------------------
(* Module array.  The array is the first of the arguments.                 *)

IsArray(args) == args # <<>> /\ args[1].type = "array"
Subject(args) == Elements(args[1].num)
TakesCallback(args) == Len(args) = 2 /\ IsArray(args) /\ args[2].type = "function"
TakesValue(args) == Len(args) = 2 /\ IsArray(args)

ArrayMap(args) == IF ~TakesCallback(args) THEN Error ELSE Mapped(args[2], Subject(args))
ArrayFilter(args) ==
  IF ~TakesCallback(args) THEN Error
  ELSE IF SomeFails(Results(args[2], Subject(args))) THEN Error
  ELSE Appended(Ones(Chosen(args[2], Subject(args))))
ArrayFind(args) ==
  LET xs == Subject(args) IN
  IF ~TakesCallback(args) THEN Error ELSE Search(Results(args[2], xs), TRUE, LAMBDA i : xs[i], Null)
ArrayFindIndex(args) ==
  IF ~TakesCallback(args) THEN Error
  ELSE Search(Results(args[2], Subject(args)), TRUE, LAMBDA i : Number(i - 1), Number(-1))
ArrayForEach(args) ==
  IF ~TakesCallback(args) THEN Error
  ELSE IF SomeFails(Results(args[2], Subject(args))) THEN Error ELSE Answer(Bool(TRUE))
ArraySome(args) ==
  IF ~TakesCallback(args) THEN Error
  ELSE Search(Results(args[2], Subject(args)), TRUE, LAMBDA i : Bool(TRUE), Bool(FALSE))
ArrayEvery(args) ==
  IF ~TakesCallback(args) THEN Error
  ELSE Search(Results(args[2], Subject(args)), FALSE, LAMBDA i : Bool(FALSE), Bool(TRUE))
ArrayReduce(args) ==
  LET xs == Subject(args) IN
  CASE Len(args) = 3 /\ TakesCallback(Front(args)) -> Reduced(args[2], xs, args[3], 1)
    [] TakesCallback(args) -> IF xs = <<>> THEN Error ELSE Reduced(args[2], xs, xs[1], 2)
    [] OTHER -> Error
ArrayFlatMap(args) ==
  LET rs == Results(args[2], Subject(args)) IN
  IF ~TakesCallback(args) THEN Error ELSE IF SomeFails(rs) THEN Error
  ELSE Appended(FlattenOnce([i \in DOMAIN rs |-> rs[i].value]))

ArrayIncludes(args) ==
  IF ~TakesValue(args) THEN Error
  ELSE Answer(Bool(\E i \in DOMAIN Subject(args) : ValuesEqual(Subject(args)[i], args[2])))
ArrayIndexOf(args) ==
  IF ~TakesValue(args) THEN Error ELSE Answer(IndexOf(Subject(args), 0, LAMBDA x : ValuesEqual(x, args[2])))
ArrayLastIndexOf(args) ==
  IF ~TakesValue(args) THEN Error
  ELSE Answer(LastIndexOf(Subject(args), Len(Subject(args)) - 1, LAMBDA x : ValuesEqual(x, args[2])))
ArrayFlat(args) ==
  IF ~IsArray(args) \/ Len(args) > 2 THEN Error ELSE FlattenArray(Subject(args), NumberOr(args, 2, 1))

(* An end further in front than the array is long is less than 0, and the  *)
(* start is put there.                                                     *)
ArraySlice(args) ==
  LET xs == Subject(args)
      end == AtMost(FromEnd(NumberOr(args, 3, Len(xs)), Len(xs)), Len(xs))
      start == AtMost(AtLeast(FromEnd(NumberOr(args, 2, 0), Len(xs)), 0), end)
  IN IF ~IsArray(args) \/ Len(args) > 3 THEN Error ELSE IF start < 0 THEN Panic ELSE Copy(SubSeq(xs, start + 1, end))

(* The array without what is deleted, with the new items, is made too, and *)
(* dropped.                                                                *)
ArraySplice(args) ==
  LET xs == Subject(args)
      start == AtMost(AtLeast(FromEnd(NumberOr(args, 2, 0), Len(xs)), 0), Len(xs))
      count == AtMost(AtLeast(NumberOr(args, 3, Len(xs) - start), 0), Len(xs) - start)
  IN IF ~IsArray(args) \/ Len(args) < 2 THEN Error ELSE Copy(SubSeq(xs, start + 1, start + count))
ArrayJoin(args) ==
  IF ~IsArray(args) \/ Len(args) > 2 THEN Error ELSE Joined(Subject(args), "null", Separator(args, 2))
ArrayConcat(args) == IF args = <<>> THEN Error ELSE Appended(FlattenOnce(args))
ArrayRange(args) ==
  LET start == IF Len(args) = 1 THEN 0 ELSE NumberOr(args, 1, 0)
      end == IF Len(args) = 1 THEN NumberOr(args, 1, 0) ELSE NumberOr(args, 2, 0)
      step == NumberOr(args, 3, 1)
      length == CASE step > 0 /\ start < end -> (end - start + step - 1) \div step
                  [] step < 0 /\ start > end -> (start - end - step - 1) \div (-step)
                  [] OTHER -> 0
  IN IF Len(args) \notin 1..3 THEN Error ELSE Appended([i \in 1..length |-> <<Number(start + (i - 1) * step)>>])
(* A text has as many places as bytes, and its characters stand where they *)
(* begin.  (The others have one byte.)                                     *)
Characters(s) == CASE s = "" -> <<>> [] s = "wide" -> <<Text(s), Null, Null>> [] OTHER -> <<Text(s)>>
ArrayFrom(args) ==
  CASE args = <<>> -> Error
    [] IsArray(args) -> Copy(Subject(args))
    [] args # <<>> /\ args[1].type = "text" -> Copy(Characters(args[1].name))
    [] OTHER -> Copy(<<>>)
ArrayIsArray(args) == IF Len(args) # 1 THEN Error ELSE Answer(Bool(IsArray(args)))
ArrayOf(args) == Copy(args)
ArraySort(args) == IF ~IsArray(args) THEN Error ELSE Copy(Sorted(Subject(args), CompareValues))
ArrayReverse(args) == IF ~IsArray(args) \/ Len(args) # 1 THEN Error ELSE Copy(Reverse(Subject(args)))
ArrayFill(args) ==
  IF ~IsArray(args) \/ Len(args) < 2 THEN Error ELSE Copy([i \in DOMAIN Subject(args) |-> args[2]])

ArrayModule(name, args) ==
  CASE name = "map" -> ArrayMap(args) [] name = "filter" -> ArrayFilter(args) [] name = "find" -> ArrayFind(args)
    [] name = "findIndex" -> ArrayFindIndex(args) [] name = "forEach" -> ArrayForEach(args)
    [] name = "some" -> ArraySome(args) [] name = "every" -> ArrayEvery(args) [] name = "reduce" -> ArrayReduce(args)
    [] name = "includes" -> ArrayIncludes(args) [] name = "indexOf" -> ArrayIndexOf(args)
    [] name = "lastIndexOf" -> ArrayLastIndexOf(args) [] name = "flat" -> ArrayFlat(args)
    [] name = "flatMap" -> ArrayFlatMap(args) [] name = "slice" -> ArraySlice(args) [] name = "splice" -> ArraySplice(args)
    [] name = "join" -> ArrayJoin(args) [] name = "concat" -> ArrayConcat(args) [] name = "range" -> ArrayRange(args)
    [] name = "from" -> ArrayFrom(args) [] name = "isArray" -> ArrayIsArray(args) [] name = "of" -> ArrayOf(args)
    [] name = "sort" -> ArraySort(args) [] name = "reverse" -> ArrayReverse(args) [] name = "fill" -> ArrayFill(args)
    [] OTHER -> Error

-----------------------------------------------------------------------------
(* Module sort.                                                            *)

AllOf(xs, type) == \A i \in DOMAIN xs : xs[i].type = type
SortAsc(args) ==
  IF Len(args) # 1 \/ ~IsArray(args) THEN Error
  ELSE IF AllOf(Subject(args), "number") \/ AllOf(Subject(args), "text") THEN Copy(Sorted(Subject(args), Less))
  ELSE Error
SortDesc(args) == IF Fails(SortAsc(args)) THEN Error ELSE Copy(Reverse(SortAsc(args).elements))
SortReverse(args) == IF Len(args) # 1 \/ ~IsArray(args) THEN Error ELSE Copy(Reverse(Subject(args)))
SortUnique(args) ==
  LET xs == Subject(args)
      first == SelectSeq([i \in DOMAIN xs |-> i], LAMBDA i : \A j \in 1..(i - 1) : xs[j] # xs[i])
  IN IF Len(args) # 1 \/ ~IsArray(args) THEN Error ELSE Fresh([i \in DOMAIN first |-> xs[first[i]]], Len(xs))
(* An element without a key is less than none. *)
SortBy(args) ==
  LET Key(v) == Apply(args[2], v, -1)
      LessKey(v, w) == IF Fails(Key(v)) \/ Fails(Key(w)) THEN FALSE ELSE CompareValues(Key(v).value, Key(w).value)
  IN IF ~TakesValue(args) THEN Error ELSE Copy(Sorted(Subject(args), LessKey))

SortModule(name, args) ==
  CASE name = "asc" -> SortAsc(args) [] name = "desc" -> SortDesc(args) [] name = "reverse" -> SortReverse(args)
    [] name = "unique" -> SortUnique(args) [] name = "sortBy" -> SortBy(args) [] OTHER -> Error

-----------------------------------------------------------------------------
Methods == {"sort", "reverse", "map", "filter", "find", "findIndex", "forEach", "some", "every", "reduce", "includes",
            "indexOf", "lastIndexOf", "join", "slice", "flat", "fill", "concat", "push", "pop", "unshift", "shift", "at"}
ArrayFunctions ==
  (Methods \ {"push", "pop", "unshift", "shift", "at"}) \cup {"flatMap", "splice", "range", "from", "isArray", "of"}
SortFunctions == {"asc", "desc", "reverse", "unique", "sortBy"}

Init ==
  \E literals \in Literals :
    /\ buffers = literals
    /\ arrays = [k \in DOMAIN literals |-> [buffer |-> k, length |-> Len(literals[k]), onto |-> 0]]

Padded(xs, capacity) ==
  [i \in 1 .. AtLeast(capacity, Len(xs)) |-> IF i <= Len(xs) THEN xs[i] ELSE Null]
InNewBuffer(xs, capacity, onto) ==
  /\ capacity \in 0 .. MaxCapacity
  /\ buffers' = Append(buffers, Padded(xs, capacity))
  /\ arrays' = Append(arrays, [buffer |-> Len(buffers) + 1, length |-> Len(xs), onto |-> onto])
InBuffer(xs, k) ==
  /\ buffers' = [buffers EXCEPT ![arrays[k].buffer] = [i \in DOMAIN @ |-> IF i <= Len(xs) THEN xs[i] ELSE @[i]]]
  /\ arrays' = Append(arrays, [buffer |-> arrays[k].buffer, length |-> Len(xs), onto |-> k])

(* What the call does, besides answering. *)
Effect(r) ==
  /\ r.kind \in {"array", "pushed"} /\ Len(r.elements) \in 0 .. MaxLength
  /\ \/ r.kind = "array" /\ InNewBuffer(r.elements, r.capacity, 0)
     \/ r.kind = "pushed" /\ Len(r.elements) <= Len(buffers[arrays[r.onto].buffer]) /\ InBuffer(r.elements, r.onto)
     \/ /\ r.kind = "pushed" /\ Len(r.elements) > Len(buffers[arrays[r.onto].buffer])
        /\ InNewBuffer(r.elements, Grown(Len(buffers[arrays[r.onto].buffer]), Len(r.elements)), r.onto)

Room(name) == Len(arrays) < IF name = "push" THEN MaxArrays ELSE MaxCopies
CallMethod == \E k \in DOMAIN arrays, name \in Methods : \E rest \in ArgumentLists(name, k) :
  Room(name) /\ \E r \in {Proto(name, Append(rest, ArrayAt(k)))} : Effect(r)
CallArrayModule == \E k \in DOMAIN arrays, name \in ArrayFunctions : \E rest \in ArgumentLists(name, k) :
  Room(name) /\ \E r \in {ArrayModule(name, IF name \in {"range", "from", "of"} THEN rest ELSE <<ArrayAt(k)>> \o rest)} : Effect(r)
CallSortModule == \E k \in DOMAIN arrays, name \in SortFunctions : \E rest \in ArgumentLists(name, k) :
  Room(name) /\ \E r \in {SortModule(name, <<ArrayAt(k)>> \o rest)} : Effect(r)
(* Of both. *)
Shuffle == \E k \in DOMAIN arrays : \E p \in Permutations(DOMAIN Elements(k)) :
  Room("shuffle") /\ Effect(Copy([i \in DOMAIN Elements(k) |-> Elements(k)[p[i]]]))

Next == CallMethod \/ CallArrayModule \/ CallSortModule \/ Shuffle
Spec == Init /\ [][Next]_vars

-----------------------------------------------------------------------------
(* What a script begins with and what it pushes are lists of values.       *)
IsList(s) == s \in Seq(Range(s))
ArgumentsAreLists ==
  /\ MaxLength \in Nat /\ MaxArrays \in Nat
  /\ \A literals \in Literals : IsList(literals) /\ \A i \in DOMAIN literals : IsList(literals[i])
  /\ \A k \in 1 .. MaxArrays : \A rest \in ArgumentLists("push", k) : IsList(rest)

(* The array that this step pushes onto something is pushed onto where     *)
(* array k, made by a push as well, has its last elements.                 *)
PushedOver(k) ==
  /\ arrays[k].onto # 0 /\ Len(arrays') > Len(arrays)
  /\ LET new == Last(arrays')
     IN new.buffer = arrays[k].buffer /\ arrays[new.onto].length < arrays[k].length

(* A call changes none of the arrays that are there.  The exception is an  *)
(* array that was pushed together, when something else is pushed onto what *)
(* it was made of.                                                         *)
Kept == \A k \in DOMAIN arrays : Elements(k)' = Elements(k) \/ PushedOver(k)
ArraysKept == [][Kept]_vars

(* Why: a buffer has room for its arrays, and of those in one buffer the   *)
(* one that was made with it is the shortest.  Every other one was pushed. *)
Roomy ==
  /\ IsList(buffers) /\ \A b \in DOMAIN buffers : IsList(buffers[b])
  /\ IsList(arrays)
  /\ \A k \in DOMAIN arrays :
       /\ arrays[k] \in [buffer : DOMAIN buffers, length : Nat, onto : Nat]
       /\ arrays[k].length <= Len(buffers[arrays[k].buffer])
FirstShortest ==
  \A j, k \in DOMAIN arrays :
    arrays[j].buffer = arrays[k].buffer /\ arrays[j].onto = 0 => arrays[j].length <= arrays[k].length

(* What is the same of two outcomes to the script. *)
Same(r, s) ==
  CASE r.kind = "value" /\ s.kind = "value" -> r.value = s.value
    [] r.kind \in {"array", "pushed"} /\ s.kind \in {"array", "pushed"} -> r.elements = s.elements
    [] OTHER -> r.kind = s.kind

(* Where a method and the function of its name do differ: the arguments    *)
(* that they accept, the answer of forEach, functions as elements, the     *)
(* order of what is neither all numbers nor all texts, the text of null,   *)
(* and an end of a slice that lies in front of the array.                  *)
Differ(name, xs, rest) ==
  \/ name = "forEach"
  \/ name \in {"map", "filter", "find", "findIndex", "some", "every", "reduce"} /\ xs = <<>>
  \/ name \in {"includes", "indexOf", "lastIndexOf"} /\ (Len(rest) # 1 \/ rest[1].type = "function")
  \/ name = "sort" /\ ~AllOf(xs, "number") /\ ~AllOf(xs, "text")
  \/ name = "join" /\ \E i \in DOMAIN xs : xs[i] = Null
  \/ name = "fill" /\ rest = <<>>
  \/ name = "slice" /\ (rest = <<>> \/ rest[1].type # "number" \/ NumberOr(rest, 2, 0) < -Len(xs))

(* Answers fit together: a method and the function of its name, the parts  *)
(* of an array and the whole, the first and the last place of an element,  *)
(* and what the same callback chooses.                                     *)
AnswersFit(k) ==
  LET xs == Elements(k)
      Method(name, rest) == Proto(name, Append(rest, ArrayAt(k)))
      OfModule(name, rest) == ArrayModule(name, <<ArrayAt(k)>> \o rest)
      Indices == -(Len(xs) + 1)..(Len(xs) + 1)
  IN /\ \A name \in Methods \cap ArrayFunctions : \A rest \in ArgumentLists(name, k) :
          Differ(name, xs, rest) \/ Same(Method(name, rest), OfModule(name, rest))
     /\ \A n \in Indices :
          LET front == Method("slice", <<Number(0), Number(n)>>).elements
              back == Method("slice", <<Number(n)>>).elements
          IN /\ front \o back = xs
             /\ Method("at", <<Number(n)>>).value = IF n \in -Len(xs)..(Len(xs) - 1) THEN back[1] ELSE Null
             /\ \A m \in 0..Len(xs) : n >= 0 =>
                  Same(OfModule("splice", <<Number(n), Number(m)>>), OfModule("slice", <<Number(n), Number(n + m)>>))
     /\ \A i \in DOMAIN xs : LET Place(name) == Method(name, <<xs[i]>>).value IN
          /\ Place("includes") = Bool(xs[i].type # "array")
          /\ xs[i].type # "array" => /\ Place("indexOf").num < i /\ i <= Place("lastIndexOf").num + 1
                                     /\ xs[Place("indexOf").num + 1] = xs[i] /\ xs[Place("lastIndexOf").num + 1] = xs[i]
                                     /\ Method("indexOf", <<xs[i], Number(i - 1)>>).value = Number(i - 1)
     /\ \A f \in {Function("odd"), Function("later")} :
          LET chosen == Method("filter", <<f>>).elements IN
          /\ Method("some", <<f>>).value = Bool(chosen # <<>>) /\ Method("every", <<f>>).value = Bool(chosen = xs)
          /\ Method("find", <<f>>).value = IF chosen = <<>> THEN Null ELSE chosen[1]
     /\ Same(Proto("shift", <<ArrayAt(k)>>), Method("slice", <<Number(1)>>))
     /\ Same(Proto("pop", <<ArrayAt(k)>>), Method("slice", <<Number(0), Number(-1)>>))
     /\ \A ys \in {Method("unshift", <<Number(1), Null>>).elements} : Tail(Tail(ys)) = xs /\ ys[1] = Number(1) /\ ys[2] = Null
=============================================================================
