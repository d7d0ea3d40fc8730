---------------------------- MODULE ArraysProofs ----------------------------
(***************************************************************************)
(* Proofs about Arrays, for any arrays to begin with and any arguments: a  *)
(* call changes none of the arrays that a script has, but for what one     *)
(* push appends and another one, onto the same array, writes over.         *)
(***************************************************************************)
EXTENDS Arrays, SequenceTheorems, TLAPS

-----------------------------------------------------------------------------
(* Only push writes into a buffer that is there.                           *)

Apart(r) == r.kind # "pushed"

LEMMA OutcomesApart ==
  /\ Apart(Error) /\ Apart(Panic) /\ \A v : Apart(Answer(v))
  /\ \A xs : Apart(Copy(xs))
  /\ \A xs, capacity : Apart(Fresh(xs, capacity))
BY DEF Apart, Error, Panic, Answer, Copy, Fresh

LEMMA AppendedApart == \A chunks : Apart(Appended(chunks))
BY DEF Apart, Appended, Fresh

LEMMA MappedApart == \A f, xs : Apart(Mapped(f, xs))
BY OutcomesApart, Zenon DEF Mapped

LEMMA ReducedApart == \A f, xs, start, from : Apart(Reduced(f, xs, start, from))
BY OutcomesApart, Zenon DEF Reduced

LEMMA JoinedApart == \A xs, null, sep : Apart(Joined(xs, null, sep))
BY OutcomesApart, Zenon DEF Joined

LEMMA FlattenApart == \A xs, depth : Apart(FlattenArray(xs, depth))
BY OutcomesApart, AppendedApart, Zenon DEF FlattenArray

LEMMA MethodsThatSearchApart ==
  ASSUME NEW args
  PROVE  /\ Apart(ProtoFind(args)) /\ Apart(ProtoFindIndex(args))
         /\ Apart(ProtoSome(args)) /\ Apart(ProtoEvery(args))
BY OutcomesApart, Zenon DEF ProtoFind, ProtoFindIndex, ProtoSome, ProtoEvery, Search

LEMMA MethodsApart ==
  ASSUME NEW name, NEW args, name # "push"
  PROVE  Apart(Proto(name, args))
<1>1. /\ Apart(ProtoSort(args)) /\ Apart(ProtoReverse(args)) /\ Apart(ProtoFill(args))
      /\ Apart(ProtoConcat(args)) /\ Apart(ProtoPop(args)) /\ Apart(ProtoUnshift(args)) /\ Apart(ProtoShift(args))
  BY OutcomesApart, Zenon DEF ProtoSort, ProtoReverse, ProtoFill, ProtoConcat, ProtoPop, ProtoUnshift, ProtoShift
<1>2. Apart(ProtoMap(args)) /\ Apart(ProtoFilter(args)) /\ Apart(ProtoForEach(args)) /\ Apart(ProtoReduce(args))
  BY OutcomesApart, MappedApart, ReducedApart, Zenon DEF ProtoMap, ProtoFilter, ProtoForEach, ProtoReduce
<1>3. Apart(ProtoIncludes(args)) /\ Apart(ProtoIndexOf(args)) /\ Apart(ProtoLastIndexOf(args))
  BY OutcomesApart, Zenon DEF ProtoIncludes, ProtoIndexOf, ProtoLastIndexOf
<1>4. Apart(ProtoJoin(args)) /\ Apart(ProtoSlice(args)) /\ Apart(ProtoFlat(args)) /\ Apart(ProtoAt(args))
  BY OutcomesApart, JoinedApart, FlattenApart, Zenon DEF ProtoJoin, ProtoSlice, ProtoFlat, ProtoAt
<1>5. QED
  BY <1>1, <1>2, <1>3, <1>4, MethodsThatSearchApart, OutcomesApart, Zenon DEF Proto

LEMMA FunctionsThatSearchApart ==
  ASSUME NEW args
  PROVE  /\ Apart(ArrayFind(args)) /\ Apart(ArrayFindIndex(args))
         /\ Apart(ArraySome(args)) /\ Apart(ArrayEvery(args))
BY OutcomesApart, Zenon DEF ArrayFind, ArrayFindIndex, ArraySome, ArrayEvery, Search

LEMMA FunctionsApart ==
  ASSUME NEW name, NEW args
  PROVE  Apart(ArrayModule(name, args))
<1>1. /\ Apart(ArrayMap(args)) /\ Apart(ArrayFilter(args)) /\ Apart(ArrayForEach(args)) /\ Apart(ArrayReduce(args))
      /\ Apart(ArrayFlatMap(args))
  BY OutcomesApart, MappedApart, ReducedApart, AppendedApart, Zenon
  DEF ArrayMap, ArrayFilter, ArrayForEach, ArrayReduce, ArrayFlatMap
<1>2. Apart(ArrayIncludes(args)) /\ Apart(ArrayIndexOf(args)) /\ Apart(ArrayLastIndexOf(args))
  BY OutcomesApart, Zenon DEF ArrayIncludes, ArrayIndexOf, ArrayLastIndexOf
<1>3. /\ Apart(ArrayFlat(args)) /\ Apart(ArraySlice(args)) /\ Apart(ArraySplice(args)) /\ Apart(ArrayJoin(args))
      /\ Apart(ArrayConcat(args)) /\ Apart(ArrayRange(args))
  BY OutcomesApart, AppendedApart, JoinedApart, FlattenApart, Zenon
  DEF ArrayFlat, ArraySlice, ArraySplice, ArrayJoin, ArrayConcat, ArrayRange
<1>4. /\ Apart(ArrayFrom(args)) /\ Apart(ArrayIsArray(args)) /\ Apart(ArrayOf(args)) /\ Apart(ArraySort(args))
      /\ Apart(ArrayReverse(args)) /\ Apart(ArrayFill(args))
  BY OutcomesApart, Zenon DEF ArrayFrom, ArrayIsArray, ArrayOf, ArraySort, ArrayReverse, ArrayFill
<1>5. QED
  BY <1>1, <1>2, <1>3, <1>4, FunctionsThatSearchApart, OutcomesApart, Zenon DEF ArrayModule

LEMMA SortsApart ==
  ASSUME NEW name, NEW args
  PROVE  Apart(SortModule(name, args))
<1>1. /\ Apart(SortAsc(args)) /\ Apart(SortDesc(args)) /\ Apart(SortReverse(args)) /\ Apart(SortUnique(args))
      /\ Apart(SortBy(args))
  BY OutcomesApart, Zenon DEF SortAsc, SortDesc, SortReverse, SortUnique, SortBy
<1>2. QED
  BY <1>1, OutcomesApart, Zenon DEF SortModule

-----------------------------------------------------------------------------
(* Lists of anything.                                                      *)

LEMMA ListIs ==
  ASSUME NEW s, IsList(s)
  PROVE  Len(s) \in Nat /\ DOMAIN s = 1 .. Len(s)
BY LenProperties DEF IsList

LEMMA SeqIsList == ASSUME NEW S, NEW s \in Seq(S) PROVE IsList(s)
<1>1. Len(s) \in Nat /\ s \in [1 .. Len(s) -> S]
  BY LenProperties
<1>2. s \in [1 .. Len(s) -> Range(s)]
  BY <1>1 DEF Range
<1>3. QED
  BY <1>1, <1>2, SeqDef DEF IsList

LEMMA FunctionIsList ==
  ASSUME NEW n \in Nat, NEW s, DOMAIN s = 1 .. n, s = [i \in 1 .. n |-> s[i]]
  PROVE  IsList(s) /\ Len(s) = n
<1>1. s \in [1 .. n -> Range(s)]
  BY DEF Range
<1>2. s \in Seq(Range(s))
  BY <1>1, SeqDef
<1>3. QED
  BY <1>1, <1>2, LenProperties DEF IsList

LEMMA Appending ==
  ASSUME NEW s, NEW e, IsList(s)
  PROVE  /\ IsList(Append(s, e)) /\ Len(Append(s, e)) = Len(s) + 1 /\ Append(s, e)[Len(s) + 1] = e
         /\ \A i \in DOMAIN s : Append(s, e)[i] = s[i]
<1>1. PICK S : S = Range(s) \cup {e}
  OBVIOUS
<1>2. s \in Seq(S) /\ e \in S
  BY <1>1, SeqMonotonic DEF IsList
<1>3. /\ Append(s, e) \in Seq(S) /\ Len(Append(s, e)) = Len(s) + 1
      /\ \A i \in 1 .. Len(s) : Append(s, e)[i] = s[i] /\ Append(s, e)[Len(s) + 1] = e
  BY <1>2, AppendProperties
<1>4. Append(s, e)[Len(s) + 1] = e
  BY <1>2, AppendProperties
<1>5. IsList(Append(s, e))
  BY <1>3, SeqIsList
<1>6. QED
  BY <1>3, <1>4, <1>5, ListIs

LEMMA Following ==
  ASSUME NEW s, NEW t, IsList(s), IsList(t)
  PROVE  Len(s \o t) = Len(s) + Len(t) /\ \A i \in DOMAIN s : (s \o t)[i] = s[i]
<1>1. PICK S : S = Range(s) \cup Range(t)
  OBVIOUS
<1>2. s \in Seq(S) /\ t \in Seq(S)
  BY <1>1, SeqMonotonic DEF IsList
<1>3. QED
  BY <1>2, ConcatProperties, ListIs

LEMMA Beginning ==
  ASSUME NEW s, NEW n \in Nat, IsList(s), n <= Len(s)
  PROVE  /\ IsList(SubSeq(s, 1, n)) /\ Len(SubSeq(s, 1, n)) = n
         /\ \A i \in 1 .. n : SubSeq(s, 1, n)[i] = s[i]
<1>1. \A i \in 1 .. n : s[i] \in Range(s)
  BY ListIs DEF Range
<1>2. /\ SubSeq(s, 1, n) \in Seq(Range(s))
      /\ Len(SubSeq(s, 1, n)) = IF 1 <= n THEN n - 1 + 1 ELSE 0
      /\ \A i \in 1 .. n - 1 + 1 : SubSeq(s, 1, n)[i] = s[1 + i - 1]
  BY <1>1, SubSeqProperties
<1>3. n - 1 + 1 = n /\ \A i \in 1 .. n : 1 + i - 1 = i
  OBVIOUS
<1>4. Len(SubSeq(s, 1, n)) = n
  BY <1>2
<1>5. \A i \in 1 .. n : SubSeq(s, 1, n)[i] = s[i]
  BY <1>2, <1>3
<1>6. IsList(SubSeq(s, 1, n))
  BY <1>2, SeqIsList
<1>7. QED
  BY <1>4, <1>5, <1>6

LEMMA SameBeginning ==
  ASSUME NEW s, NEW t, NEW n \in Nat, IsList(s), IsList(t), n <= Len(s), n <= Len(t),
         \A i \in 1 .. n : s[i] = t[i]
  PROVE  SubSeq(s, 1, n) = SubSeq(t, 1, n)
<1>1. PICK x, y, S : x = SubSeq(s, 1, n) /\ y = SubSeq(t, 1, n) /\ S = Range(x) \cup Range(y)
  OBVIOUS
<1>2. IsList(x) /\ IsList(y) /\ Len(x) = n /\ Len(y) = n /\ \A i \in 1 .. n : x[i] = s[i] /\ y[i] = t[i]
  BY <1>1, Beginning
<1>3. x \in Seq(S) /\ y \in Seq(S)
  BY <1>1, <1>2, SeqMonotonic DEF IsList
<1>4. QED
  BY <1>1, <1>2, <1>3, SeqEqual

-----------------------------------------------------------------------------
(* Every buffer has room for its arrays, and the array that was made with  *)
(* a buffer is the shortest in it.                                         *)

LEMMA InitRoomy == ArgumentsAreLists /\ Init => Roomy /\ FirstShortest
<1> SUFFICES ASSUME ArgumentsAreLists, Init PROVE Roomy /\ FirstShortest
  OBVIOUS
<1>1. PICK literals \in Literals :
        /\ buffers = literals
        /\ arrays = [k \in DOMAIN literals |-> [buffer |-> k, length |-> Len(literals[k]), onto |-> 0]]
  BY DEF Init
<1>2. IsList(buffers) /\ \A b \in DOMAIN buffers : IsList(buffers[b])
  BY <1>1 DEF ArgumentsAreLists
<1>3. Len(buffers) \in Nat /\ DOMAIN buffers = 1 .. Len(buffers)
  BY <1>2, ListIs
<1>4. arrays = [k \in 1 .. Len(buffers) |-> [buffer |-> k, length |-> Len(buffers[k]), onto |-> 0]]
  BY <1>1, <1>3
<1>5. IsList(arrays)
  BY <1>3, <1>4, FunctionIsList
<1>6. \A k \in DOMAIN arrays :
        arrays[k] = [buffer |-> k, length |-> Len(buffers[k]), onto |-> 0] /\ Len(buffers[k]) \in Nat
  BY <1>2, <1>3, <1>4, ListIs
<1>7. Roomy
  BY <1>2, <1>3, <1>4, <1>5, <1>6 DEF Roomy
<1>8. FirstShortest
  BY <1>6 DEF FirstShortest
<1>9. QED
  BY <1>7, <1>8

LEMMA NoneRoomy == buffers = <<>> /\ arrays = <<>> => Roomy /\ FirstShortest
<1>1. IsList(<<>>)
  BY EmptySeq DEF IsList
<1>2. QED
  BY <1>1 DEF Roomy, FirstShortest

(* What is made in a buffer of its own. *)
LEMMA NewBufferKeeps ==
  ASSUME Roomy, FirstShortest, NEW xs, NEW capacity, NEW onto \in Nat, Len(xs) \in Nat,
         InNewBuffer(xs, capacity, onto)
  PROVE  Roomy' /\ FirstShortest' /\ Kept
<1>1. PICK p, a : /\ p = Padded(xs, capacity)
                  /\ a = [buffer |-> Len(buffers) + 1, length |-> Len(xs), onto |-> onto]
  OBVIOUS
<1>2. capacity \in 0 .. 16 /\ buffers' = Append(buffers, p) /\ arrays' = Append(arrays, a)
  BY <1>1 DEF InNewBuffer, MaxCapacity
<1>3. IsList(p) /\ Len(xs) <= Len(p)
  <2>1. PICK n \in Nat : n = AtLeast(capacity, Len(xs)) /\ Len(xs) <= n
    BY <1>2 DEF AtLeast
  <2>2. p = [i \in 1 .. n |-> IF i <= Len(xs) THEN xs[i] ELSE Null]
    BY <1>1, <2>1 DEF Padded
  <2>3. DOMAIN p = 1 .. n /\ p = [i \in 1 .. n |-> p[i]]
    BY <2>2
  <2>4. QED
    BY <2>1, <2>3, FunctionIsList
<1>4. PICK m, n : m = Len(buffers) /\ n = Len(arrays)
  OBVIOUS
<1>5. /\ m \in Nat /\ DOMAIN buffers = 1 .. m /\ n \in Nat /\ DOMAIN arrays = 1 .. n
      /\ IsList(buffers) /\ IsList(arrays)
  BY <1>4, ListIs DEF Roomy
<1>6. /\ IsList(buffers') /\ DOMAIN buffers' = 1 .. m + 1 /\ buffers'[m + 1] = p
      /\ \A b \in 1 .. m : buffers'[b] = buffers[b]
  BY <1>2, <1>4, <1>5, Appending, ListIs
<1>7. /\ IsList(arrays') /\ DOMAIN arrays' = 1 .. n + 1 /\ arrays'[n + 1] = a
      /\ \A k \in 1 .. n : arrays'[k] = arrays[k]
  BY <1>2, <1>4, <1>5, Appending, ListIs
<1>8. a \in [buffer : 1 .. m + 1, length : Nat, onto : Nat] /\ a.buffer = m + 1 /\ a.length = Len(xs)
  BY <1>1, <1>4, <1>5
<1>9. \A k \in 1 .. n : /\ arrays[k] \in [buffer : 1 .. m, length : Nat, onto : Nat]
                        /\ arrays[k].length <= Len(buffers[arrays[k].buffer])
  BY <1>5 DEF Roomy
<1>10. Roomy'
  <2>1. \A b \in 1 .. m + 1 : IsList(buffers'[b])
    BY <1>3, <1>5, <1>6 DEF Roomy
  <2>2. \A k \in 1 .. n + 1 : /\ arrays'[k] \in [buffer : 1 .. m + 1, length : Nat, onto : Nat]
                              /\ arrays'[k].length <= Len(buffers'[arrays'[k].buffer])
    <3>1. ASSUME NEW k \in 1 .. n
          PROVE  /\ arrays'[k] \in [buffer : 1 .. m + 1, length : Nat, onto : Nat]
                 /\ arrays'[k].length <= Len(buffers'[arrays'[k].buffer])
      BY <1>5, <1>6, <1>7, <1>9
    <3>2. /\ arrays'[n + 1] \in [buffer : 1 .. m + 1, length : Nat, onto : Nat]
          /\ arrays'[n + 1].length <= Len(buffers'[arrays'[n + 1].buffer])
      BY <1>3, <1>6, <1>7, <1>8
    <3>3. \A k \in 1 .. n + 1 : k \in 1 .. n \/ k = n + 1
      BY <1>5
    <3>4. QED
      BY <3>1, <3>2, <3>3
  <2>3. QED
    BY <1>6, <1>7, <2>1, <2>2 DEF Roomy
<1>11. FirstShortest'
  <2>1. SUFFICES ASSUME NEW j \in 1 .. n + 1, NEW k \in 1 .. n + 1,
                        arrays'[j].buffer = arrays'[k].buffer, arrays'[j].onto = 0
                 PROVE  arrays'[j].length <= arrays'[k].length
    BY <1>7, ListIs DEF FirstShortest
  <2>2. CASE j \in 1 .. n /\ k \in 1 .. n
    BY <1>5, <1>7, <2>1, <2>2 DEF FirstShortest
  <2>3. CASE j = n + 1 /\ k = n + 1
    BY <1>7, <1>8, <2>3
  <2>4. CASE j = n + 1 /\ k \in 1 .. n
    BY <1>5, <1>7, <1>8, <1>9, <2>1, <2>4
  <2>5. CASE j \in 1 .. n /\ k = n + 1
    BY <1>5, <1>7, <1>8, <1>9, <2>1, <2>5
  <2>6. QED
    BY <1>5, <2>2, <2>3, <2>4, <2>5
<1>12. \A k \in 1 .. n : Elements(k)' = Elements(k)
  BY <1>6, <1>7, <1>9 DEF Elements
<1>13. QED
  BY <1>5, <1>10, <1>11, <1>12 DEF Kept

(* What is pushed into the buffer of array k, behind its elements. *)
LEMMA OldBufferKeeps ==
  ASSUME Roomy, FirstShortest, NEW k \in DOMAIN arrays, NEW xs,
         Len(xs) \in Nat, arrays[k].length <= Len(xs), Len(xs) <= Len(buffers[arrays[k].buffer]),
         \A i \in 1 .. arrays[k].length : xs[i] = buffers[arrays[k].buffer][i],
         InBuffer(xs, k)
  PROVE  Roomy' /\ FirstShortest' /\ Kept
<1>1. PICK b, old, new, a :
        /\ b = arrays[k].buffer /\ old = buffers[b]
        /\ new = [i \in DOMAIN old |-> IF i <= Len(xs) THEN xs[i] ELSE old[i]]
        /\ a = [buffer |-> b, length |-> Len(xs), onto |-> k]
  OBVIOUS
<1>2. buffers' = [buffers EXCEPT ![b] = new] /\ arrays' = Append(arrays, a)
  BY <1>1 DEF InBuffer
<1>3. PICK m, n, c : m = Len(buffers) /\ n = Len(arrays) /\ c = Len(old)
  OBVIOUS
<1>4. /\ m \in Nat /\ DOMAIN buffers = 1 .. m /\ n \in Nat /\ DOMAIN arrays = 1 .. n
      /\ IsList(buffers) /\ IsList(arrays)
  BY <1>3, ListIs DEF Roomy
<1>5. /\ \A j \in 1 .. n : /\ arrays[j] \in [buffer : 1 .. m, length : Nat, onto : Nat]
                           /\ arrays[j].length <= Len(buffers[arrays[j].buffer])
      /\ \A d \in 1 .. m : IsList(buffers[d])
  BY <1>4 DEF Roomy
<1>6. b \in 1 .. m /\ k \in 1 .. n /\ c \in Nat /\ IsList(old) /\ DOMAIN old = 1 .. c
  BY <1>1, <1>3, <1>4, <1>5, ListIs
<1>7. IsList(new) /\ Len(new) = c
  <2>1. DOMAIN new = 1 .. c /\ new = [i \in 1 .. c |-> new[i]]
    BY <1>1, <1>6
  <2>2. QED
    BY <1>6, <2>1, FunctionIsList
<1>8. /\ DOMAIN buffers' = 1 .. m /\ buffers'[b] = new
      /\ \A d \in 1 .. m : d # b => buffers'[d] = buffers[d]
  BY <1>2, <1>4, <1>6
<1>9. IsList(buffers')
  BY <1>2, <1>4, <1>8, FunctionIsList
<1>10. /\ IsList(arrays') /\ Len(arrays') = n + 1 /\ DOMAIN arrays' = 1 .. n + 1 /\ arrays'[n + 1] = a
       /\ \A j \in 1 .. n : arrays'[j] = arrays[j]
  BY <1>2, <1>3, <1>4, Appending, ListIs
<1>11. /\ a \in [buffer : 1 .. m, length : Nat, onto : Nat]
       /\ a.buffer = b /\ a.length = Len(xs) /\ a.onto = k /\ k # 0
  BY <1>1, <1>4, <1>6
<1>12. Roomy'
  <2>1. \A d \in 1 .. m : IsList(buffers'[d]) /\ Len(buffers'[d]) = Len(buffers[d])
    BY <1>1, <1>3, <1>5, <1>7, <1>8
  <2>2. \A j \in 1 .. n + 1 : /\ arrays'[j] \in [buffer : 1 .. m, length : Nat, onto : Nat]
                              /\ arrays'[j].length <= Len(buffers'[arrays'[j].buffer])
    <3>1. ASSUME NEW j \in 1 .. n
          PROVE  /\ arrays'[j] \in [buffer : 1 .. m, length : Nat, onto : Nat]
                 /\ arrays'[j].length <= Len(buffers'[arrays'[j].buffer])
      BY <1>5, <1>10, <2>1
    <3>2. /\ arrays'[n + 1] \in [buffer : 1 .. m, length : Nat, onto : Nat]
          /\ arrays'[n + 1].length <= Len(buffers'[arrays'[n + 1].buffer])
      <4>1. Len(xs) <= Len(buffers'[b])
        BY <1>1, <1>6, <2>1
      <4>2. QED
        BY <1>10, <1>11, <4>1
    <3>3. \A j \in 1 .. n + 1 : j \in 1 .. n \/ j = n + 1
      BY <1>4
    <3>4. QED
      BY <3>1, <3>2, <3>3
  <2>3. QED
    BY <1>8, <1>9, <1>10, <2>1, <2>2 DEF Roomy
<1>13. FirstShortest'
  <2>1. SUFFICES ASSUME NEW i \in 1 .. n + 1, NEW j \in 1 .. n + 1,
                        arrays'[i].buffer = arrays'[j].buffer, arrays'[i].onto = 0
                 PROVE  arrays'[i].length <= arrays'[j].length
    BY <1>10 DEF FirstShortest
  <2>2. i \in 1 .. n
    BY <1>4, <1>10, <1>11, <2>1
  <2>3. CASE j \in 1 .. n
    BY <1>4, <1>10, <2>1, <2>2, <2>3 DEF FirstShortest
  <2>4. CASE j = n + 1
    <3>1. arrays[i].buffer = b /\ arrays[i].onto = 0
      BY <1>10, <1>11, <2>1, <2>2, <2>4
    <3>2. arrays[i].length <= arrays[k].length
      BY <1>1, <1>4, <1>6, <2>2, <3>1 DEF FirstShortest
    <3>3. arrays'[i].length = arrays[i].length /\ arrays'[j].length = Len(xs)
      BY <1>10, <1>11, <2>2, <2>4
    <3>4. arrays[i].length \in Nat /\ arrays[k].length \in Nat
      BY <1>5, <1>6, <2>2
    <3>5. QED
      BY <3>2, <3>3, <3>4
  <2>5. QED
    BY <1>4, <2>3, <2>4
<1>14. ASSUME NEW j \in 1 .. n PROVE Elements(j)' = Elements(j) \/ PushedOver(j)
  <2>1. CASE arrays[j].buffer # b
    BY <1>5, <1>8, <1>10, <2>1 DEF Elements
  <2>2. CASE arrays[j].buffer = b /\ arrays[j].length <= arrays[k].length
    <3>1. PICK l \in Nat : l = arrays[j].length
      BY <1>5
    <3>2. l <= c /\ \A i \in 1 .. l : new[i] = old[i]
      BY <1>1, <1>3, <1>5, <1>6, <2>2, <3>1
    <3>3. SubSeq(new, 1, l) = SubSeq(old, 1, l)
      BY <1>3, <1>6, <1>7, <3>1, <3>2, SameBeginning
    <3>4. QED
      BY <1>1, <1>8, <1>10, <2>2, <3>1, <3>3 DEF Elements
  <2>3. CASE arrays[j].buffer = b /\ arrays[k].length < arrays[j].length
    <3>1. arrays[j].onto # 0
      BY <1>1, <1>4, <1>5, <1>6, <2>3 DEF FirstShortest
    <3>2. Last(arrays') = a
      BY <1>10 DEF Last
    <3>3. Len(arrays') > Len(arrays)
      BY <1>3, <1>4, <1>10
    <3>4. QED
      BY <1>11, <2>3, <3>1, <3>2, <3>3 DEF PushedOver
  <2>4. QED
    BY <1>5, <1>6, <2>1, <2>2, <2>3
<1>15. QED
  BY <1>4, <1>12, <1>13, <1>14 DEF Kept

-----------------------------------------------------------------------------
LEMMA ApartKeeps ==
  ASSUME ArgumentsAreLists, Roomy, FirstShortest, NEW r, Apart(r), Effect(r)
  PROVE  Roomy' /\ FirstShortest' /\ Kept
<1>1. InNewBuffer(r.elements, r.capacity, 0) /\ Len(r.elements) \in Nat
  BY DEF Apart, Effect, ArgumentsAreLists
<1>2. QED
  BY <1>1, NewBufferKeeps

LEMMA NumberOfArray == \A k : ArrayAt(k).num = k
BY DEF ArrayAt, Value

LEMMA PushKeeps ==
  ASSUME ArgumentsAreLists, Roomy, FirstShortest, NEW k \in DOMAIN arrays, Len(arrays) < MaxArrays,
         NEW rest \in ArgumentLists("push", k), Effect(ProtoPush(Append(rest, ArrayAt(k))))
  PROVE  Roomy' /\ FirstShortest' /\ Kept
<1>1. PICK args, r, xs, b, old, l :
        /\ args = Append(rest, ArrayAt(k)) /\ r = ProtoPush(args) /\ xs = r.elements
        /\ b = arrays[k].buffer /\ old = buffers[b] /\ l = arrays[k].length
  OBVIOUS
<1>2. k \in Nat /\ k \in 1 .. MaxArrays
  BY ListIs DEF Roomy, ArgumentsAreLists
<1>3. IsList(rest)
  BY <1>2 DEF ArgumentsAreLists
<1>4. /\ IsList(args) /\ Len(args) = Len(rest) + 1 /\ args[Len(rest) + 1] = ArrayAt(k) /\ Len(rest) \in Nat
  BY <1>1, <1>3, Appending, ListIs
<1>5. Last(args).num = k
  <2>1. PICK q : q = Len(rest) + 1
    OBVIOUS
  <2>2. Last(args) = ArrayAt(k)
    BY <1>4, <2>1 DEF Last
  <2>3. QED
    BY <2>2, NumberOfArray, Zenon
<1>6. IsList(Front(args))
  <2>1. Front(args) = SubSeq(args, 1, Len(args) - 1)
    BY DEF Front
  <2>2. Len(args) - 1 \in Nat /\ Len(args) - 1 <= Len(args)
    BY <1>4
  <2>3. QED
    BY <1>4, <2>1, <2>2, Beginning
<1>7. /\ b \in DOMAIN buffers /\ IsList(old) /\ l \in Nat /\ l <= Len(old)
  BY <1>1 DEF Roomy
<1>8. r = [kind |-> "pushed", onto |-> k, elements |-> Elements(k) \o Front(args)]
  BY <1>1, <1>5, Zenon DEF ProtoPush, Pushed, Receiver
<1>9. Elements(k) = SubSeq(old, 1, l)
  BY <1>1, Zenon DEF Elements
<1>10. /\ IsList(Elements(k)) /\ Len(Elements(k)) = l
       /\ \A i \in 1 .. l : Elements(k)[i] = old[i]
  BY <1>7, <1>9, Beginning
<1>11. /\ Len(xs) \in Nat /\ l <= Len(xs) /\ \A i \in 1 .. l : xs[i] = old[i]
  <2>1. xs = Elements(k) \o Front(args)
    BY <1>1, <1>8
  <2>2. DOMAIN Elements(k) = 1 .. l /\ Len(Front(args)) \in Nat
    BY <1>6, <1>10, ListIs
  <2>3. Len(xs) = l + Len(Front(args)) /\ \A i \in 1 .. l : xs[i] = Elements(k)[i]
    BY <1>6, <1>10, <2>1, <2>2, Following
  <2>4. QED
    BY <1>7, <1>10, <2>2, <2>3
<1>12. Effect(r) /\ r.kind = "pushed" /\ r.onto = k
  BY <1>1, <1>8
<1>13. CASE Len(xs) <= Len(old) /\ InBuffer(xs, k)
  BY <1>1, <1>11, <1>13, OldBufferKeeps
<1>14. CASE InNewBuffer(xs, Grown(Len(old), Len(xs)), k)
  BY <1>2, <1>11, <1>14, NewBufferKeeps
<1>15. QED
  BY <1>1, <1>12, <1>13, <1>14 DEF Effect

LEMMA CallKeeps ==
  ASSUME ArgumentsAreLists, Roomy, FirstShortest, Next
  PROVE  Roomy' /\ FirstShortest' /\ Kept
<1>1. CASE CallMethod
  <2>1. PICK k \in DOMAIN arrays, name \in Methods : \E rest \in ArgumentLists(name, k) :
          Room(name) /\ Effect(Proto(name, Append(rest, ArrayAt(k))))
    BY <1>1, Zenon DEF CallMethod
  <2>2. PICK rest \in ArgumentLists(name, k) : Room(name) /\ Effect(Proto(name, Append(rest, ArrayAt(k))))
    BY <2>1, Zenon
  <2>3. CASE name = "push"
    <3>1. Effect(ProtoPush(Append(rest, ArrayAt(k))))
      BY <2>2, <2>3, Zenon DEF Proto
    <3>2. Len(arrays) < MaxArrays
      BY <2>2, <2>3 DEF Room
    <3>3. QED
      BY <2>2, <2>3, <3>1, <3>2, PushKeeps
  <2>4. CASE name # "push"
    BY <2>2, <2>4, MethodsApart, ApartKeeps
  <2>5. QED
    BY <2>3, <2>4
<1>2. CASE CallArrayModule
  <2>1. PICK name, args : Effect(ArrayModule(name, args))
    BY <1>2, Zenon DEF CallArrayModule
  <2>2. QED
    BY <2>1, FunctionsApart, ApartKeeps
<1>3. CASE CallSortModule
  <2>1. PICK name, args : Effect(SortModule(name, args))
    BY <1>3, Zenon DEF CallSortModule
  <2>2. QED
    BY <2>1, SortsApart, ApartKeeps
<1>4. CASE Shuffle
  <2>1. PICK xs : Effect(Copy(xs))
    BY <1>4, Zenon DEF Shuffle
  <2>2. QED
    BY <2>1, OutcomesApart, ApartKeeps
<1>5. QED
  BY <1>1, <1>2, <1>3, <1>4 DEF Next

LEMMA StepKeeps ==
  ASSUME ArgumentsAreLists
  PROVE  Roomy /\ FirstShortest /\ [Next]_vars => (Roomy /\ FirstShortest)' /\ [Kept]_vars
<1> SUFFICES ASSUME Roomy, FirstShortest, [Next]_vars
             PROVE  Roomy' /\ FirstShortest' /\ (Kept \/ UNCHANGED vars)
  OBVIOUS
<1>1. CASE Next
  BY <1>1, CallKeeps
<1>2. CASE UNCHANGED vars
  BY <1>2 DEF vars, Roomy, FirstShortest
<1>3. QED
  BY <1>1, <1>2

(* No call of a method or of a function of the modules array and sort      *)
(* changes an array the script has (array_proto.go, array.go, sort.go),    *)
(* whatever arrays there are and whatever it is called with.  Only an      *)
(* array that push made is overwritten, by a second push onto what the     *)
(* first one was pushed onto.                                              *)
THEOREM CallsKeepArrays ==
  ASSUME ArgumentsAreLists
  PROVE  Spec => ArraysKept
<1>1. Init => Roomy /\ FirstShortest
  BY InitRoomy
<1>2. Roomy /\ FirstShortest /\ [Next]_vars => (Roomy /\ FirstShortest)' /\ [Kept]_vars
  BY StepKeeps
<1>3. QED
  BY <1>1, <1>2, PTL DEF Spec, ArraysKept
=============================================================================
