-------------------------- MODULE SseFramingProofs --------------------------
(***************************************************************************)
(* Proofs about SseFraming, for events of any length: what is read of a    *)
(* connection is what was written, but for the carriage returns that end a *)
(* line.                                                                   *)
(*                                                                         *)
(* What is read of a text that ends a line is a state of the reader        *)
(* (Reads), and a line more is one step of it; the lines of an event's     *)
(* data lie in it one behind the other (Lie), so that joining what is read *)
(* of them gives the data back.                                            *)
(***************************************************************************)
EXTENDS SseFraming, SequenceTheorems, WellFoundedInduction, TLAPS

-----------------------------------------------------------------------------
LEMMA LeastNumber ==
  ASSUME NEW T, T \subseteq Nat, T # {}
  PROVE  \E m \in T : \A k \in T : m <= k
<1>1. PICK R : R = {ss \in Nat \X Nat : ss[1] < ss[2]}
  OBVIOUS
<1>2. IsWellFoundedOn(R, Nat)
  BY <1>1, NatLessThanWellFounded DEF OpToRel
<1>3. PICK x \in T : \A y \in T : ~(<<y, x>> \in R)
  BY <1>2, WFMin
<1>4. ASSUME NEW y \in T PROVE x <= y
  <2>1. x \in Nat /\ y \in Nat /\ ~(y < x)
    BY <1>1, <1>3
  <2>2. QED
    BY <2>1
<1>5. QED
  BY <1>4

LEMMA FrontAppend ==
  ASSUME NEW A, NEW s \in Seq(A), NEW e \in A
  PROVE  Front(Append(s, e)) = s /\ Last(Append(s, e)) = e
<1>1. PICK r, n : r = Append(s, e) /\ n = Len(s)
  OBVIOUS
<1>2. n \in Nat /\ r \in Seq(A) /\ Len(r) = n + 1 /\ r[n + 1] = e /\ \A j \in 1 .. n : r[j] = s[j]
  BY <1>1, AppendProperties
<1>3. \A j \in 1 .. n : r[j] \in A
  BY <1>1, <1>2
<1>4. PICK q : q = SubSeq(r, 1, n)
  OBVIOUS
<1>5. q \in Seq(A) /\ Len(q) = n /\ \A j \in 1 .. n : q[j] = s[j]
  <2>1. /\ SubSeq(r, 1, n) \in Seq(A) /\ Len(SubSeq(r, 1, n)) = IF 1 <= n THEN n - 1 + 1 ELSE 0
        /\ \A j \in 1 .. n - 1 + 1 : SubSeq(r, 1, n)[j] = r[1 + j - 1]
    BY <1>2, <1>3, SubSeqProperties
  <2>2. n - 1 + 1 = n /\ \A j \in 1 .. n : 1 + j - 1 = j
    BY <1>2
  <2>3. QED
    BY <1>2, <1>4, <2>1, <2>2
<1>6. q = s
  BY <1>1, <1>5, SeqEqual
<1>7. Len(r) - 1 = n
  BY <1>2
<1>8. QED
  BY <1>1, <1>2, <1>4, <1>6, <1>7 DEF Front, Last

(* The texts written.                                                      *)
Chars == {"x", " ", ":", CR, LF, "event", "data", "connected"}
Colon == ":"
Space == " "

LEMMA CharsAre ==
  /\ LF \in Chars /\ CR \in Chars /\ Colon \in Chars /\ Space \in Chars /\ LF # CR
  /\ "event" \in Chars /\ "data" \in Chars /\ "connected" \in Chars
  /\ LF # Colon /\ LF # Space /\ LF # "event" /\ LF # "data" /\ LF # "connected"
  /\ Colon # "event" /\ Colon # "data"
  /\ CR # Colon /\ CR # Space /\ CR # "event" /\ CR # "data" /\ CR # "connected"
BY DEF Chars, LF, CR, Colon, Space

-----------------------------------------------------------------------------
(* A character more.                                                       *)

LinesTo(f, n, text) == f = [i \in 0 .. n |-> IF i = 0 THEN << <<>> >> ELSE Scanned(f[i - 1], text[i])]

LEMMA LinesGrow ==
  ASSUME NEW n \in Nat, NEW text, NEW f, LinesTo(f, n, text)
  PROVE  \E g : LinesTo(g, n + 1, text)
<1> DEFINE g == [i \in 0 .. n + 1 |-> IF i = n + 1 THEN Scanned(f[n], text[n + 1]) ELSE f[i]]
<1>1. \A i \in 0 .. n : f[i] = IF i = 0 THEN << <<>> >> ELSE Scanned(f[i - 1], text[i])
  BY DEF LinesTo
<1>2. \A i \in 0 .. n : i # n + 1 /\ i \in 0 .. n + 1 /\ g[i] = f[i]
  OBVIOUS
<1>3. ASSUME NEW i \in 0 .. n + 1
      PROVE  g[i] = IF i = 0 THEN << <<>> >> ELSE Scanned(g[i - 1], text[i])
  <2>1. CASE i = n + 1
    <3>1. i - 1 = n /\ i # 0 /\ n \in 0 .. n
      BY <2>1
    <3>2. g[i - 1] = f[n] /\ g[i] = Scanned(f[n], text[i])
      BY <1>2, <2>1, <3>1
    <3>3. QED
      BY <3>1, <3>2
  <2>2. CASE i # n + 1
    <3>1. i \in 0 .. n /\ (i # 0 => i - 1 \in 0 .. n)
      BY <2>2
    <3>2. QED
      BY <1>1, <1>2, <3>1
  <2>3. QED
    BY <2>1, <2>2
<1>4. LinesTo(g, n + 1, text)
  BY <1>3 DEF LinesTo
<1>5. QED
  BY <1>4

LEMMA LinesExist ==
  ASSUME NEW text, NEW n \in Nat
  PROVE  \E f : LinesTo(f, n, text)
<1> SUFFICES ASSUME ~(\E f : LinesTo(f, n, text)) PROVE FALSE
  OBVIOUS
<1>1. PICK bad : bad = {k \in Nat : ~(\E f : LinesTo(f, k, text))}
  OBVIOUS
<1>2. PICK m \in bad : \A k \in bad : m <= k
  BY <1>1, LeastNumber
<1>3. m # 0
  <2>1. PICK f : f = [i \in 0 .. 0 |-> << <<>> >>]
    OBVIOUS
  <2>2. \A i \in 0 .. 0 : i = 0
    OBVIOUS
  <2>3. f = [i \in 0 .. 0 |-> IF i = 0 THEN << <<>> >> ELSE Scanned(f[i - 1], text[i])]
    BY <2>1, <2>2
  <2>4. QED
    BY <1>1, <1>2, <2>3 DEF LinesTo
<1>4. m \in Nat /\ m - 1 \in Nat /\ ~(m <= m - 1) /\ (m - 1) + 1 = m
  BY <1>1, <1>2, <1>3
<1>5. PICK f : LinesTo(f, m - 1, text)
  BY <1>1, <1>2, <1>4
<1>6. \E g : LinesTo(g, (m - 1) + 1, text)
  BY <1>4, <1>5, LinesGrow
<1>7. QED
  BY <1>1, <1>2, <1>4, <1>6

LEMMA LinesAre ==
  ASSUME NEW text, Len(text) \in Nat
  PROVE  \E f : /\ Lines(text) = f[Len(text)] /\ f[0] = << <<>> >>
                /\ \A i \in 1 .. Len(text) : f[i] = Scanned(f[i - 1], text[i])
<1> DEFINE f == CHOOSE f : f = [i \in 0 .. Len(text) |-> IF i = 0 THEN << <<>> >> ELSE Scanned(f[i - 1], text[i])]
<1>1. \E g : g = [i \in 0 .. Len(text) |-> IF i = 0 THEN << <<>> >> ELSE Scanned(g[i - 1], text[i])]
  <2>1. PICK n : n = Len(text)
    OBVIOUS
  <2>2. \E g : LinesTo(g, n, text)
    BY <2>1, LinesExist
  <2>3. QED
    BY <2>1, <2>2 DEF LinesTo
<1>2. f = [i \in 0 .. Len(text) |-> IF i = 0 THEN << <<>> >> ELSE Scanned(f[i - 1], text[i])]
  BY <1>1
<1>3. Lines(text) = f[Len(text)]
  BY DEF Lines
<1> HIDE DEF f
<1>4. f[0] = << <<>> >>
  <2>1. 0 \in 0 .. Len(text)
    OBVIOUS
  <2>2. QED
    BY <1>2, <2>1
<1>5. ASSUME NEW i \in 1 .. Len(text) PROVE f[i] = Scanned(f[i - 1], text[i])
  <2>1. i \in 0 .. Len(text) /\ i # 0
    OBVIOUS
  <2>2. QED
    BY <1>2, <2>1
<1>6. QED
  BY <1>3, <1>4, <1>5

LEMMA LinesOfMore ==
  ASSUME NEW u, Len(u) \in Nat, NEW v, NEW c, Len(v) = Len(u) + 1, v[Len(u) + 1] = c,
         \A j \in 1 .. Len(u) : v[j] = u[j]
  PROVE  Lines(v) = Scanned(Lines(u), c)
<1>1. PICK n : n = Len(u)
  OBVIOUS
<1>2. n \in Nat /\ Len(v) = n + 1
  BY <1>1
<1>3. PICK f : /\ Lines(u) = f[n] /\ f[0] = << <<>> >>
               /\ \A i \in 1 .. n : f[i] = Scanned(f[i - 1], u[i])
  BY <1>1, <1>2, LinesAre
<1>4. Len(v) \in Nat
  BY <1>2
<1>5. PICK g : /\ Lines(v) = g[Len(v)] /\ g[0] = << <<>> >>
               /\ \A i \in 1 .. Len(v) : g[i] = Scanned(g[i - 1], v[i])
  BY <1>4, LinesAre
<1>6. PICK bad : bad = {i \in 0 .. n : f[i] # g[i]}
  OBVIOUS
<1>7. ASSUME bad # {} PROVE FALSE
  <2>1. bad \subseteq Nat
    BY <1>2, <1>6
  <2>2. PICK m \in bad : \A k \in bad : m <= k
    BY <1>7, <2>1, LeastNumber
  <2>3. m \in 0 .. n /\ m # 0 /\ f[m] # g[m]
    BY <1>3, <1>5, <1>6, <2>2
  <2>4. m - 1 \in 0 .. n /\ ~(m <= m - 1) /\ m \in 1 .. n /\ m \in 1 .. Len(v)
    BY <1>2, <2>3
  <2>5. f[m - 1] = g[m - 1]
    BY <1>6, <2>2, <2>4
  <2>6. u[m] = v[m]
    BY <1>1, <2>4
  <2>7. QED
    BY <1>3, <1>5, <2>3, <2>4, <2>5, <2>6
<1>8. n \in 0 .. n /\ n + 1 \in 1 .. Len(v) /\ n + 1 - 1 = n
  BY <1>2
<1>9. f[n] = g[n]
  BY <1>6, <1>7, <1>8
<1>10. g[n + 1] = Scanned(g[n], c)
  BY <1>1, <1>5, <1>8
<1>11. QED
  BY <1>2, <1>3, <1>5, <1>9, <1>10

LEMMA LinesOfNothing == Lines(<<>>) = << <<>> >>
<1>1. PICK u : u = <<>>
  OBVIOUS
<1>2. Len(u) = 0 /\ Len(u) \in Nat
  BY <1>1
<1>3. PICK f : Lines(u) = f[Len(u)] /\ f[0] = << <<>> >>
  BY <1>2, LinesAre
<1>4. QED
  BY <1>1, <1>2, <1>3

(* A text that ends a line, and a line more.                               *)
Ends(u, ls) == u \in Seq(Chars) /\ ls \in Seq(Seq(Chars)) /\ Lines(u) = Append(ls, <<>>)
Unbroken(w) == w \in Seq(Chars) /\ \A j \in 1 .. Len(w) : w[j] # LF

LEMMA NothingEnds == Ends(<<>>, <<>>)
<1>1. PICK e : e = <<>>
  OBVIOUS
<1>2. e \in Seq(Chars) /\ e \in Seq(Seq(Chars)) /\ Append(e, e) = <<e>>
  BY <1>1
<1>3. QED
  BY <1>1, <1>2, LinesOfNothing DEF Ends

LEMMA LineEnds ==
  ASSUME NEW u, NEW ls, Ends(u, ls), NEW w, Unbroken(w)
  PROVE  Ends(u \o (w \o <<LF>>), Append(ls, w))
<1>1. PICK N, k, B : N = Len(w) /\ k = Len(u) /\ B = Seq(Chars)
  OBVIOUS
<1>2. u \in Seq(Chars) /\ w \in Seq(Chars) /\ ls \in Seq(B) /\ N \in Nat /\ k \in Nat
  BY <1>1 DEF Ends, Unbroken
<1> DEFINE h(j) == u \o SubSeq(w, 1, j)
<1>3. ASSUME NEW j \in 0 .. N
      PROVE  /\ SubSeq(w, 1, j) \in Seq(Chars) /\ Len(SubSeq(w, 1, j)) = j
             /\ \A i \in 1 .. j : SubSeq(w, 1, j)[i] = w[i]
  <2>1. \A i \in 1 .. j : w[i] \in Chars
    BY <1>1, <1>2
  <2>2. /\ SubSeq(w, 1, j) \in Seq(Chars) /\ Len(SubSeq(w, 1, j)) = IF 1 <= j THEN j - 1 + 1 ELSE 0
        /\ \A i \in 1 .. j - 1 + 1 : SubSeq(w, 1, j)[i] = w[1 + i - 1]
    BY <1>2, <2>1, SubSeqProperties
  <2>3. j - 1 + 1 = j /\ \A i \in 1 .. j : 1 + i - 1 = i
    BY <1>2
  <2>4. QED
    BY <1>2, <2>2, <2>3
<1>4. ASSUME NEW j \in 0 .. N
      PROVE  /\ h(j) \in Seq(Chars) /\ Len(h(j)) = k + j
             /\ \A i \in 1 .. k + j : h(j)[i] = IF i <= k THEN u[i] ELSE w[i - k]
  <2>1. /\ u \o SubSeq(w, 1, j) \in Seq(Chars) /\ Len(u \o SubSeq(w, 1, j)) = Len(u) + Len(SubSeq(w, 1, j))
        /\ \A i \in 1 .. Len(u) + Len(SubSeq(w, 1, j)) : (u \o SubSeq(w, 1, j))[i] =
              IF i <= Len(u) THEN u[i] ELSE SubSeq(w, 1, j)[i - Len(u)]
    BY <1>2, <1>3, ConcatProperties
  <2>2. \A i \in 1 .. k + j : ~(i <= k) => i - k \in 1 .. j
    BY <1>2
  <2>3. QED
    BY <1>1, <1>3, <2>1, <2>2
<1>5. ASSUME NEW j \in 0 .. N
      PROVE  Append(ls, SubSeq(w, 1, j)) \in Seq(B) /\ SubSeq(w, 1, j) \in B
  BY <1>1, <1>2, <1>3, AppendProperties
<1>6. PICK bad : bad = {j \in 0 .. N : Lines(h(j)) # Append(ls, SubSeq(w, 1, j))}
  OBVIOUS
<1>7. ASSUME bad # {} PROVE FALSE
  <2>1. bad \subseteq Nat
    BY <1>2, <1>6
  <2>2. PICK m \in bad : \A i \in bad : m <= i
    BY <1>7, <2>1, LeastNumber
  <2>3. m \in 0 .. N /\ Lines(h(m)) # Append(ls, SubSeq(w, 1, m))
    BY <1>6, <2>2
  <2>4. CASE m = 0
    <3>1. SubSeq(w, 1, 0) = <<>>
      BY SubSeqEmpty
    <3>2. h(0) = u
      BY <1>2, <3>1, ConcatEmptySeq
    <3>3. QED
      BY <2>3, <2>4, <3>1, <3>2 DEF Ends
  <2>5. CASE m # 0
    <3>1. PICK j : j = m - 1
      OBVIOUS
    <3>2. j \in 0 .. N /\ m = j + 1 /\ ~(m <= j) /\ m \in 1 .. N
      BY <1>2, <2>3, <2>5, <3>1
    <3>3. Lines(h(j)) = Append(ls, SubSeq(w, 1, j))
      BY <1>6, <2>2, <3>2
    <3>4. /\ Len(h(j)) = k + j /\ Len(h(m)) = k + j + 1
          /\ h(m)[k + j + 1] = w[m] /\ \A i \in 1 .. k + j : h(m)[i] = h(j)[i]
      <4>1. /\ Len(h(j)) = k + j /\ \A i \in 1 .. k + j : h(j)[i] = IF i <= k THEN u[i] ELSE w[i - k]
        BY <1>4, <3>2
      <4>2. /\ Len(h(m)) = k + m /\ \A i \in 1 .. k + m : h(m)[i] = IF i <= k THEN u[i] ELSE w[i - k]
        BY <1>4, <3>2
      <4>3. k + m = k + j + 1 /\ k + j + 1 \in 1 .. k + m /\ ~(k + j + 1 <= k) /\ k + j + 1 - k = m
        BY <1>2, <3>2
      <4>4. \A i \in 1 .. k + j : i \in 1 .. k + m
        BY <1>2, <3>2
      <4>5. PICK x, y : x = h(j) /\ y = h(m)
        OBVIOUS
      <4>6. Len(x) = k + j /\ Len(y) = k + j + 1
        BY <4>1, <4>2, <4>3, <4>5
      <4>7. y[k + j + 1] = w[m]
        <5>1. PICK q : q = k + j + 1
          OBVIOUS
        <5>2. q \in 1 .. k + m /\ ~(q <= k) /\ q - k = m
          BY <1>2, <3>2, <5>1
        <5>3. \A i \in 1 .. k + m : y[i] = IF i <= k THEN u[i] ELSE w[i - k]
          BY <4>2, <4>5
        <5>4. y[q] = w[m]
          BY <5>2, <5>3
        <5>5. QED
          BY <5>1, <5>4
      <4>8. \A i \in 1 .. k + j : y[i] = x[i]
        BY <4>1, <4>2, <4>4, <4>5
      <4>9. QED
        BY <4>5, <4>6, <4>7, <4>8
    <3>5. Lines(h(m)) = Scanned(Lines(h(j)), w[m])
      <4>1. PICK x, y, c : x = h(j) /\ y = h(m) /\ c = w[m]
        OBVIOUS
      <4>2. /\ Len(x) \in Nat /\ Len(y) = Len(x) + 1 /\ y[Len(x) + 1] = c /\ \A i \in 1 .. Len(x) : y[i] = x[i]
        <5>1. PICK n : n = k + j
          OBVIOUS
        <5>2. n \in Nat
          BY <1>2, <3>2, <5>1
        <5>3. /\ Len(x) = n /\ Len(y) = n + 1 /\ y[n + 1] = c /\ \A i \in 1 .. n : y[i] = x[i]
          BY <3>4, <4>1, <5>1, Zenon
        <5>4. QED
          BY <5>2, <5>3, Zenon
      <4>3. Lines(y) = Scanned(Lines(x), c)
        BY <4>2, LinesOfMore
      <4>4. QED
        BY <4>1, <4>3
    <3>6. w[m] # LF /\ w[m] \in Chars
      BY <1>1, <1>2, <3>2 DEF Unbroken
    <3>7. Scanned(Lines(h(j)), w[m]) = Append(ls, Append(SubSeq(w, 1, j), w[m]))
      <4>1. PICK r, s : r = SubSeq(w, 1, j) /\ s = Append(ls, r)
        OBVIOUS
      <4>2. r \in B
        BY <1>5, <3>2, <4>1
      <4>3. Front(s) = ls /\ Last(s) = r
        BY <1>2, <4>1, <4>2, FrontAppend
      <4>4. QED
        BY <3>3, <3>6, <4>1, <4>3 DEF Scanned
    <3>8. Append(SubSeq(w, 1, j), w[m]) = SubSeq(w, 1, m)
      <4>1. PICK r, s, q : r = SubSeq(w, 1, j) /\ s = SubSeq(w, 1, m) /\ q = Append(r, w[m])
        OBVIOUS
      <4>2. r \in Seq(Chars) /\ Len(r) = j /\ \A i \in 1 .. j : r[i] = w[i]
        BY <1>3, <3>2, <4>1
      <4>3. s \in Seq(Chars) /\ Len(s) = m /\ \A i \in 1 .. m : s[i] = w[i]
        BY <1>3, <3>2, <4>1
      <4>4. q \in Seq(Chars) /\ Len(q) = j + 1 /\ q[j + 1] = w[m] /\ \A i \in 1 .. j : q[i] = r[i]
        BY <3>6, <4>1, <4>2, AppendProperties
      <4>5. \A i \in 1 .. m : i = j + 1 \/ i \in 1 .. j
        BY <3>2
      <4>6. \A i \in 1 .. m : q[i] = s[i]
        BY <3>2, <4>2, <4>3, <4>4, <4>5
      <4>7. q = s
        BY <3>2, <4>3, <4>4, <4>6, SeqEqual
      <4>8. QED
        BY <4>1, <4>7
    <3>9. QED
      BY <2>3, <3>5, <3>7, <3>8
  <2>6. QED
    BY <2>4, <2>5
<1>8. Lines(u \o w) = Append(ls, w)
  <2>1. N \in 0 .. N
    BY <1>2
  <2>2. SubSeq(w, 1, N) = w
    BY <1>1, <1>2, SubSeqFull
  <2>3. Lines(h(N)) = Append(ls, SubSeq(w, 1, N))
    BY <1>6, <1>7, <2>1
  <2>4. QED
    BY <2>2, <2>3
<1>9. PICK x, y : x = u \o w /\ y = u \o (w \o <<LF>>)
  OBVIOUS
<1>10. /\ x \in Seq(Chars) /\ y \in Seq(Chars) /\ Len(y) = Len(x) + 1 /\ y[Len(x) + 1] = LF
       /\ \A i \in 1 .. Len(x) : y[i] = x[i]
  <2>1. PICK l : l = <<LF>>
    OBVIOUS
  <2>9. LF \in Chars
    BY CharsAre
  <2>2. l \in Seq(Chars) /\ Len(l) = 1 /\ l[1] = LF
    BY <2>1, <2>9
  <2>3. y = x \o l
    BY <1>2, <1>9, <2>1, <2>2, ConcatAssociative
  <2>4. x \in Seq(Chars)
    BY <1>2, <1>9, ConcatProperties
  <2>5. /\ y \in Seq(Chars) /\ Len(y) = Len(x) + Len(l)
        /\ \A i \in 1 .. Len(x) + Len(l) : y[i] = IF i <= Len(x) THEN x[i] ELSE l[i - Len(x)]
    BY <2>2, <2>3, <2>4, ConcatProperties
  <2>6. Len(x) \in Nat
    BY <2>4
  <2>7. /\ Len(x) + 1 \in 1 .. Len(x) + 1 /\ ~(Len(x) + 1 <= Len(x)) /\ Len(x) + 1 - Len(x) = 1
        /\ \A i \in 1 .. Len(x) : i \in 1 .. Len(x) + 1 /\ i <= Len(x)
    BY <2>6
  <2>8. QED
    BY <2>2, <2>4, <2>5, <2>7
<1>11. Lines(y) = Scanned(Lines(x), LF)
  <2>1. Len(x) \in Nat
    BY <1>10
  <2>2. QED
    BY <1>10, <2>1, LinesOfMore
<1>12. Lines(y) = Append(Append(ls, w), <<>>)
  BY <1>8, <1>9, <1>11 DEF Scanned
<1>13. Append(ls, w) \in Seq(B)
  <2>1. w \in B
    BY <1>1, <1>2
  <2>2. QED
    BY <1>2, <2>1, AppendProperties
<1>14. QED
  BY <1>1, <1>9, <1>10, <1>12, <1>13 DEF Ends

-----------------------------------------------------------------------------
(* A line more is a step of the reader.                                    *)

ReadTo(f, n, ls) == f = [i \in 0 .. n |-> IF i = 0 THEN NothingYet ELSE ReadLine(f[i - 1], TrimRight(ls[i]))]

LEMMA ReadGrows ==
  ASSUME NEW n \in Nat, NEW ls, NEW f, ReadTo(f, n, ls)
  PROVE  \E g : ReadTo(g, n + 1, ls)
<1> DEFINE g == [i \in 0 .. n + 1 |-> IF i = n + 1 THEN ReadLine(f[n], TrimRight(ls[n + 1])) ELSE f[i]]
<1>1. \A i \in 0 .. n : f[i] = IF i = 0 THEN NothingYet ELSE ReadLine(f[i - 1], TrimRight(ls[i]))
  BY DEF ReadTo
<1>2. \A i \in 0 .. n : i # n + 1 /\ i \in 0 .. n + 1 /\ g[i] = f[i]
  OBVIOUS
<1>3. ASSUME NEW i \in 0 .. n + 1
      PROVE  g[i] = IF i = 0 THEN NothingYet ELSE ReadLine(g[i - 1], TrimRight(ls[i]))
  <2>1. CASE i = n + 1
    <3>1. i - 1 = n /\ i # 0 /\ n \in 0 .. n
      BY <2>1
    <3>2. g[i - 1] = f[n] /\ g[i] = ReadLine(f[n], TrimRight(ls[i]))
      BY <1>2, <2>1, <3>1
    <3>3. QED
      BY <3>1, <3>2
  <2>2. CASE i # n + 1
    <3>1. i \in 0 .. n /\ (i # 0 => i - 1 \in 0 .. n)
      BY <2>2
    <3>2. QED
      BY <1>1, <1>2, <3>1
  <2>3. QED
    BY <2>1, <2>2
<1>4. ReadTo(g, n + 1, ls)
  BY <1>3 DEF ReadTo
<1>5. QED
  BY <1>4

LEMMA ReadExists ==
  ASSUME NEW ls, NEW n \in Nat
  PROVE  \E f : ReadTo(f, n, ls)
<1> SUFFICES ASSUME ~(\E f : ReadTo(f, n, ls)) PROVE FALSE
  OBVIOUS
<1>1. PICK bad : bad = {k \in Nat : ~(\E f : ReadTo(f, k, ls))}
  OBVIOUS
<1>2. PICK m \in bad : \A k \in bad : m <= k
  BY <1>1, LeastNumber
<1>3. m # 0
  <2>1. PICK f : f = [i \in 0 .. 0 |-> NothingYet]
    OBVIOUS
  <2>2. \A i \in 0 .. 0 : i = 0
    OBVIOUS
  <2>3. f = [i \in 0 .. 0 |-> IF i = 0 THEN NothingYet ELSE ReadLine(f[i - 1], TrimRight(ls[i]))]
    BY <2>1, <2>2
  <2>4. QED
    BY <1>1, <1>2, <2>3 DEF ReadTo
<1>4. m \in Nat /\ m - 1 \in Nat /\ ~(m <= m - 1) /\ (m - 1) + 1 = m
  BY <1>1, <1>2, <1>3
<1>5. PICK f : ReadTo(f, m - 1, ls)
  BY <1>1, <1>2, <1>4
<1>6. \E g : ReadTo(g, (m - 1) + 1, ls)
  BY <1>4, <1>5, ReadGrows
<1>7. QED
  BY <1>1, <1>2, <1>4, <1>6

LEMMA ReadIs ==
  ASSUME NEW ls, Len(ls) \in Nat
  PROVE  \E f : /\ ReadLines(ls) = f[Len(ls)] /\ f[0] = NothingYet
                /\ \A i \in 1 .. Len(ls) : f[i] = ReadLine(f[i - 1], TrimRight(ls[i]))
<1> DEFINE
      f == CHOOSE f : f = [i \in 0 .. Len(ls) |->
                             IF i = 0 THEN NothingYet ELSE ReadLine(f[i - 1], TrimRight(ls[i]))]
<1>1. \E g : g = [i \in 0 .. Len(ls) |-> IF i = 0 THEN NothingYet ELSE ReadLine(g[i - 1], TrimRight(ls[i]))]
  <2>1. PICK n : n = Len(ls)
    OBVIOUS
  <2>2. \E g : ReadTo(g, n, ls)
    BY <2>1, ReadExists
  <2>3. QED
    BY <2>1, <2>2 DEF ReadTo
<1>2. f = [i \in 0 .. Len(ls) |-> IF i = 0 THEN NothingYet ELSE ReadLine(f[i - 1], TrimRight(ls[i]))]
  BY <1>1
<1>3. ReadLines(ls) = f[Len(ls)]
  BY DEF ReadLines
<1> HIDE DEF f
<1>4. f[0] = NothingYet
  <2>1. 0 \in 0 .. Len(ls)
    OBVIOUS
  <2>2. QED
    BY <1>2, <2>1
<1>5. ASSUME NEW i \in 1 .. Len(ls) PROVE f[i] = ReadLine(f[i - 1], TrimRight(ls[i]))
  <2>1. i \in 0 .. Len(ls) /\ i # 0
    OBVIOUS
  <2>2. QED
    BY <1>2, <2>1
<1>6. QED
  BY <1>3, <1>4, <1>5

LEMMA ReadOfMore ==
  ASSUME NEW A, NEW ls \in Seq(A), NEW w \in A
  PROVE  ReadLines(Append(ls, w)) = ReadLine(ReadLines(ls), TrimRight(w))
<1>1. PICK n, ms : n = Len(ls) /\ ms = Append(ls, w)
  OBVIOUS
<1>2. n \in Nat /\ Len(ms) = n + 1 /\ ms[n + 1] = w /\ \A j \in 1 .. n : ms[j] = ls[j]
  BY <1>1, AppendProperties
<1>3. PICK f : /\ ReadLines(ls) = f[n] /\ f[0] = NothingYet
               /\ \A i \in 1 .. n : f[i] = ReadLine(f[i - 1], TrimRight(ls[i]))
  BY <1>1, <1>2, ReadIs
<1>4. Len(ms) \in Nat
  BY <1>2
<1>5. PICK g : /\ ReadLines(ms) = g[Len(ms)] /\ g[0] = NothingYet
               /\ \A i \in 1 .. Len(ms) : g[i] = ReadLine(g[i - 1], TrimRight(ms[i]))
  BY <1>4, ReadIs
<1>6. PICK bad : bad = {i \in 0 .. n : f[i] # g[i]}
  OBVIOUS
<1>7. ASSUME bad # {} PROVE FALSE
  <2>1. bad \subseteq Nat
    BY <1>2, <1>6
  <2>2. PICK m \in bad : \A k \in bad : m <= k
    BY <1>7, <2>1, LeastNumber
  <2>3. m \in 0 .. n /\ m # 0 /\ f[m] # g[m]
    BY <1>3, <1>5, <1>6, <2>2
  <2>4. m - 1 \in 0 .. n /\ ~(m <= m - 1) /\ m \in 1 .. n /\ m \in 1 .. Len(ms)
    BY <1>2, <2>3
  <2>5. f[m - 1] = g[m - 1]
    BY <1>6, <2>2, <2>4
  <2>6. ms[m] = ls[m]
    BY <1>2, <2>4
  <2>7. QED
    BY <1>3, <1>5, <2>3, <2>4, <2>5, <2>6
<1>8. n \in 0 .. n /\ n + 1 \in 1 .. Len(ms) /\ n + 1 - 1 = n
  BY <1>2
<1>9. f[n] = g[n]
  BY <1>6, <1>7, <1>8
<1>10. g[n + 1] = ReadLine(g[n], TrimRight(w))
  BY <1>2, <1>5, <1>8
<1>11. QED
  BY <1>1, <1>2, <1>3, <1>5, <1>9, <1>10

LEMMA ReadOfNothing == ReadLines(<<>>) = NothingYet
<1>1. PICK u : u = <<>>
  OBVIOUS
<1>2. Len(u) = 0 /\ Len(u) \in Nat
  BY <1>1
<1>3. PICK f : ReadLines(u) = f[Len(u)] /\ f[0] = NothingYet
  BY <1>2, ReadIs
<1>4. QED
  BY <1>1, <1>2, <1>3

(* The reader stands at state when it has read u, which ends a line.       *)
Reads(u, state) == \E ls : Ends(u, ls) /\ ReadLines(ls) = state

LEMMA ReadsNothing == Reads(<<>>, NothingYet)
BY NothingEnds, ReadOfNothing DEF Reads

LEMMA ReadsALine ==
  ASSUME NEW u, NEW state, Reads(u, state), NEW w, Unbroken(w)
  PROVE  Reads(u \o (w \o <<LF>>), ReadLine(state, TrimRight(w)))
<1>1. PICK ls : Ends(u, ls) /\ ReadLines(ls) = state
  BY DEF Reads
<1>2. Ends(u \o (w \o <<LF>>), Append(ls, w))
  BY <1>1, LineEnds
<1>3. PICK B : B = Seq(Chars)
  OBVIOUS
<1>4. ls \in Seq(B) /\ w \in B
  BY <1>1, <1>3 DEF Ends, Unbroken
<1>5. ReadLines(Append(ls, w)) = ReadLine(state, TrimRight(w))
  BY <1>1, <1>4, ReadOfMore
<1>6. QED
  BY <1>2, <1>5 DEF Reads

LEMMA ReadsAll ==
  ASSUME NEW u, NEW state, Reads(u, state)
  PROVE  readSSEEvents(u) = state.events
<1>1. PICK ls : Ends(u, ls) /\ ReadLines(ls) = state
  BY DEF Reads
<1>2. PICK B, e : B = Seq(Chars) /\ e = <<>>
  OBVIOUS
<1>3. ls \in Seq(B) /\ e \in B /\ Lines(u) = Append(ls, e)
  BY <1>1, <1>2 DEF Ends
<1>4. Front(Lines(u)) = ls
  BY <1>3, FrontAppend
<1>5. QED
  BY <1>1, <1>4 DEF readSSEEvents

-----------------------------------------------------------------------------
(* Where the carriage returns that end a line begin.                       *)
Trims(w, m) == m \in 0 .. Len(w) /\ (m = 0 \/ w[m] # CR) /\ \A k \in m + 1 .. Len(w) : w[k] = CR

LEMMA TrimExists ==
  ASSUME NEW w, Len(w) \in Nat
  PROVE  \E m : Trims(w, m)
<1>1. PICK T : T = {j \in 0 .. Len(w) : \A k \in j + 1 .. Len(w) : w[k] = CR}
  OBVIOUS
<1>2. T \subseteq Nat /\ Len(w) \in T
  BY <1>1
<1>3. PICK m \in T : \A k \in T : m <= k
  BY <1>2, LeastNumber
<1>4. m \in 0 .. Len(w) /\ \A k \in m + 1 .. Len(w) : w[k] = CR
  BY <1>1, <1>3
<1>5. ASSUME m # 0, w[m] = CR PROVE FALSE
  <2>1. m - 1 \in 0 .. Len(w) /\ ~(m <= m - 1) /\ \A k \in m - 1 + 1 .. Len(w) : k = m \/ k \in m + 1 .. Len(w)
    BY <1>4, <1>5
  <2>2. m - 1 \in T
    BY <1>1, <1>4, <1>5, <2>1
  <2>3. QED
    BY <1>3, <2>1, <2>2
<1>6. QED
  BY <1>4, <1>5 DEF Trims

LEMMA TrimmedAt ==
  ASSUME NEW A, NEW w \in Seq(A), NEW m, Trims(w, m)
  PROVE  /\ TrimRight(w) = SubSeq(w, 1, m)
         /\ TrimRight(w) \in Seq(A) /\ Len(TrimRight(w)) = m /\ \A j \in 1 .. m : TrimRight(w)[j] = w[j]
<1>1. PICK full : full = {i \in DOMAIN w : w[i] # CR}
  OBVIOUS
<1>2. Len(w) \in Nat /\ DOMAIN w = 1 .. Len(w) /\ m \in 0 .. Len(w)
  BY DEF Trims
<1>3. \A i \in full : i \in 1 .. Len(w) /\ i <= m
  BY <1>1, <1>2 DEF Trims
<1>4. (IF full = {} THEN 0 ELSE Max(full)) = m
  <2>1. CASE m = 0
    BY <1>2, <1>3, <2>1
  <2>2. CASE m # 0
    <3>1. m \in full
      BY <1>1, <1>2, <2>2 DEF Trims
    <3>2. \A x \in full : (\A y \in full : x >= y) <=> x = m
      BY <1>2, <1>3, <3>1
    <3>3. Max(full) = m
      BY <3>1, <3>2 DEF Max
    <3>4. QED
      BY <3>1, <3>3
  <2>3. QED
    BY <2>1, <2>2
<1>5. TrimRight(w) = SubSeq(w, 1, m)
  BY <1>1, <1>4 DEF TrimRight
<1>6. SubSeq(w, 1, m) \in Seq(A) /\ Len(SubSeq(w, 1, m)) = m /\ \A j \in 1 .. m : SubSeq(w, 1, m)[j] = w[j]
  <2>1. \A i \in 1 .. m : w[i] \in A
    BY <1>2
  <2>2. /\ SubSeq(w, 1, m) \in Seq(A) /\ Len(SubSeq(w, 1, m)) = IF 1 <= m THEN m - 1 + 1 ELSE 0
        /\ \A i \in 1 .. m - 1 + 1 : SubSeq(w, 1, m)[i] = w[1 + i - 1]
    BY <1>2, <2>1, SubSeqProperties
  <2>3. m - 1 + 1 = m /\ \A i \in 1 .. m : 1 + i - 1 = i
    BY <1>2
  <2>4. QED
    BY <1>2, <2>2, <2>3
<1>7. QED
  BY <1>5, <1>6

-----------------------------------------------------------------------------
(* A line with a field.                                                    *)
Led(x, v) == <<x, Colon, Space>> \o v

LEMMA LedIs ==
  ASSUME NEW x \in Chars, NEW v \in Seq(Chars)
  PROVE  /\ Led(x, v) \in Seq(Chars) /\ Len(Led(x, v)) = Len(v) + 3
         /\ Led(x, v)[1] = x /\ Led(x, v)[2] = Colon /\ Led(x, v)[3] = Space
         /\ \A j \in 1 .. Len(v) : Led(x, v)[j + 3] = v[j]
<1>1. PICK h, l, n : h = <<x, Colon, Space>> /\ l = h \o v /\ n = Len(v)
  OBVIOUS
<1>2. Colon \in Chars /\ Space \in Chars
  BY CharsAre
<1>3. h \in Seq(Chars) /\ Len(h) = 3 /\ h[1] = x /\ h[2] = Colon /\ h[3] = Space
  BY <1>1, <1>2
<1>4. n \in Nat
  BY <1>1
<1>5. l \in Seq(Chars) /\ Len(l) = 3 + n /\ \A i \in 1 .. 3 + n : l[i] = IF i <= 3 THEN h[i] ELSE v[i - 3]
  <2>1. /\ h \o v \in Seq(Chars) /\ Len(h \o v) = Len(h) + Len(v)
        /\ \A i \in 1 .. Len(h) + Len(v) : (h \o v)[i] = IF i <= Len(h) THEN h[i] ELSE v[i - Len(h)]
    BY <1>3, ConcatProperties
  <2>2. QED
    BY <1>1, <1>3, <2>1
<1>6. l[1] = x /\ l[2] = Colon /\ l[3] = Space
  <2>1. 1 \in 1 .. 3 + n /\ 2 \in 1 .. 3 + n /\ 3 \in 1 .. 3 + n /\ 1 <= 3 /\ 2 <= 3 /\ 3 <= 3
    BY <1>4
  <2>2. QED
    BY <1>3, <1>5, <2>1
<1>7. ASSUME NEW j \in 1 .. n PROVE l[j + 3] = v[j]
  <2>1. j + 3 \in 1 .. 3 + n /\ ~(j + 3 <= 3) /\ j + 3 - 3 = j
    BY <1>4
  <2>2. QED
    BY <1>5, <2>1
<1>8. 3 + n = n + 3
  BY <1>4
<1>9. QED
  BY <1>1, <1>5, <1>6, <1>7, <1>8 DEF Led

LEMMA LedUnbroken ==
  ASSUME NEW x \in Chars, x # LF, NEW v, Unbroken(v)
  PROVE  Unbroken(Led(x, v))
<1>1. PICK l, n : l = Led(x, v) /\ n = Len(v)
  OBVIOUS
<1>2. v \in Seq(Chars) /\ n \in Nat /\ \A j \in 1 .. n : v[j] # LF
  BY <1>1 DEF Unbroken
<1>3. /\ l \in Seq(Chars) /\ Len(l) = n + 3 /\ l[1] = x /\ l[2] = Colon /\ l[3] = Space
      /\ \A j \in 1 .. n : l[j + 3] = v[j]
  BY <1>1, <1>2, LedIs
<1>4. Colon # LF /\ Space # LF
  BY CharsAre
<1>5. ASSUME NEW i \in 1 .. n + 3 PROVE l[i] # LF
  <2>1. CASE i = 1 \/ i = 2 \/ i = 3
    BY <1>3, <1>4, <2>1
  <2>2. CASE ~(i = 1 \/ i = 2 \/ i = 3)
    <3>1. PICK j : j = i - 3
      OBVIOUS
    <3>2. j \in 1 .. n /\ j + 3 = i
      BY <1>2, <2>2, <3>1
    <3>3. QED
      BY <1>2, <1>3, <3>2
  <2>3. QED
    BY <2>1, <2>2
<1>6. QED
  BY <1>1, <1>3, <1>5 DEF Unbroken

LEMMA LedTrims ==
  ASSUME NEW x \in Chars, NEW v \in Seq(Chars)
  PROVE  TrimRight(Led(x, v)) = Led(x, TrimRight(v)) /\ TrimRight(v) \in Seq(Chars)
<1>1. PICK l, n : l = Led(x, v) /\ n = Len(v)
  OBVIOUS
<1>2. n \in Nat
  BY <1>1
<1>3. /\ l \in Seq(Chars) /\ Len(l) = n + 3 /\ l[1] = x /\ l[2] = Colon /\ l[3] = Space
      /\ \A j \in 1 .. n : l[j + 3] = v[j]
  BY <1>1, LedIs
<1>4. PICK m : Trims(v, m)
  BY <1>1, <1>2, TrimExists
<1>5. PICK w : w = TrimRight(v)
  OBVIOUS
<1>6. w \in Seq(Chars) /\ Len(w) = m /\ \A j \in 1 .. m : w[j] = v[j]
  BY <1>4, <1>5, TrimmedAt
<1>7. m \in 0 .. n /\ m \in Nat
  BY <1>1, <1>2, <1>4 DEF Trims
<1>8. Trims(l, m + 3)
  <2>1. m + 3 \in 0 .. Len(l)
    BY <1>2, <1>3, <1>7
  <2>2. l[m + 3] # CR
    <3>1. CASE m = 0
      <4>1. Space # CR
        BY CharsAre
      <4>2. m + 3 = 3
        BY <3>1
      <4>3. QED
        BY <1>3, <4>1, <4>2
    <3>2. CASE m # 0
      <4>1. m \in 1 .. n
        BY <1>7, <3>2
      <4>2. l[m + 3] = v[m]
        BY <1>3, <4>1
      <4>3. QED
        BY <1>4, <3>2, <4>2 DEF Trims
    <3>3. QED
      BY <3>1, <3>2
  <2>3. ASSUME NEW k \in m + 3 + 1 .. Len(l) PROVE l[k] = CR
    <3>1. PICK j : j = k - 3
      OBVIOUS
    <3>5. Len(l) = n + 3
      BY <1>3
    <3>6. k \in m + 3 + 1 .. n + 3
      BY <3>5
    <3>2. j \in m + 1 .. n /\ j \in 1 .. n /\ j + 3 = k
      BY <1>2, <1>7, <3>1, <3>6
    <3>3. v[j] = CR
      BY <1>1, <1>4, <3>2 DEF Trims
    <3>4. QED
      BY <1>3, <3>2, <3>3
  <2>4. QED
    BY <2>1, <2>2, <2>3 DEF Trims
<1>9. PICK t : t = TrimRight(l)
  OBVIOUS
<1>10. t \in Seq(Chars) /\ Len(t) = m + 3 /\ \A j \in 1 .. m + 3 : t[j] = l[j]
  BY <1>3, <1>8, <1>9, TrimmedAt
<1>11. PICK r : r = Led(x, w)
  OBVIOUS
<1>12. /\ r \in Seq(Chars) /\ Len(r) = m + 3 /\ r[1] = x /\ r[2] = Colon /\ r[3] = Space
       /\ \A j \in 1 .. m : r[j + 3] = w[j]
  BY <1>6, <1>11, LedIs
<1>13. ASSUME NEW i \in 1 .. m + 3 PROVE t[i] = r[i]
  <2>1. CASE i = 1 \/ i = 2 \/ i = 3
    BY <1>3, <1>10, <1>12, <2>1
  <2>2. CASE ~(i = 1 \/ i = 2 \/ i = 3)
    <3>1. PICK j : j = i - 3
      OBVIOUS
    <3>2. j \in 1 .. m /\ j \in 1 .. n /\ j + 3 = i
      BY <1>2, <1>7, <2>2, <3>1
    <3>3. t[i] = l[j + 3] /\ r[i] = w[j]
      BY <1>10, <1>12, <3>2
    <3>4. QED
      BY <1>3, <1>6, <3>2, <3>3
  <2>3. QED
    BY <2>1, <2>2
<1>14. t = r
  BY <1>10, <1>12, <1>13, SeqEqual
<1>15. QED
  BY <1>1, <1>5, <1>6, <1>9, <1>11, <1>14

(* The first colon of a line that begins with a name and one.              *)
LEMMA FirstColon ==
  ASSUME NEW l, NEW A, l \in Seq(A), Len(l) >= 2, l[1] # Colon, l[2] = Colon
  PROVE  /\ Places(l, Colon) # {} /\ Min(Places(l, Colon)) = 2
         /\ Min(Places(l, Colon) \cup {Len(l) + 1}) = 2
<1>1. PICK S, n : S = Places(l, Colon) /\ n = Len(l)
  OBVIOUS
<1>2. n \in Nat /\ n >= 2 /\ DOMAIN l = 1 .. n
  BY <1>1
<1>3. 2 \in S /\ \A i \in S : i \in 1 .. n /\ i # 1
  BY <1>1, <1>2 DEF Places
<1>4. \A x \in S : (\A y \in S : x <= y) <=> x = 2
  BY <1>3
<1>5. Min(S) = 2
  BY <1>3, <1>4 DEF Min
<1>6. \A x \in S \cup {n + 1} : (\A y \in S \cup {n + 1} : x <= y) <=> x = 2
  <2>1. 2 <= n + 1 /\ ~(n + 1 <= 2)
    BY <1>2
  <2>2. ASSUME NEW x \in S \cup {n + 1}, \A y \in S \cup {n + 1} : x <= y PROVE x = 2
    <3>1. x <= 2
      BY <1>3, <2>2
    <3>2. x \in S
      BY <2>1, <3>1
    <3>3. QED
      BY <1>3, <3>1, <3>2
  <2>3. ASSUME NEW y \in S \cup {n + 1} PROVE 2 <= y
    BY <1>3, <2>1
  <2>4. QED
    BY <2>2, <2>3
<1>7. Min(S \cup {n + 1}) = 2
  <2>1. 2 \in S \cup {n + 1}
    BY <1>3
  <2>2. QED
    BY <1>6, <2>1 DEF Min
<1>8. QED
  BY <1>1, <1>3, <1>5, <1>7

LEMMA LedSays ==
  ASSUME NEW x \in Chars, x # Colon, NEW v \in Seq(Chars)
  PROVE  /\ Led(x, v) # <<>> /\ Head(Led(x, v)) = x
         /\ Name(Led(x, v)) = <<x>> /\ Value(Led(x, v)) = v
<1>1. PICK l, n : l = Led(x, v) /\ n = Len(v)
  OBVIOUS
<1>2. n \in Nat
  BY <1>1
<1>3. /\ l \in Seq(Chars) /\ Len(l) = n + 3 /\ l[1] = x /\ l[2] = Colon /\ l[3] = Space
      /\ \A j \in 1 .. n : l[j + 3] = v[j]
  BY <1>1, LedIs
<1>4. l # <<>> /\ Head(l) = x
  <2>1. Len(l) # 0
    BY <1>2, <1>3
  <2>2. l # <<>>
    BY <2>1
  <2>3. QED
    BY <1>3, <2>2
<1>5. Places(l, Colon) # {} /\ Min(Places(l, Colon)) = 2 /\ Min(Places(l, Colon) \cup {Len(l) + 1}) = 2
  <2>1. Len(l) >= 2
    BY <1>2, <1>3
  <2>2. QED
    BY <1>3, <2>1, FirstColon
<1>6. \A i \in 1 .. n + 3 : l[i] \in Chars
  BY <1>3
<1>7. Name(l) = <<x>>
  <2>1. Name(l) = SubSeq(l, 1, 1)
    BY <1>5 DEF Name, Colon
  <2>2. \A i \in 1 .. 1 : l[i] \in Chars
    BY <1>3
  <2>3. PICK r : r = SubSeq(l, 1, 1)
    OBVIOUS
  <2>4. r \in Seq(Chars) /\ Len(r) = 1 /\ r[1] = l[1]
    <3>1. /\ SubSeq(l, 1, 1) \in Seq(Chars) /\ Len(SubSeq(l, 1, 1)) = IF 1 <= 1 THEN 1 - 1 + 1 ELSE 0
          /\ \A i \in 1 .. 1 - 1 + 1 : SubSeq(l, 1, 1)[i] = l[1 + i - 1]
      BY <2>2, SubSeqProperties
    <3>2. QED
      BY <2>3, <3>1
  <2>5. <<x>> \in Seq(Chars) /\ Len(<<x>>) = 1 /\ <<x>>[1] = x /\ \A i \in 1 .. 1 : i = 1
    OBVIOUS
  <2>6. r = <<x>>
    BY <1>3, <2>4, <2>5, SeqEqual
  <2>7. QED
    BY <2>1, <2>3, <2>6
<1>8. Value(l) = v
  <2>1. PICK r : r = SubSeq(l, 3, n + 3)
    OBVIOUS
  <2>2. r \in Seq(Chars) /\ Len(r) = n + 1 /\ \A i \in 1 .. n + 1 : r[i] = l[i + 2]
    <3>1. \A i \in 3 .. n + 3 : l[i] \in Chars
      BY <1>6
    <3>2. /\ SubSeq(l, 3, n + 3) \in Seq(Chars) /\ Len(SubSeq(l, 3, n + 3)) = IF 3 <= n + 3 THEN n + 3 - 3 + 1 ELSE 0
          /\ \A i \in 1 .. n + 3 - 3 + 1 : SubSeq(l, 3, n + 3)[i] = l[3 + i - 1]
      BY <1>2, <3>1, SubSeqProperties
    <3>3. 3 <= n + 3 /\ n + 3 - 3 + 1 = n + 1 /\ \A i \in 1 .. n + 1 : 3 + i - 1 = i + 2
      BY <1>2
    <3>4. QED
      BY <2>1, <3>2, <3>3
  <2>3. r # <<>> /\ Head(r) = Space
    <3>1. Len(r) # 0 /\ 1 \in 1 .. n + 1 /\ 1 + 2 = 3
      BY <1>2, <2>2
    <3>2. r # <<>>
      BY <3>1
    <3>3. r[1] = Space
      BY <1>3, <2>2, <3>1
    <3>4. QED
      BY <3>2, <3>3
  <2>4. Value(l) = Tail(r)
    <3>1. 2 + 1 = 3
      OBVIOUS
    <3>2. QED
      BY <1>3, <1>5, <2>1, <2>3, <3>1 DEF Value, Colon, Space
  <2>5. PICK q : q = Tail(r)
    OBVIOUS
  <2>6. q \in Seq(Chars) /\ Len(q) = Len(r) - 1 /\ \A i \in 1 .. Len(q) : q[i] = r[i + 1]
    BY <2>2, <2>3, <2>5, HeadTailProperties
  <2>7. Len(q) = n
    BY <1>2, <2>2, <2>6
  <2>8. ASSUME NEW i \in 1 .. n PROVE q[i] = v[i]
    <3>1. i + 1 \in 1 .. n + 1 /\ i + 1 + 2 = i + 3
      BY <1>2
    <3>2. QED
      BY <1>3, <2>2, <2>6, <2>7, <3>1
  <2>9. q = v
    BY <1>1, <2>6, <2>7, <2>8, SeqEqual
  <2>10. QED
    BY <2>4, <2>5, <2>9
<1>9. QED
  BY <1>1, <1>4, <1>7, <1>8

(* The reader between the lines of an event.                               *)
Amid(event, lines) == [event |-> event, lines |-> lines, events |-> <<>>]

LEMMA ReadsEventField ==
  ASSUME NEW u, NEW event, NEW lines, Reads(u, Amid(event, lines)), NEW v, Unbroken(v)
  PROVE  Reads(u \o Field("event", v), Amid(TrimRight(v), lines))
<1>1. "event" \in Chars /\ "event" # LF /\ "event" # Colon
  BY CharsAre
<1>2. v \in Seq(Chars)
  BY DEF Unbroken
<1>3. Unbroken(Led("event", v))
  BY <1>1, LedUnbroken
<1>4. Reads(u \o (Led("event", v) \o <<LF>>), ReadLine(Amid(event, lines), TrimRight(Led("event", v))))
  BY <1>3, ReadsALine
<1>5. PICK l, w : w = TrimRight(v) /\ l = Led("event", w)
  OBVIOUS
<1>6. TrimRight(Led("event", v)) = l /\ w \in Seq(Chars)
  BY <1>1, <1>2, <1>5, LedTrims
<1>7. l # <<>> /\ Head(l) = "event" /\ Name(l) = <<"event">> /\ Value(l) = w
  BY <1>1, <1>5, <1>6, LedSays
<1>8. ReadLine(Amid(event, lines), l) = Amid(w, lines)
  BY <1>1, <1>7 DEF ReadLine, Amid, Colon
<1>9. Field("event", v) = Led("event", v) \o <<LF>>
  BY DEF Field, Led, Colon, Space
<1>10. QED
  BY <1>4, <1>5, <1>6, <1>8, <1>9

LEMMA ReadsDataField ==
  ASSUME NEW u, NEW event, NEW lines, Reads(u, Amid(event, lines)), NEW v, Unbroken(v)
  PROVE  Reads(u \o Field("data", v), Amid(event, Append(lines, TrimRight(v))))
<1>1. "data" \in Chars /\ "data" # LF /\ "data" # Colon
  BY CharsAre
<1>2. v \in Seq(Chars)
  BY DEF Unbroken
<1>3. Unbroken(Led("data", v))
  BY <1>1, LedUnbroken
<1>4. Reads(u \o (Led("data", v) \o <<LF>>), ReadLine(Amid(event, lines), TrimRight(Led("data", v))))
  BY <1>3, ReadsALine
<1>5. PICK l, w : w = TrimRight(v) /\ l = Led("data", w)
  OBVIOUS
<1>6. TrimRight(Led("data", v)) = l /\ w \in Seq(Chars)
  BY <1>1, <1>2, <1>5, LedTrims
<1>7. l # <<>> /\ Head(l) = "data" /\ Name(l) = <<"data">> /\ Value(l) = w
  BY <1>1, <1>5, <1>6, LedSays
<1>8. <<"data">> # <<"event">>
  BY <<"data">>[1] = "data", <<"event">>[1] = "event"
<1>9. ReadLine(Amid(event, lines), l) = Amid(event, Append(lines, w))
  BY <1>1, <1>7, <1>8 DEF ReadLine, Amid, Colon
<1>10. Field("data", v) = Led("data", v) \o <<LF>>
  BY DEF Field, Led, Colon, Space
<1>11. QED
  BY <1>4, <1>5, <1>6, <1>9, <1>10

(* An event ends at an empty line; a connection begins with a comment, and *)
(* no data is one empty line of it.                                        *)
LEMMA ReadsEnd ==
  ASSUME NEW u, NEW event, NEW lines, Reads(u, Amid(event, lines)), lines # <<>>
  PROVE  readSSEEvents(u \o <<LF>>) = <<[event |-> event, data |-> JoinedLines(lines)]>>
<1>1. PICK w, l : w = <<>> /\ l = <<LF>>
  OBVIOUS
<1>2. LF \in Chars
  BY CharsAre
<1>3. w \in Seq(Chars) /\ Len(w) = 0 /\ l \in Seq(Chars)
  BY <1>1, <1>2
<1>4. Unbroken(w) /\ Trims(w, 0)
  BY <1>3 DEF Unbroken, Trims
<1>5. TrimRight(w) = <<>>
  <2>1. TrimRight(w) = SubSeq(w, 1, 0)
    BY <1>3, <1>4, TrimmedAt
  <2>2. QED
    BY <2>1, SubSeqEmpty
<1>6. Reads(u \o (w \o l), ReadLine(Amid(event, lines), <<>>))
  BY <1>1, <1>4, <1>5, ReadsALine
<1>7. w \o l = l
  BY <1>1, <1>3, ConcatEmptySeq
<1>8. readSSEEvents(u \o l) = ReadLine(Amid(event, lines), <<>>).events
  BY <1>6, <1>7, ReadsAll
<1>9. ReadLine(Amid(event, lines), <<>>).events = Append(<<>>, [event |-> event, data |-> JoinedLines(lines)])
  BY DEF ReadLine, Amid, NothingYet
<1>10. PICK r : r = [event |-> event, data |-> JoinedLines(lines)]
  OBVIOUS
<1>11. Append(<<>>, r) = <<r>>
  OBVIOUS
<1>12. QED
  BY <1>1, <1>8, <1>9, <1>10, <1>11

LEMMA GreetingRead == Greeting \in Seq(Chars) /\ Reads(Greeting, Amid(<<>>, <<>>))
<1>1. PICK w, l, e, c : w = <<Colon, Space, c>> /\ l = <<LF>> /\ e = <<>> /\ c = "connected"
  <2>1. PICK c : c = "connected"
    OBVIOUS
  <2>2. QED
    BY <2>1
<1>2. LF \in Chars /\ Colon \in Chars /\ Space \in Chars /\ c \in Chars
  BY <1>1, CharsAre
<1>3. Colon # LF /\ Space # LF /\ c # LF /\ c # CR
  BY <1>1, CharsAre
<1>4. w \in Seq(Chars) /\ Len(w) = 3 /\ w[1] = Colon /\ w[2] = Space /\ w[3] = c
  BY <1>1, <1>2
<1>5. l \in Seq(Chars) /\ Len(l) = 1 /\ l[1] = LF /\ e \in Seq(Chars) /\ Len(e) = 0
  BY <1>1, <1>2
<1>6. \A j \in 1 .. 3 : j = 1 \/ j = 2 \/ j = 3
  OBVIOUS
<1>7. Unbroken(w) /\ Trims(w, 3)
  <2>1. 3 \in 0 .. 3 /\ \A k \in 3 + 1 .. 3 : FALSE
    OBVIOUS
  <2>2. Trims(w, 3)
    BY <1>3, <1>4, <2>1 DEF Trims
  <2>3. \A j \in 1 .. Len(w) : w[j] # LF
    BY <1>3, <1>4, <1>6
  <2>4. QED
    BY <1>4, <2>2, <2>3 DEF Unbroken
<1>8. Unbroken(e) /\ Trims(e, 0)
  BY <1>5 DEF Unbroken, Trims
<1>9. TrimRight(w) = w
  <2>1. TrimRight(w) = SubSeq(w, 1, 3)
    BY <1>4, <1>7, TrimmedAt
  <2>2. SubSeq(w, 1, Len(w)) = w
    BY <1>4, SubSeqFull
  <2>3. QED
    BY <1>4, <2>1, <2>2
<1>10. TrimRight(e) = <<>>
  <2>1. TrimRight(e) = SubSeq(e, 1, 0)
    BY <1>5, <1>8, TrimmedAt
  <2>2. QED
    BY <2>1, SubSeqEmpty
<1>11. Reads(<<>> \o (w \o l), ReadLine(NothingYet, w))
  BY <1>1, <1>7, <1>9, ReadsNothing, ReadsALine
<1>12. ReadLine(NothingYet, w) = NothingYet
  <2>1. w # <<>>
    BY <1>4
  <2>2. Head(w) = ":"
    BY <1>4, <2>1 DEF Colon
  <2>3. QED
    BY <2>1, <2>2 DEF ReadLine
<1>13. PICK x : x = w \o l
  OBVIOUS
<1>14. x \in Seq(Chars) /\ <<>> \o x = x
  <2>1. x \in Seq(Chars)
    BY <1>4, <1>5, <1>13, ConcatProperties
  <2>2. QED
    BY <2>1, ConcatEmptySeq
<1>15. Reads(x, NothingYet)
  BY <1>11, <1>12, <1>13, <1>14
<1>16. Reads(x \o (e \o l), ReadLine(NothingYet, <<>>))
  BY <1>1, <1>8, <1>10, <1>15, ReadsALine
<1>17. ReadLine(NothingYet, <<>>) = NothingYet /\ NothingYet = Amid(<<>>, <<>>)
  BY DEF ReadLine, NothingYet, Amid
<1>18. e \o l = l
  BY <1>1, <1>5, ConcatEmptySeq
<1>19. x \o l = Greeting /\ Greeting \in Seq(Chars)
  <2>1. PICK g : g = <<Colon, Space, c, LF, LF>>
    OBVIOUS
  <2>2. /\ g \in Seq(Chars) /\ Len(g) = 5
        /\ g[1] = Colon /\ g[2] = Space /\ g[3] = c /\ g[4] = LF /\ g[5] = LF
    BY <1>2, <2>1
  <2>3. Len(x) = 4 /\ \A i \in 1 .. 4 : x[i] = IF i <= 3 THEN w[i] ELSE l[i - 3]
    <3>1. Len(w \o l) = Len(w) + Len(l)
      BY <1>4, <1>5, ConcatProperties
    <3>2. \A i \in 1 .. Len(w) + Len(l) : (w \o l)[i] = IF i <= Len(w) THEN w[i] ELSE l[i - Len(w)]
      BY <1>4, <1>5, ConcatProperties
    <3>3. Len(w) + Len(l) = 4
      BY <1>4, <1>5
    <3>4. QED
      BY <1>4, <1>13, <3>1, <3>2, <3>3
  <2>4. PICK y : y = x \o l
    OBVIOUS
  <2>5. y \in Seq(Chars) /\ Len(y) = 5 /\ \A i \in 1 .. 5 : y[i] = IF i <= 4 THEN x[i] ELSE l[i - 4]
    <3>1. y \in Seq(Chars) /\ Len(y) = Len(x) + Len(l)
      BY <1>5, <1>14, <2>4, ConcatProperties
    <3>2. \A i \in 1 .. Len(x) + Len(l) : y[i] = IF i <= Len(x) THEN x[i] ELSE l[i - Len(x)]
      BY <1>5, <1>14, <2>4, ConcatProperties
    <3>3. Len(x) + Len(l) = 5
      BY <1>5, <2>3
    <3>4. QED
      BY <2>3, <3>1, <3>2, <3>3
  <2>6. x[1] = Colon /\ x[2] = Space /\ x[3] = c /\ x[4] = LF
    <3>1. 1 \in 1 .. 4 /\ 2 \in 1 .. 4 /\ 3 \in 1 .. 4 /\ 4 \in 1 .. 4 /\ 1 <= 3 /\ 2 <= 3 /\ 3 <= 3 /\ ~(4 <= 3) /\ 4 - 3 = 1
      OBVIOUS
    <3>2. QED
      BY <1>4, <1>5, <2>3, <3>1
  <2>7. y[1] = Colon /\ y[2] = Space /\ y[3] = c /\ y[4] = LF /\ y[5] = LF
    <3>1. /\ 1 \in 1 .. 5 /\ 2 \in 1 .. 5 /\ 3 \in 1 .. 5 /\ 4 \in 1 .. 5 /\ 5 \in 1 .. 5
          /\ 1 <= 4 /\ 2 <= 4 /\ 3 <= 4 /\ 4 <= 4 /\ ~(5 <= 4) /\ 5 - 4 = 1
      OBVIOUS
    <3>2. QED
      BY <1>5, <2>5, <2>6, <3>1
  <2>8. \A i \in 1 .. 5 : y[i] = g[i]
    <3>1. \A i \in 1 .. 5 : i = 1 \/ i = 2 \/ i = 3 \/ i = 4 \/ i = 5
      OBVIOUS
    <3>2. QED
      BY <2>2, <2>7, <3>1
  <2>9. y = g
    BY <2>2, <2>5, <2>8, SeqEqual
  <2>10. Greeting = g
    BY <1>1, <2>1 DEF Greeting, Colon, Space
  <2>11. QED
    BY <2>2, <2>4, <2>9, <2>10
<1>20. QED
  BY <1>16, <1>17, <1>18, <1>19

LEMMA ReadsNoData ==
  ASSUME NEW u, NEW event, NEW lines, Reads(u, Amid(event, lines))
  PROVE  /\ <<"data", ":", LF>> \in Seq(Chars)
         /\ Reads(u \o <<"data", ":", LF>>, Amid(event, Append(lines, <<>>)))
<1>1. PICK c : c = "data"
  OBVIOUS
<1>2. PICK w, l, x : w = <<c, Colon>> /\ l = <<LF>> /\ x = <<c, Colon, LF>>
  OBVIOUS
<1>3. LF \in Chars /\ Colon \in Chars /\ c \in Chars
  BY <1>1, CharsAre
<1>4. Colon # LF /\ Colon # CR /\ c # LF /\ c # Colon
  BY <1>1, CharsAre
<1>5. w \in Seq(Chars) /\ Len(w) = 2 /\ w[1] = c /\ w[2] = Colon
  BY <1>2, <1>3
<1>6. l \in Seq(Chars) /\ Len(l) = 1 /\ l[1] = LF
  BY <1>2, <1>3
<1>7. x \in Seq(Chars) /\ Len(x) = 3 /\ x[1] = c /\ x[2] = Colon /\ x[3] = LF
  BY <1>2, <1>3
<1>8. Unbroken(w) /\ Trims(w, 2)
  <2>1. 2 \in 0 .. 2 /\ (\A k \in 2 + 1 .. 2 : FALSE) /\ \A j \in 1 .. 2 : j = 1 \/ j = 2
    OBVIOUS
  <2>2. QED
    BY <1>4, <1>5, <2>1 DEF Trims, Unbroken
<1>9. TrimRight(w) = w
  <2>1. TrimRight(w) = SubSeq(w, 1, 2)
    BY <1>5, <1>8, TrimmedAt
  <2>2. SubSeq(w, 1, Len(w)) = w
    BY <1>5, SubSeqFull
  <2>3. QED
    BY <1>5, <2>1, <2>2
<1>10. Reads(u \o (w \o l), ReadLine(Amid(event, lines), w))
  BY <1>2, <1>8, <1>9, ReadsALine
<1>11. w # <<>> /\ Head(w) = c
  <2>1. w # <<>>
    BY <1>5
  <2>2. QED
    BY <1>5, <2>1
<1>12. Places(w, Colon) # {} /\ Min(Places(w, Colon)) = 2 /\ Min(Places(w, Colon) \cup {Len(w) + 1}) = 2
  <2>1. w \in Seq(Chars) /\ Len(w) >= 2
    BY <1>5
  <2>2. w[1] # Colon /\ w[2] = Colon
    BY <1>4, <1>5
  <2>3. QED
    BY <2>1, <2>2, FirstColon
<1>13. Name(w) = <<c>>
  <2>1. Name(w) = SubSeq(w, 1, 2 - 1)
    BY <1>12 DEF Name, Colon
  <2>2. PICK r, q : r = SubSeq(w, 1, 1) /\ q = <<c>>
    OBVIOUS
  <2>3. \A i \in 1 .. 1 : w[i] \in Chars
    BY <1>3, <1>5
  <2>4. r \in Seq(Chars) /\ Len(r) = 1 /\ r[1] = w[1]
    <3>1. /\ SubSeq(w, 1, 1) \in Seq(Chars) /\ Len(SubSeq(w, 1, 1)) = IF 1 <= 1 THEN 1 - 1 + 1 ELSE 0
          /\ \A i \in 1 .. 1 - 1 + 1 : SubSeq(w, 1, 1)[i] = w[1 + i - 1]
      BY <2>3, SubSeqProperties
    <3>2. QED
      BY <2>2, <3>1
  <2>5. q \in Seq(Chars) /\ Len(q) = 1 /\ q[1] = c /\ \A i \in 1 .. 1 : i = 1
    BY <1>3, <2>2
  <2>6. r = q
    BY <1>5, <2>4, <2>5, SeqEqual
  <2>7. 2 - 1 = 1
    OBVIOUS
  <2>8. QED
    BY <2>1, <2>2, <2>6, <2>7
<1>14. Value(w) = <<>>
  <2>1. SubSeq(w, 2 + 1, Len(w)) = <<>>
    BY <1>5, SubSeqEmpty
  <2>2. QED
    BY <1>12, <2>1 DEF Value, Colon
<1>15. <<"data">> # <<"event">>
  BY <<"data">>[1] = "data", <<"event">>[1] = "event"
<1>16. ReadLine(Amid(event, lines), w) = Amid(event, Append(lines, <<>>))
  BY <1>1, <1>4, <1>11, <1>13, <1>14, <1>15 DEF ReadLine, Amid, Colon
<1>17. w \o l = x
  <2>1. PICK y : y = w \o l
    OBVIOUS
  <2>2. y \in Seq(Chars) /\ Len(y) = 3 /\ \A i \in 1 .. 3 : y[i] = IF i <= 2 THEN w[i] ELSE l[i - 2]
    <3>1. y \in Seq(Chars) /\ Len(y) = Len(w) + Len(l)
      BY <1>5, <1>6, <2>1, ConcatProperties
    <3>2. \A i \in 1 .. Len(w) + Len(l) : y[i] = IF i <= Len(w) THEN w[i] ELSE l[i - Len(w)]
      BY <1>5, <1>6, <2>1, ConcatProperties
    <3>3. Len(w) + Len(l) = 3
      BY <1>5, <1>6
    <3>4. QED
      BY <1>5, <3>1, <3>2, <3>3
  <2>3. y[1] = c /\ y[2] = Colon /\ y[3] = LF
    <3>1. 1 \in 1 .. 3 /\ 2 \in 1 .. 3 /\ 3 \in 1 .. 3 /\ 1 <= 2 /\ 2 <= 2 /\ ~(3 <= 2) /\ 3 - 2 = 1
      OBVIOUS
    <3>2. QED
      BY <1>5, <1>6, <2>2, <3>1
  <2>4. \A i \in 1 .. 3 : y[i] = x[i]
    <3>1. \A i \in 1 .. 3 : i = 1 \/ i = 2 \/ i = 3
      OBVIOUS
    <3>2. QED
      BY <1>7, <2>3, <3>1
  <2>5. y = x
    BY <1>7, <2>2, <2>4, SeqEqual
  <2>6. QED
    BY <2>1, <2>5
<1>18. x = <<"data", ":", LF>>
  BY <1>1, <1>2 DEF Colon
<1>19. QED
  BY <1>7, <1>10, <1>16, <1>17, <1>18

-----------------------------------------------------------------------------
(* Texts one behind the other.                                             *)
Plus(s, e) == Append(s, e)
Cat(s, t) == s \o t

JoinTo(f, n, s) == f = [i \in 1 .. n |-> IF i = 1 THEN s[i] ELSE f[i - 1] \o s[i]]

LEMMA JoinGrows ==
  ASSUME NEW n \in Nat, n # 0, NEW s, NEW f, JoinTo(f, n, s)
  PROVE  \E g : JoinTo(g, n + 1, s)
<1> DEFINE g == [i \in 1 .. n + 1 |-> IF i = n + 1 THEN f[n] \o s[n + 1] ELSE f[i]]
<1>1. \A i \in 1 .. n : f[i] = IF i = 1 THEN s[i] ELSE f[i - 1] \o s[i]
  BY DEF JoinTo
<1>2. \A i \in 1 .. n : i # n + 1 /\ i \in 1 .. n + 1 /\ g[i] = f[i]
  OBVIOUS
<1>3. ASSUME NEW i \in 1 .. n + 1
      PROVE  g[i] = IF i = 1 THEN s[i] ELSE g[i - 1] \o s[i]
  <2>1. CASE i = n + 1
    <3>1. i - 1 = n /\ i # 1 /\ n \in 1 .. n
      BY <2>1
    <3>2. g[i - 1] = f[n] /\ g[i] = f[n] \o s[i]
      BY <1>2, <2>1, <3>1
    <3>3. QED
      BY <3>1, <3>2
  <2>2. CASE i # n + 1
    <3>1. i \in 1 .. n /\ (i # 1 => i - 1 \in 1 .. n)
      BY <2>2
    <3>2. QED
      BY <1>1, <1>2, <3>1
  <2>3. QED
    BY <2>1, <2>2
<1>4. JoinTo(g, n + 1, s)
  BY <1>3 DEF JoinTo
<1>5. QED
  BY <1>4

LEMMA JoinExists ==
  ASSUME NEW s, NEW n \in Nat, n # 0
  PROVE  \E f : JoinTo(f, n, s)
<1> SUFFICES ASSUME ~(\E f : JoinTo(f, n, s)) PROVE FALSE
  OBVIOUS
<1>1. PICK bad : bad = {k \in Nat : k # 0 /\ ~(\E f : JoinTo(f, k, s))}
  OBVIOUS
<1>2. PICK m \in bad : \A k \in bad : m <= k
  BY <1>1, LeastNumber
<1>3. m # 1
  <2>1. PICK f : f = [i \in 1 .. 1 |-> s[1]]
    OBVIOUS
  <2>2. \A i \in 1 .. 1 : i = 1
    OBVIOUS
  <2>3. f = [i \in 1 .. 1 |-> IF i = 1 THEN s[i] ELSE f[i - 1] \o s[i]]
    BY <2>1, <2>2
  <2>4. QED
    BY <1>1, <1>2, <2>3 DEF JoinTo
<1>4. m \in Nat /\ m - 1 \in Nat /\ m - 1 # 0 /\ ~(m <= m - 1) /\ (m - 1) + 1 = m
  BY <1>1, <1>2, <1>3
<1>5. PICK f : JoinTo(f, m - 1, s)
  BY <1>1, <1>2, <1>4
<1>6. \E g : JoinTo(g, (m - 1) + 1, s)
  BY <1>4, <1>5, JoinGrows
<1>7. QED
  BY <1>1, <1>2, <1>4, <1>6

LEMMA JoinIs ==
  ASSUME NEW s, Len(s) \in Nat, Len(s) # 0
  PROVE  \E f : /\ FlattenSeq(s) = f[Len(s)] /\ f[1] = s[1]
                /\ \A i \in 2 .. Len(s) : f[i] = f[i - 1] \o s[i]
<1> DEFINE f == CHOOSE f : f = [i \in 1 .. Len(s) |-> IF i = 1 THEN s[i] ELSE f[i - 1] \o s[i]]
<1>1. \E g : g = [i \in 1 .. Len(s) |-> IF i = 1 THEN s[i] ELSE g[i - 1] \o s[i]]
  <2>1. PICK n : n = Len(s)
    OBVIOUS
  <2>2. \E g : JoinTo(g, n, s)
    BY <2>1, JoinExists
  <2>3. QED
    BY <2>1, <2>2 DEF JoinTo
<1>2. f = [i \in 1 .. Len(s) |-> IF i = 1 THEN s[i] ELSE f[i - 1] \o s[i]]
  BY <1>1
<1>3. FlattenSeq(s) = f[Len(s)]
  BY DEF FlattenSeq
<1> HIDE DEF f
<1>4. f[1] = s[1]
  <2>1. 1 \in 1 .. Len(s)
    OBVIOUS
  <2>2. QED
    BY <1>2, <2>1
<1>5. ASSUME NEW i \in 2 .. Len(s) PROVE f[i] = f[i - 1] \o s[i]
  <2>1. i \in 1 .. Len(s) /\ i # 1
    OBVIOUS
  <2>2. QED
    BY <1>2, <2>1
<1>6. QED
  BY <1>3, <1>4, <1>5

LEMMA PrefixMore ==
  ASSUME NEW A, NEW s \in Seq(A), NEW k \in 1 .. Len(s)
  PROVE  SubSeq(s, 1, k) = Plus(SubSeq(s, 1, k - 1), s[k])
<1>1. PICK r, q, e : r = SubSeq(s, 1, k - 1) /\ q = SubSeq(s, 1, k) /\ e = s[k]
  OBVIOUS
<1>2. \A j \in 0 .. Len(s) : /\ SubSeq(s, 1, j) \in Seq(A) /\ Len(SubSeq(s, 1, j)) = j
                             /\ \A i \in 1 .. j : SubSeq(s, 1, j)[i] = s[i]
  <2> SUFFICES ASSUME NEW j \in 0 .. Len(s)
               PROVE  /\ SubSeq(s, 1, j) \in Seq(A) /\ Len(SubSeq(s, 1, j)) = j
                      /\ \A i \in 1 .. j : SubSeq(s, 1, j)[i] = s[i]
    OBVIOUS
  <2>1. \A i \in 1 .. j : s[i] \in A
    OBVIOUS
  <2>2. /\ SubSeq(s, 1, j) \in Seq(A) /\ Len(SubSeq(s, 1, j)) = IF 1 <= j THEN j - 1 + 1 ELSE 0
        /\ \A i \in 1 .. j - 1 + 1 : SubSeq(s, 1, j)[i] = s[1 + i - 1]
    BY <2>1, SubSeqProperties
  <2>3. j - 1 + 1 = j /\ \A i \in 1 .. j : 1 + i - 1 = i
    OBVIOUS
  <2>4. QED
    BY <2>2, <2>3
<1>3. k \in 0 .. Len(s) /\ k - 1 \in 0 .. Len(s) /\ k - 1 + 1 = k /\ \A i \in 1 .. k : i = k \/ i \in 1 .. k - 1
  OBVIOUS
<1>4. r \in Seq(A) /\ Len(r) = k - 1 /\ \A i \in 1 .. k - 1 : r[i] = s[i]
  BY <1>1, <1>2, <1>3
<1>5. q \in Seq(A) /\ Len(q) = k /\ \A i \in 1 .. k : q[i] = s[i]
  BY <1>1, <1>2, <1>3
<1>6. e \in A
  BY <1>1
<1>7. PICK p : p = Append(r, e)
  OBVIOUS
<1>8. p \in Seq(A) /\ Len(p) = k /\ p[k] = e /\ \A i \in 1 .. k - 1 : p[i] = r[i]
  BY <1>3, <1>4, <1>6, <1>7, AppendProperties
<1>9. \A i \in 1 .. k : p[i] = q[i]
  <2> SUFFICES ASSUME NEW i \in 1 .. k PROVE p[i] = q[i]
    OBVIOUS
  <2>1. CASE i = k
    BY <1>1, <1>5, <1>8, <2>1
  <2>2. CASE i \in 1 .. k - 1
    BY <1>4, <1>5, <1>8, <2>2
  <2>3. QED
    BY <1>3, <2>1, <2>2
<1>10. p = q
  BY <1>5, <1>8, <1>9, SeqEqual
<1>11. QED
  BY <1>1, <1>7, <1>10 DEF Plus

-----------------------------------------------------------------------------
(* What is kept of a text, a character more.                               *)

KeptTo(f, n, text) ==
  f = [i \in 0 .. n |-> IF i = 0 THEN <<>>
                        ELSE IF text[i] = CR /\ EndsALine(text, i) THEN f[i - 1]
                        ELSE Append(f[i - 1], text[i])]

LEMMA KeptGrows ==
  ASSUME NEW n \in Nat, NEW text, NEW f, KeptTo(f, n, text)
  PROVE  \E g : KeptTo(g, n + 1, text)
<1> DEFINE
      Step(kept, i) == IF i = 0 THEN <<>> ELSE IF text[i] = CR /\ EndsALine(text, i) THEN kept
                       ELSE Append(kept, text[i])
      g == [i \in 0 .. n + 1 |-> IF i = n + 1 THEN Step(f[n], i) ELSE f[i]]
<1>1. \A i \in 0 .. n : f[i] = Step(f[i - 1], i)
  BY DEF KeptTo
<1>2. \A i \in 0 .. n : i # n + 1 /\ i \in 0 .. n + 1 /\ g[i] = f[i]
  OBVIOUS
<1>3. ASSUME NEW i \in 0 .. n + 1
      PROVE  g[i] = Step(g[i - 1], i)
  <2>1. CASE i = n + 1
    <3>1. i - 1 = n /\ n \in 0 .. n
      BY <2>1
    <3>2. g[i - 1] = f[n] /\ g[i] = Step(f[n], i)
      BY <1>2, <2>1, <3>1
    <3>3. QED
      BY <3>2
  <2>2. CASE i # n + 1 /\ i # 0
    <3>1. i \in 0 .. n /\ i - 1 \in 0 .. n
      BY <2>2
    <3>2. QED
      BY <1>1, <1>2, <3>1
  <2>3. CASE i # n + 1 /\ i = 0
    <3>1. 0 \in 0 .. n
      OBVIOUS
    <3>2. g[0] = f[0] /\ f[0] = <<>>
      BY <1>1, <1>2, <3>1
    <3>3. QED
      BY <2>3, <3>2
  <2>4. QED
    BY <2>1, <2>2, <2>3
<1>4. KeptTo(g, n + 1, text)
  BY <1>3 DEF KeptTo
<1>5. QED
  BY <1>4

LEMMA KeptExists ==
  ASSUME NEW text, NEW n \in Nat
  PROVE  \E f : KeptTo(f, n, text)
<1> SUFFICES ASSUME ~(\E f : KeptTo(f, n, text)) PROVE FALSE
  OBVIOUS
<1>1. PICK bad : bad = {k \in Nat : ~(\E f : KeptTo(f, k, text))}
  OBVIOUS
<1>2. PICK m \in bad : \A k \in bad : m <= k
  BY <1>1, LeastNumber
<1>3. m # 0
  <2>1. PICK f : f = [i \in 0 .. 0 |-> <<>>]
    OBVIOUS
  <2>2. \A i \in 0 .. 0 : i = 0
    OBVIOUS
  <2>3. KeptTo(f, 0, text)
    BY <2>1, <2>2 DEF KeptTo
  <2>4. QED
    BY <1>1, <1>2, <2>3
<1>4. m \in Nat /\ m - 1 \in Nat /\ ~(m <= m - 1) /\ (m - 1) + 1 = m
  BY <1>1, <1>2, <1>3
<1>5. PICK f : KeptTo(f, m - 1, text)
  BY <1>1, <1>2, <1>4
<1>6. \E g : KeptTo(g, (m - 1) + 1, text)
  BY <1>4, <1>5, KeptGrows
<1>7. QED
  BY <1>1, <1>2, <1>4, <1>6

LEMMA KeptIs ==
  ASSUME NEW text, Len(text) \in Nat
  PROVE  \E f : /\ Unreturned(text) = f[Len(text)] /\ f[0] = <<>>
                /\ \A i \in 1 .. Len(text) :
                     f[i] = IF text[i] = CR /\ EndsALine(text, i) THEN f[i - 1] ELSE Append(f[i - 1], text[i])
<1> DEFINE
      f == CHOOSE f : f = [i \in 0 .. Len(text) |->
                             IF i = 0 THEN <<>>
                             ELSE IF text[i] = CR /\ EndsALine(text, i) THEN f[i - 1]
                             ELSE Append(f[i - 1], text[i])]
<1>1. \E g : g = [i \in 0 .. Len(text) |->
                    IF i = 0 THEN <<>>
                    ELSE IF text[i] = CR /\ EndsALine(text, i) THEN g[i - 1]
                    ELSE Append(g[i - 1], text[i])]
  <2>1. PICK n : n = Len(text)
    OBVIOUS
  <2>2. \E g : KeptTo(g, n, text)
    BY <2>1, KeptExists
  <2>3. QED
    BY <2>1, <2>2, Zenon DEF KeptTo
<1>2. f = [i \in 0 .. Len(text) |->
             IF i = 0 THEN <<>>
             ELSE IF text[i] = CR /\ EndsALine(text, i) THEN f[i - 1]
             ELSE Append(f[i - 1], text[i])]
  BY <1>1, Zenon
<1>3. Unreturned(text) = f[Len(text)]
  BY Zenon DEF Unreturned
<1> HIDE DEF f
<1>4. f[0] = <<>>
  <2>1. 0 \in 0 .. Len(text)
    OBVIOUS
  <2>2. QED
    BY <1>2, <2>1
<1>5. ASSUME NEW i \in 1 .. Len(text)
      PROVE  f[i] = IF text[i] = CR /\ EndsALine(text, i) THEN f[i - 1] ELSE Append(f[i - 1], text[i])
  <2>1. i \in 0 .. Len(text) /\ i # 0
    OBVIOUS
  <2>2. QED
    BY <1>2, <2>1
<1>6. QED
  BY <1>3, <1>4, <1>5

Kept(f, text) ==
  /\ f[0] = <<>>
  /\ \A i \in 1 .. Len(text) :
       f[i] = IF text[i] = CR /\ EndsALine(text, i) THEN f[i - 1] ELSE Plus(f[i - 1], text[i])

(* The line w lies behind place a of text.                                 *)
Behind(w, text, a) ==
  /\ Unbroken(w) /\ a \in Nat /\ a + Len(w) <= Len(text)
  /\ \A j \in 1 .. Len(w) : text[a + j] = w[j]
  /\ a + Len(w) = Len(text) \/ text[a + Len(w) + 1] = LF

LEMMA ConcatAppend ==
  ASSUME NEW A, NEW x \in Seq(A), NEW y \in Seq(A), NEW e \in A
  PROVE  Plus(Cat(x, y), e) = Cat(x, Plus(y, e))
<1>1. PICK l : l = <<e>>
  OBVIOUS
<1>2. l \in Seq(A)
  BY <1>1
<1>3. Append(y, e) = y \o l
  BY <1>1, AppendIsConcat
<1>4. x \o y \in Seq(A)
  BY ConcatProperties
<1>5. Append(x \o y, e) = (x \o y) \o l
  BY <1>1, <1>4, AppendIsConcat
<1>6. QED
  BY <1>2, <1>3, <1>5, ConcatAssociative DEF Plus, Cat

(* Of a line the carriage returns at its end are closing, and no others.   *)
LEMMA ClosingIs ==
  ASSUME NEW text, Len(text) \in Nat, NEW w, NEW a, Behind(w, text, a),
         NEW m, Trims(w, m), NEW j \in 1 .. Len(w), w[j] = CR
  PROVE  EndsALine(text, a + j) <=> m < j
<1>1. PICK n, N : n = Len(w) /\ N = Len(text)
  OBVIOUS
<1>2. /\ a \in Nat /\ n \in Nat /\ N \in Nat /\ a + n <= N /\ (a + n = N \/ text[a + n + 1] = LF)
      /\ \A i \in 1 .. n : text[a + i] = w[i] /\ w[i] # LF
  BY <1>1 DEF Behind, Unbroken
<1>3. m \in 0 .. n /\ (m = 0 \/ w[m] # CR) /\ \A k \in m + 1 .. n : w[k] = CR
  BY <1>1 DEF Trims
<1>4. j \in 1 .. n
  BY <1>1
<1>5. ASSUME m < j PROVE EndsALine(text, a + j)
  <2>1. a + n \in a + j .. N
    BY <1>2, <1>4
  <2>2. ASSUME NEW k \in a + j + 1 .. a + n PROVE text[k] = CR
    <3>1. PICK i : i = k - a
      OBVIOUS
    <3>2. i \in m + 1 .. n /\ i \in 1 .. n /\ a + i = k
      BY <1>2, <1>3, <1>4, <1>5, <3>1
    <3>3. QED
      BY <1>2, <1>3, <3>2
  <2>3. QED
    BY <1>1, <1>2, <2>1, <2>2 DEF EndsALine
<1>6. ASSUME ~(m < j), EndsALine(text, a + j) PROVE FALSE
  <2>1. j < m /\ m \in 1 .. n
    <3>1. j # m
      BY <1>3, <1>4
    <3>2. QED
      BY <1>2, <1>3, <1>4, <1>6, <3>1
  <2>2. PICK J \in a + j .. N : (\A k \in a + j + 1 .. J : text[k] = CR) /\ (J = N \/ text[J + 1] = LF)
    BY <1>1, <1>6 DEF EndsALine
  <2>3. J \in Nat /\ J >= a + j
    BY <1>2, <1>4, <2>2
  <2>4. ASSUME a + m <= J PROVE FALSE
    <3>1. a + m \in a + j + 1 .. J
      BY <1>2, <1>4, <2>1, <2>3, <2>4
    <3>2. text[a + m] = CR
      BY <2>2, <3>1
    <3>3. text[a + m] = w[m]
      BY <1>2, <2>1
    <3>4. m # 0
      BY <2>1
    <3>5. QED
      BY <1>3, <3>2, <3>3, <3>4
  <2>5. J < a + m
    BY <1>2, <2>1, <2>3, <2>4
  <2>6. J # N
    BY <1>2, <2>1, <2>3, <2>5
  <2>7. PICK i : i = J + 1 - a
    OBVIOUS
  <2>8. i \in 1 .. n /\ a + i = J + 1
    BY <1>2, <1>4, <2>1, <2>3, <2>5, <2>7
  <2>9. text[a + i] = LF
    BY <2>2, <2>6, <2>8
  <2>10. QED
    BY <1>2, <2>8, <2>9
<1>7. m < j \/ ~(m < j)
  OBVIOUS
<1>8. QED
  BY <1>5, <1>6

LEMMA LineKept ==
  ASSUME NEW text, Len(text) \in Nat, NEW f, Kept(f, text), NEW w, NEW a, Behind(w, text, a),
         f[a] \in Seq(Chars)
  PROVE  f[a + Len(w)] = Cat(f[a], TrimRight(w)) /\ f[a + Len(w)] \in Seq(Chars)
<1>1. PICK n, x : n = Len(w) /\ x = f[a]
  OBVIOUS
<1>2. /\ w \in Seq(Chars) /\ a \in Nat /\ n \in Nat /\ a + n <= Len(text) /\ x \in Seq(Chars)
      /\ \A i \in 1 .. n : text[a + i] = w[i] /\ w[i] # LF
  BY <1>1 DEF Behind, Unbroken
<1>3. PICK m : Trims(w, m)
  BY <1>1, <1>2, TrimExists
<1>4. m \in 0 .. n
  BY <1>1, <1>3 DEF Trims
<1>5. TrimRight(w) = SubSeq(w, 1, m) /\ TrimRight(w) \in Seq(Chars)
  BY <1>2, <1>3, TrimmedAt
<1>6. \A j \in 1 .. n : w[j] = CR => (EndsALine(text, a + j) <=> m < j)
  BY <1>1, <1>3, ClosingIs
<1>7. ASSUME NEW j \in 1 .. n, NEW i, i = a + j
      PROVE  /\ m < j /\ w[j] = CR => f[i] = f[i - 1]
             /\ ~(m < j) => f[i] = Plus(f[i - 1], w[j])
             /\ w[j] # CR => f[i] = Plus(f[i - 1], w[j])
  <2>1. i \in 1 .. Len(text)
    BY <1>2, <1>7
  <2>2. f[i] = IF text[i] = CR /\ EndsALine(text, i) THEN f[i - 1] ELSE Plus(f[i - 1], text[i])
    BY <2>1 DEF Kept
  <2>3. text[i] = w[j]
    BY <1>2, <1>7
  <2>4. w[j] = CR => (EndsALine(text, i) <=> m < j)
    BY <1>6, <1>7
  <2>5. ASSUME m < j, w[j] = CR PROVE f[i] = f[i - 1]
    <3>1. text[i] = CR /\ EndsALine(text, i)
      BY <2>3, <2>4, <2>5
    <3>2. QED
      BY <2>2, <3>1
  <2>6. ASSUME ~(text[i] = CR /\ EndsALine(text, i)) PROVE f[i] = Plus(f[i - 1], w[j])
    BY <2>2, <2>3, <2>6
  <2>7. ~(m < j) => ~(text[i] = CR /\ EndsALine(text, i))
    BY <2>3, <2>4
  <2>8. w[j] # CR => ~(text[i] = CR /\ EndsALine(text, i))
    BY <2>3
  <2>9. QED
    BY <2>5, <2>6, <2>7, <2>8, Zenon
<1> DEFINE cut(j) == IF j <= m THEN j ELSE m
<1>8. PICK bad : bad = {j \in 0 .. n : f[a + j] # Cat(x, SubSeq(w, 1, cut(j)))}
  OBVIOUS
<1>9. ASSUME bad # {} PROVE FALSE
  <2>1. bad \subseteq Nat
    BY <1>2, <1>8
  <2>2. PICK j \in bad : \A k \in bad : j <= k
    BY <1>9, <2>1, LeastNumber
  <2>3. j \in 0 .. n /\ f[a + j] # Cat(x, SubSeq(w, 1, cut(j)))
    BY <1>8, <2>2
  <2>4. CASE j = 0
    <3>1. cut(0) = 0
      BY <1>4
    <3>2. SubSeq(w, 1, 0) = <<>>
      BY SubSeqEmpty
    <3>3. Cat(x, <<>>) = x
      BY <1>2, ConcatEmptySeq DEF Cat
    <3>4. a + j = a
      BY <1>2, <2>4
    <3>5. f[a + j] = x
      BY <1>1, <3>4
    <3>6. SubSeq(w, 1, cut(j)) = <<>>
      BY <2>4, <3>1, <3>2
    <3>7. QED
      BY <2>3, <3>3, <3>5, <3>6
  <2>5. CASE j # 0
    <3>1. PICK i : i = j - 1
      OBVIOUS
    <3>2. i \in 0 .. n /\ j \in 1 .. n /\ ~(j <= i) /\ a + j - 1 = a + i
      BY <1>2, <2>3, <2>5, <3>1
    <3>3. f[a + i] = Cat(x, SubSeq(w, 1, cut(i)))
      BY <1>8, <2>2, <3>2
    <3>4. /\ m < j /\ w[j] = CR => f[a + j] = f[a + i]
          /\ ~(m < j) => f[a + j] = Plus(f[a + i], w[j])
      <4>1. PICK p : p = a + j
        OBVIOUS
      <4>2. p - 1 = a + i
        BY <1>2, <3>1, <3>2, <4>1
      <4>3. /\ m < j /\ w[j] = CR => f[p] = f[p - 1]
            /\ ~(m < j) => f[p] = Plus(f[p - 1], w[j])
        BY <1>7, <3>2, <4>1
      <4>4. QED
        BY <4>1, <4>2, <4>3
    <3>5. CASE m < j
      <4>1. w[j] = CR
        <5>1. j \in m + 1 .. n
          BY <1>4, <3>2, <3>5
        <5>2. QED
          BY <1>1, <1>3, <5>1 DEF Trims
      <4>2. cut(i) = m /\ cut(j) = m
        BY <1>2, <1>4, <3>1, <3>2, <3>5
      <4>3. f[a + j] = f[a + i]
        BY <3>4, <3>5, <4>1
      <4>4. QED
        BY <2>3, <3>3, <4>2, <4>3
    <3>6. CASE ~(m < j)
      <4>1. cut(i) = j - 1 /\ cut(j) = j
        BY <1>2, <1>4, <3>1, <3>2, <3>6
      <4>2. f[a + j] = Plus(Cat(x, SubSeq(w, 1, j - 1)), w[j])
        BY <3>3, <3>4, <3>6, <4>1
      <4>3. PICK y, e : y = SubSeq(w, 1, j - 1) /\ e = w[j]
        OBVIOUS
      <4>4. e \in Chars
        BY <1>1, <1>2, <3>2, <4>3
      <4>5. y \in Seq(Chars)
        <5>1. \A k \in 1 .. j - 1 : w[k] \in Chars
          BY <1>1, <1>2, <3>2
        <5>2. j - 1 \in Int
          BY <3>2
        <5>3. QED
          BY <4>3, <5>1, <5>2, SubSeqProperties
      <4>6. Plus(Cat(x, y), e) = Cat(x, Plus(y, e))
        <5>1. x \in Seq(Chars)
          BY <1>2
        <5>2. QED
          BY <4>4, <4>5, <5>1, ConcatAppend
      <4>7. SubSeq(w, 1, j) = Plus(y, e)
        BY <1>1, <1>2, <3>2, <4>3, PrefixMore
      <4>8. QED
        BY <2>3, <4>1, <4>2, <4>3, <4>6, <4>7
    <3>7. QED
      BY <3>5, <3>6
  <2>6. QED
    BY <2>4, <2>5
<1>10. n \in 0 .. n /\ cut(n) = m
  BY <1>2, <1>4
<1>11. f[a + n] = Cat(x, SubSeq(w, 1, m))
  BY <1>8, <1>9, <1>10
<1>12. Cat(x, TrimRight(w)) \in Seq(Chars)
  BY <1>2, <1>5, ConcatProperties DEF Cat
<1>13. QED
  BY <1>1, <1>5, <1>11, <1>12

(* A text of one line.                                                     *)
LEMMA NameKept ==
  ASSUME NEW w, Unbroken(w)
  PROVE  Unreturned(w) = TrimRight(w)
<1>1. w \in Seq(Chars) /\ Len(w) \in Nat
  BY DEF Unbroken
<1>2. PICK f : Unreturned(w) = f[Len(w)] /\ Kept(f, w)
  BY <1>1, KeptIs DEF Kept, Plus
<1>3. PICK a, n : a = 0 /\ n = Len(w)
  OBVIOUS
<1>4. f[a] = <<>> /\ f[a] \in Seq(Chars)
  <2>1. f[0] = <<>>
    BY <1>2 DEF Kept
  <2>2. f[a] = <<>>
    BY <1>3, <2>1
  <2>3. QED
    BY <2>2, EmptySeq
<1>5. n \in Nat /\ a + n = n /\ a \in Nat /\ a + n <= n /\ \A j \in 1 .. n : a + j = j
  BY <1>1, <1>3
<1>6. a + Len(w) = Len(w)
  BY <1>3, <1>5
<1>7. Behind(w, w, a)
  BY <1>3, <1>5, <1>6 DEF Behind
<1>8. f[a + Len(w)] = Cat(f[a], TrimRight(w))
  <2>1. Len(w) \in Nat
    BY <1>1
  <2>2. Kept(f, w)
    BY <1>2
  <2>3. \A v, b : Behind(v, w, b) /\ f[b] \in Seq(Chars) => f[b + Len(v)] = Cat(f[b], TrimRight(v))
    BY <2>1, <2>2, LineKept
  <2>4. QED
    BY <1>4, <1>7, <2>3
<1>9. TrimRight(w) \in Seq(Chars)
  BY <1>1, TrimExists, TrimmedAt
<1>10. Cat(<<>>, TrimRight(w)) = TrimRight(w)
  BY <1>9, ConcatEmptySeq DEF Cat
<1>11. QED
  BY <1>2, <1>4, <1>6, <1>8, <1>10

-----------------------------------------------------------------------------
(* The lines of a text lie in it one behind the other.                     *)
Piece(text, w, b, i) ==
  Unbroken(w) /\ b \in Nat /\ b + Len(w) <= i /\ \A j \in 1 .. Len(w) : text[b + j] = w[j]
Follows(text, b, w, c) == c = b + Len(w) + 1 /\ text[c] = LF
LieAt(text, i, ls, at) ==
  /\ ls \in Seq(Seq(Chars)) /\ Len(ls) # 0 /\ at[1] = 0
  /\ \A k \in 1 .. Len(ls) : Piece(text, ls[k], at[k], i)
  /\ \A k \in 1 .. Len(ls) - 1 : Follows(text, at[k], ls[k], at[k + 1])
  /\ at[Len(ls)] + Len(ls[Len(ls)]) = i
Lie(text, i, ls) == \E at : LieAt(text, i, ls, at)

LEMMA PieceMore ==
  ASSUME NEW text, NEW w, NEW b, NEW i \in Nat, Piece(text, w, b, i)
  PROVE  Piece(text, w, b, i + 1)
<1>1. PICK n : n = Len(w)
  OBVIOUS
<1>2. n \in Nat /\ b \in Nat /\ b + n <= i
  BY <1>1 DEF Piece, Unbroken
<1>3. b + n <= i + 1
  BY <1>2
<1>4. QED
  BY <1>1, <1>3 DEF Piece

LEMMA PieceNew ==
  ASSUME NEW text, NEW i \in Nat
  PROVE  Piece(text, <<>>, i, i) /\ i + Len(<<>>) = i
<1>1. PICK e, n : e = <<>> /\ n = Len(e)
  OBVIOUS
<1>2. e \in Seq(Chars) /\ n = 0
  BY <1>1, EmptySeq
<1>3. \A j \in 1 .. n : FALSE
  BY <1>2
<1>4. i + n = i /\ i + n <= i
  BY <1>2
<1>5. Unbroken(e)
  BY <1>1, <1>2, <1>3 DEF Unbroken
<1>6. Piece(text, e, i, i)
  BY <1>1, <1>3, <1>4, <1>5 DEF Piece
<1>7. QED
  BY <1>1, <1>4, <1>6

LEMMA PieceLonger ==
  ASSUME NEW text, NEW w, NEW b, NEW i \in Nat, Piece(text, w, b, i), b + Len(w) = i,
         NEW c \in Chars, c # LF, text[i + 1] = c
  PROVE  Piece(text, Append(w, c), b, i + 1) /\ b + Len(Append(w, c)) = i + 1
<1>1. PICK n, v : n = Len(w) /\ v = Append(w, c)
  OBVIOUS
<1>2. w \in Seq(Chars) /\ n \in Nat /\ b \in Nat /\ b + n = i /\ \A j \in 1 .. n : text[b + j] = w[j] /\ w[j] # LF
  BY <1>1 DEF Piece, Unbroken
<1>3. v \in Seq(Chars) /\ Len(v) = n + 1 /\ v[n + 1] = c /\ \A j \in 1 .. n : v[j] = w[j]
  BY <1>1, <1>2, AppendProperties
<1>4. ASSUME NEW j \in 1 .. n + 1 PROVE text[b + j] = v[j] /\ v[j] # LF
  <2>1. CASE j = n + 1
    <3>1. b + j = i + 1
      BY <1>2, <2>1
    <3>2. QED
      BY <1>3, <2>1, <3>1
  <2>2. CASE j # n + 1
    <3>1. j \in 1 .. n
      BY <1>2, <2>2
    <3>2. QED
      BY <1>2, <1>3, <3>1
  <2>3. QED
    BY <2>1, <2>2
<1>5. b + (n + 1) = i + 1 /\ b + (n + 1) <= i + 1
  BY <1>2
<1>6. Unbroken(v)
  BY <1>3, <1>4 DEF Unbroken
<1>7. Piece(text, v, b, i + 1)
  BY <1>2, <1>3, <1>4, <1>5, <1>6 DEF Piece
<1>8. QED
  BY <1>1, <1>3, <1>5, <1>7

LEMMA LieNothing ==
  ASSUME NEW text
  PROVE  Lie(text, 0, << <<>> >>)
<1>1. PICK ls, at, e, B : ls = << <<>> >> /\ at = [k \in 1 .. 1 |-> 0] /\ e = <<>> /\ B = Seq(Chars)
  OBVIOUS
<1>2. ls = <<e>> /\ e \in B
  BY <1>1, EmptySeq
<1>3. ls \in Seq(B) /\ Len(ls) = 1 /\ ls[1] = e
  BY <1>2
<1>4. at[1] = 0
  BY <1>1
<1>5. Piece(text, e, 0, 0) /\ 0 + Len(e) = 0
  BY <1>1, PieceNew
<1>6. \A k \in 1 .. 1 : k = 1
  OBVIOUS
<1>7. \A k \in 1 .. 1 - 1 : FALSE
  OBVIOUS
<1>8. \A k \in 1 .. Len(ls) : Piece(text, ls[k], at[k], 0)
  BY <1>3, <1>4, <1>5, <1>6
<1>9. \A k \in 1 .. Len(ls) - 1 : FALSE
  BY <1>3, <1>7
<1>10. at[Len(ls)] + Len(ls[Len(ls)]) = 0
  BY <1>3, <1>4, <1>5
<1>11. LieAt(text, 0, ls, at)
  BY <1>1, <1>3, <1>4, <1>8, <1>9, <1>10 DEF LieAt
<1>12. QED
  BY <1>1, <1>11 DEF Lie

LEMMA LieBroken ==
  ASSUME NEW text, NEW i \in Nat, NEW ls, Lie(text, i, ls), text[i + 1] = LF
  PROVE  Lie(text, i + 1, Append(ls, <<>>))
<1>1. PICK at : LieAt(text, i, ls, at)
  BY DEF Lie
<1>2. PICK n, e, B : n = Len(ls) /\ e = <<>> /\ B = Seq(Chars)
  OBVIOUS
<1>3. ls \in Seq(B) /\ n \in Nat /\ n # 0 /\ at[1] = 0 /\ e \in B
  BY <1>1, <1>2, EmptySeq DEF LieAt
<1>4. /\ \A k \in 1 .. n : Piece(text, ls[k], at[k], i)
      /\ \A k \in 1 .. n - 1 : Follows(text, at[k], ls[k], at[k + 1])
      /\ at[n] + Len(ls[n]) = i
  BY <1>1, <1>2 DEF LieAt
<1>5. PICK rs, to : rs = Append(ls, e) /\ to = [k \in 1 .. n + 1 |-> IF k = n + 1 THEN i + 1 ELSE at[k]]
  OBVIOUS
<1>6. rs \in Seq(B) /\ Len(rs) = n + 1 /\ rs[n + 1] = e /\ \A k \in 1 .. n : rs[k] = ls[k]
  BY <1>2, <1>3, <1>5, AppendProperties
<1>7. to[n + 1] = i + 1 /\ \A k \in 1 .. n : to[k] = at[k]
  <2>1. n + 1 \in 1 .. n + 1 /\ \A k \in 1 .. n : k \in 1 .. n + 1 /\ k # n + 1
    BY <1>3
  <2>2. QED
    BY <1>5, <2>1
<1>8. Piece(text, e, i + 1, i + 1) /\ i + 1 + Len(e) = i + 1
  BY <1>2, PieceNew
<1>9. ASSUME NEW k \in 1 .. n + 1 PROVE Piece(text, rs[k], to[k], i + 1)
  <2>1. CASE k = n + 1
    BY <1>6, <1>7, <1>8, <2>1
  <2>2. CASE k # n + 1
    <3>1. k \in 1 .. n
      BY <1>3, <2>2
    <3>2. Piece(text, ls[k], at[k], i)
      BY <1>4, <3>1
    <3>3. Piece(text, ls[k], at[k], i + 1)
      BY <3>2, PieceMore
    <3>4. QED
      BY <1>6, <1>7, <3>1, <3>3
  <2>3. QED
    BY <2>1, <2>2
<1>10. ASSUME NEW k \in 1 .. n PROVE Follows(text, to[k], rs[k], to[k + 1])
  <2>1. CASE k = n
    <3>1. Follows(text, at[n], ls[n], i + 1)
      BY <1>4 DEF Follows
    <3>2. n \in 1 .. n
      BY <1>3
    <3>3. QED
      BY <1>6, <1>7, <2>1, <3>1, <3>2
  <2>2. CASE k # n
    <3>1. k \in 1 .. n - 1 /\ k + 1 \in 1 .. n
      BY <1>3, <2>2
    <3>2. QED
      BY <1>4, <1>6, <1>7, <3>1
  <2>3. QED
    BY <2>1, <2>2
<1>11. n + 1 - 1 = n /\ n + 1 # 0 /\ 1 \in 1 .. n
  BY <1>3
<1>12. to[1] = 0
  BY <1>3, <1>7, <1>11
<1>13. \A k \in 1 .. Len(rs) - 1 : Follows(text, to[k], rs[k], to[k + 1])
  <2>1. Len(rs) - 1 = n
    BY <1>3, <1>6
  <2>2. QED
    BY <1>10, <2>1
<1>14. to[Len(rs)] + Len(rs[Len(rs)]) = i + 1
  BY <1>6, <1>7, <1>8
<1>15. LieAt(text, i + 1, rs, to)
  BY <1>2, <1>6, <1>9, <1>11, <1>12, <1>13, <1>14 DEF LieAt
<1>16. QED
  BY <1>2, <1>5, <1>15 DEF Lie

LEMMA LieLonger ==
  ASSUME NEW text, NEW i \in Nat, NEW ls, Lie(text, i, ls), NEW c \in Chars, c # LF, text[i + 1] = c
  PROVE  Lie(text, i + 1, Append(Front(ls), Append(Last(ls), c)))
<1>1. PICK at : LieAt(text, i, ls, at)
  BY DEF Lie
<1>2. PICK n, B : n = Len(ls) /\ B = Seq(Chars)
  OBVIOUS
<1>3. ls \in Seq(B) /\ n \in Nat /\ n # 0 /\ at[1] = 0
  BY <1>1, <1>2 DEF LieAt
<1>4. /\ \A k \in 1 .. n : Piece(text, ls[k], at[k], i)
      /\ \A k \in 1 .. n - 1 : Follows(text, at[k], ls[k], at[k + 1])
      /\ at[n] + Len(ls[n]) = i
  BY <1>1, <1>2 DEF LieAt
<1>5. PICK l, r : l = ls[n] /\ r = SubSeq(ls, 1, n - 1)
  OBVIOUS
<1>6. r \in Seq(B) /\ Len(r) = n - 1 /\ \A j \in 1 .. n - 1 : r[j] = ls[j]
  <2>1. \A j \in 1 .. n - 1 : ls[j] \in B
    BY <1>2, <1>3
  <2>2. /\ SubSeq(ls, 1, n - 1) \in Seq(B)
        /\ Len(SubSeq(ls, 1, n - 1)) = IF 1 <= n - 1 THEN n - 1 - 1 + 1 ELSE 0
        /\ \A j \in 1 .. n - 1 - 1 + 1 : SubSeq(ls, 1, n - 1)[j] = ls[1 + j - 1]
    BY <1>3, <2>1, SubSeqProperties
  <2>3. QED
    BY <1>3, <1>5, <2>2
<1>7. PICK v : v = Append(l, c)
  OBVIOUS
<1>8. Piece(text, v, at[n], i + 1) /\ at[n] + Len(v) = i + 1
  <2>1. n \in 1 .. n
    BY <1>3
  <2>2. Piece(text, l, at[n], i) /\ at[n] + Len(l) = i
    BY <1>4, <1>5, <2>1
  <2>3. PICK b : b = at[n]
    OBVIOUS
  <2>4. QED
    BY <1>7, <2>2, <2>3, PieceLonger
<1>9. v \in B
  BY <1>2, <1>8 DEF Piece, Unbroken
<1>10. PICK s : s = Append(r, v)
  OBVIOUS
<1>11. s \in Seq(B) /\ Len(s) = n /\ s[n] = v /\ \A j \in 1 .. n - 1 : s[j] = ls[j]
  <2>1. s \in Seq(B) /\ Len(s) = n - 1 + 1 /\ s[n - 1 + 1] = v /\ \A j \in 1 .. n - 1 : s[j] = r[j]
    BY <1>6, <1>9, <1>10, AppendProperties
  <2>2. n - 1 + 1 = n
    BY <1>3
  <2>3. QED
    BY <1>6, <2>1, <2>2
<1>12. ASSUME NEW k \in 1 .. n PROVE Piece(text, s[k], at[k], i + 1)
  <2>1. CASE k = n
    BY <1>8, <1>11, <2>1
  <2>2. CASE k # n
    <3>1. k \in 1 .. n - 1
      BY <1>3, <2>2
    <3>2. Piece(text, ls[k], at[k], i)
      BY <1>4
    <3>3. Piece(text, ls[k], at[k], i + 1)
      BY <3>2, PieceMore
    <3>4. QED
      BY <1>11, <3>1, <3>3
  <2>3. QED
    BY <2>1, <2>2
<1>13. \A k \in 1 .. n - 1 : Follows(text, at[k], s[k], at[k + 1])
  BY <1>4, <1>11
<1>14. LieAt(text, i + 1, s, at)
  BY <1>2, <1>3, <1>8, <1>11, <1>12, <1>13 DEF LieAt
<1>15. s = Append(Front(ls), Append(Last(ls), c))
  BY <1>2, <1>5, <1>7, <1>10 DEF Front, Last
<1>16. QED
  BY <1>14, <1>15 DEF Lie

LEMMA LinesLie ==
  ASSUME NEW text \in Seq(Chars)
  PROVE  Lie(text, Len(text), Lines(text))
<1>1. PICK N : N = Len(text)
  OBVIOUS
<1>2. N \in Nat /\ \A i \in 1 .. N : text[i] \in Chars
  BY <1>1
<1>3. PICK f : /\ Lines(text) = f[N] /\ f[0] = << <<>> >>
               /\ \A i \in 1 .. N : f[i] = Scanned(f[i - 1], text[i])
  BY <1>1, <1>2, LinesAre
<1>4. PICK bad : bad = {i \in 0 .. N : ~Lie(text, i, f[i])}
  OBVIOUS
<1>5. ASSUME bad # {} PROVE FALSE
  <2>1. bad \subseteq Nat
    BY <1>2, <1>4
  <2>2. PICK m \in bad : \A k \in bad : m <= k
    BY <1>5, <2>1, LeastNumber
  <2>3. m \in 0 .. N /\ ~Lie(text, m, f[m])
    BY <1>4, <2>2
  <2>4. m # 0
    BY <1>3, <2>3, LieNothing
  <2>5. PICK i : i = m - 1
    OBVIOUS
  <2>6. i \in Nat /\ i \in 0 .. N /\ ~(m <= i) /\ m \in 1 .. N /\ i + 1 = m
    BY <1>2, <2>3, <2>4, <2>5
  <2>7. Lie(text, i, f[i])
    BY <1>4, <2>2, <2>6
  <2>8. PICK c, ls : c = text[m] /\ ls = f[i]
    OBVIOUS
  <2>9. c \in Chars /\ f[m] = Scanned(ls, c) /\ text[i + 1] = c
    BY <1>2, <1>3, <2>5, <2>6, <2>8
  <2>10. CASE c = LF
    <3>1. Lie(text, i + 1, Append(ls, <<>>))
      BY <2>6, <2>7, <2>8, <2>9, <2>10, LieBroken
    <3>2. Scanned(ls, c) = Append(ls, <<>>)
      BY <2>10 DEF Scanned
    <3>3. QED
      BY <2>3, <2>6, <2>9, <3>1, <3>2
  <2>11. CASE c # LF
    <3>1. Lie(text, i + 1, Append(Front(ls), Append(Last(ls), c)))
      BY <2>6, <2>7, <2>8, <2>9, <2>11, LieLonger
    <3>2. Scanned(ls, c) = Append(Front(ls), Append(Last(ls), c))
      BY <2>11 DEF Scanned
    <3>3. QED
      BY <2>3, <2>6, <2>9, <3>1, <3>2
  <2>12. QED
    BY <2>10, <2>11
<1>6. N \in 0 .. N
  BY <1>2
<1>7. QED
  BY <1>1, <1>3, <1>4, <1>5, <1>6

-----------------------------------------------------------------------------
(* What is kept of a text are its lines, trimmed and joined.               *)
Trimmed(ls) == [k \in 1 .. Len(ls) |-> TrimRight(ls[k])]

LEMMA PieceBehind ==
  ASSUME NEW text, Len(text) \in Nat, NEW ls, NEW at, LieAt(text, Len(text), ls, at), NEW k \in 1 .. Len(ls)
  PROVE  Behind(ls[k], text, at[k])
<1>1. PICK n, N, w, b : n = Len(ls) /\ N = Len(text) /\ w = ls[k] /\ b = at[k]
  OBVIOUS
<1>2. n \in Nat /\ k \in 1 .. n
  BY <1>1 DEF LieAt
<1>3. Piece(text, w, b, N)
  BY <1>1 DEF LieAt
<1>4. b + Len(w) = N \/ text[b + Len(w) + 1] = LF
  <2>1. CASE k = n
    BY <1>1, <2>1 DEF LieAt
  <2>2. CASE k # n
    <3>1. k \in 1 .. n - 1
      BY <1>2, <2>2
    <3>2. Follows(text, b, w, at[k + 1])
      BY <1>1, <3>1 DEF LieAt
    <3>3. QED
      BY <3>2 DEF Follows
  <2>3. QED
    BY <2>1, <2>2
<1>5. QED
  BY <1>1, <1>3, <1>4 DEF Piece, Behind

LEMMA JoinStep ==
  ASSUME NEW x \in Seq(Chars), NEW t \in Seq(Chars)
  PROVE  Plus(x, LF) \in Seq(Chars) /\ Cat(Plus(x, LF), t) = Cat(x, Cat(<<LF>>, t))
<1>1. PICK l, c : l = <<c>> /\ c = LF
  OBVIOUS
<1>2. c \in Chars /\ l \in Seq(Chars)
  BY <1>1, CharsAre
<1>3. Append(x, c) = x \o l /\ Append(x, c) \in Seq(Chars)
  BY <1>1, <1>2, AppendIsConcat, AppendProperties
<1>4. (x \o l) \o t = x \o (l \o t)
  BY <1>2, ConcatAssociative
<1>5. QED
  BY <1>1, <1>3, <1>4 DEF Plus, Cat

LEMMA TrimmedIs ==
  ASSUME NEW ls \in Seq(Seq(Chars))
  PROVE  /\ Trimmed(ls) \in Seq(Seq(Chars)) /\ Len(Trimmed(ls)) = Len(ls)
         /\ \A k \in 1 .. Len(ls) : Trimmed(ls)[k] = TrimRight(ls[k])
<1>1. PICK B, n : B = Seq(Chars) /\ n = Len(ls)
  OBVIOUS
<1>2. n \in Nat /\ \A k \in 1 .. n : ls[k] \in B
  BY <1>1
<1>3. ASSUME NEW w \in B PROVE TrimRight(w) \in B
  <2>1. w \in Seq(Chars) /\ Len(w) \in Nat
    BY <1>1
  <2>2. QED
    BY <1>1, <2>1, TrimExists, TrimmedAt
<1>4. PICK t : t = Trimmed(ls)
  OBVIOUS
<1>5. t \in [1 .. n -> B] /\ \A k \in 1 .. n : t[k] = TrimRight(ls[k])
  BY <1>1, <1>2, <1>3, <1>4 DEF Trimmed
<1>6. t \in Seq(B) /\ Len(t) = n
  BY <1>2, <1>5
<1>7. QED
  BY <1>1, <1>4, <1>5, <1>6

LEMMA LinesJoin ==
  ASSUME NEW text \in Seq(Chars), NEW ls, ls = Lines(text)
  PROVE  JoinedLines(Trimmed(ls)) = Unreturned(text)
<1>1. PICK N, n, T, B : N = Len(text) /\ n = Len(ls) /\ T = Trimmed(ls) /\ B = Seq(Chars)
  OBVIOUS
<1>2. N \in Nat
  BY <1>1
<1>3. PICK at : LieAt(text, N, ls, at)
  BY <1>1, LinesLie DEF Lie
<1>4. ls \in Seq(B) /\ n \in Nat /\ n # 0 /\ at[1] = 0
  BY <1>1, <1>3 DEF LieAt
<1>5. T \in Seq(B) /\ Len(T) = n /\ \A k \in 1 .. n : T[k] = TrimRight(ls[k])
  BY <1>1, <1>4, TrimmedIs
<1>6. \A k \in 1 .. n : T[k] \in B
  BY <1>5
<1>7. PICK f : Unreturned(text) = f[N] /\ Kept(f, text)
  <2>1. Len(text) \in Nat
    BY <1>1, <1>2
  <2>2. QED
    BY <1>1, <2>1, KeptIs DEF Kept, Plus
<1>8. PICK S : S = [i \in DOMAIN T |-> IF i = 1 THEN T[i] ELSE <<LF>> \o T[i]]
  OBVIOUS
<1>9. Len(S) = n /\ S[1] = T[1] /\ \A i \in 2 .. n : S[i] = Cat(<<LF>>, T[i])
  <2>1. DOMAIN T = 1 .. n
    BY <1>5
  <2>2. DOMAIN S = 1 .. n
    BY <1>8, <2>1
  <2>3. Len(S) = n
    <3>1. PICK l : l = <<LF>>
      OBVIOUS
    <3>2. l \in Seq(Chars)
      BY <3>1, CharsAre
    <3>3. \A i \in 1 .. n : T[i] \in Seq(Chars)
      BY <1>1, <1>6
    <3>4. \A i \in 1 .. n : l \o T[i] \in Seq(Chars)
      BY <3>2, <3>3, ConcatProperties
    <3>5. \A i \in 1 .. n : S[i] \in B
      BY <1>1, <1>8, <2>1, <3>1, <3>3, <3>4
    <3>6. S \in [1 .. n -> B]
      BY <1>8, <2>1, <3>5
    <3>7. QED
      BY <1>4, <3>6
  <2>4. 1 \in 1 .. n /\ \A i \in 2 .. n : i \in 1 .. n /\ i # 1
    BY <1>4
  <2>5. S[1] = T[1]
    BY <1>8, <2>1, <2>4
  <2>6. \A i \in 2 .. n : S[i] = <<LF>> \o T[i]
    BY <1>8, <2>1, <2>4
  <2>7. QED
    BY <2>3, <2>5, <2>6 DEF Cat
<1>10. PICK g : /\ JoinedLines(T) = g[n] /\ g[1] = T[1]
                /\ \A i \in 2 .. n : g[i] = Cat(g[i - 1], S[i])
  <2>1. JoinedLines(T) = FlattenSeq(S)
    BY <1>8 DEF JoinedLines
  <2>2. Len(S) \in Nat /\ Len(S) # 0
    BY <1>4, <1>9
  <2>3. PICK g : /\ FlattenSeq(S) = g[Len(S)] /\ g[1] = S[1]
                 /\ \A i \in 2 .. Len(S) : g[i] = g[i - 1] \o S[i]
    BY <2>2, JoinIs
  <2>4. \A i \in 2 .. n : g[i] = g[i - 1] \o S[i]
    BY <1>9, <2>3
  <2>5. JoinedLines(T) = g[n] /\ g[1] = T[1]
    BY <1>9, <2>1, <2>3
  <2>6. QED
    BY <2>4, <2>5 DEF Cat
<1> DEFINE end(k) == at[k] + Len(ls[k])
<1>11. ASSUME NEW k \in 1 .. n, f[at[k]] \in Seq(Chars)
       PROVE  f[end(k)] = Cat(f[at[k]], T[k]) /\ f[end(k)] \in Seq(Chars)
  <2>1. Behind(ls[k], text, at[k])
    BY <1>1, <1>2, <1>3, PieceBehind
  <2>2. Len(text) \in Nat /\ Kept(f, text)
    BY <1>1, <1>2, <1>7
  <2>3. \A v, b : Behind(v, text, b) /\ f[b] \in Seq(Chars)
                  => f[b + Len(v)] = Cat(f[b], TrimRight(v)) /\ f[b + Len(v)] \in Seq(Chars)
    BY <2>2, LineKept
  <2>4. T[k] = TrimRight(ls[k])
    BY <1>5
  <2>5. QED
    BY <1>11, <2>1, <2>3, <2>4
<1>12. PICK bad : bad = {k \in 1 .. n : ~(f[end(k)] = g[k] /\ f[end(k)] \in Seq(Chars))}
  OBVIOUS
<1>13. ASSUME bad # {} PROVE FALSE
  <2>1. bad \subseteq Nat
    BY <1>4, <1>12
  <2>2. PICK m \in bad : \A k \in bad : m <= k
    BY <1>13, <2>1, LeastNumber
  <2>3. m \in 1 .. n /\ ~(f[end(m)] = g[m] /\ f[end(m)] \in Seq(Chars))
    BY <1>12, <2>2
  <2>4. CASE m = 1
    <3>1. f[at[1]] = <<>>
      <4>1. f[0] = <<>>
        BY <1>7 DEF Kept
      <4>2. QED
        BY <1>4, <4>1
    <3>2. f[at[1]] \in Seq(Chars)
      BY <3>1, EmptySeq
    <3>3. 1 \in 1 .. n
      BY <1>4
    <3>4. f[end(1)] = Cat(f[at[1]], T[1]) /\ f[end(1)] \in Seq(Chars)
      BY <1>11, <3>2, <3>3
    <3>5. Cat(<<>>, T[1]) = T[1]
      BY <1>1, <1>6, <3>3, ConcatEmptySeq DEF Cat
    <3>6. f[end(1)] = g[1]
      BY <1>10, <3>1, <3>4, <3>5
    <3>7. QED
      BY <2>3, <2>4, <3>4, <3>6
  <2>5. CASE m # 1
    <3>1. PICK k : k = m - 1
      OBVIOUS
    <3>2. k \in 1 .. n /\ ~(m <= k) /\ k \in 1 .. n - 1 /\ k + 1 = m /\ m \in 2 .. n
      BY <1>4, <2>3, <2>5, <3>1
    <3>3. f[end(k)] = g[k] /\ f[end(k)] \in Seq(Chars)
      BY <1>12, <2>2, <3>2
    <3>4. PICK a, e, x : a = at[m] /\ e = end(k) /\ x = g[k]
      OBVIOUS
    <3>5. a = e + 1 /\ text[a] = LF
      <4>1. Follows(text, at[k], ls[k], at[k + 1])
        BY <1>1, <1>3, <3>2 DEF LieAt
      <4>2. QED
        BY <3>2, <3>4, <4>1 DEF Follows
    <3>6. e \in Nat /\ a \in 1 .. N
      <4>1. Piece(text, ls[k], at[k], N) /\ Piece(text, ls[m], at[m], N)
        BY <1>1, <1>3, <2>3, <3>2 DEF LieAt
      <4>2. at[k] \in Nat /\ Len(ls[k]) \in Nat /\ at[m] \in Nat /\ Len(ls[m]) \in Nat /\ at[m] + Len(ls[m]) <= N
        BY <4>1 DEF Piece, Unbroken
      <4>3. e \in Nat
        BY <3>4, <4>2
      <4>4. QED
        BY <1>2, <3>4, <3>5, <4>2, <4>3
    <3>7. f[a] = Plus(x, LF)
      <4>1. f[a] = IF text[a] = CR /\ EndsALine(text, a) THEN f[a - 1] ELSE Plus(f[a - 1], text[a])
        BY <1>1, <1>7, <3>6 DEF Kept
      <4>2. text[a] # CR
        BY <3>5, CharsAre
      <4>3. a - 1 = e
        BY <3>5, <3>6
      <4>4. f[a] = Plus(f[a - 1], text[a])
        BY <4>1, <4>2
      <4>5. f[e] = x
        BY <3>3, <3>4
      <4>6. QED
        BY <3>5, <4>3, <4>4, <4>5
    <3>8. x \in Seq(Chars)
      BY <3>3, <3>4
    <3>9. T[m] \in Seq(Chars)
      BY <1>1, <1>6, <2>3
    <3>10. f[a] \in Seq(Chars) /\ Cat(f[a], T[m]) = Cat(x, Cat(<<LF>>, T[m]))
      BY <3>7, <3>8, <3>9, JoinStep
    <3>11. f[end(m)] = Cat(f[a], T[m]) /\ f[end(m)] \in Seq(Chars)
      BY <1>11, <2>3, <3>4, <3>10
    <3>12. g[m] = Cat(x, Cat(<<LF>>, T[m]))
      BY <1>9, <1>10, <3>1, <3>2, <3>4
    <3>13. QED
      BY <2>3, <3>10, <3>11, <3>12
  <2>6. QED
    BY <2>4, <2>5
<1>14. n \in 1 .. n
  BY <1>4
<1>15. f[end(n)] = g[n]
  BY <1>12, <1>13, <1>14
<1>16. end(n) = N
  BY <1>1, <1>3 DEF LieAt
<1>17. QED
  BY <1>1, <1>7, <1>10, <1>15, <1>16

-----------------------------------------------------------------------------
(* The data of an event is read as its lines, trimmed.                     *)
LEMMA FieldTyped ==
  ASSUME NEW v, Unbroken(v)
  PROVE  Field("event", v) \in Seq(Chars) /\ Field("data", v) \in Seq(Chars)
<1>1. PICK l, e, d : l = <<LF>> /\ e = "event" /\ d = "data"
  <2>1. PICK e : e = "event"
    OBVIOUS
  <2>2. PICK d : d = "data"
    OBVIOUS
  <2>3. QED
    BY <2>1, <2>2
<1>2. e \in Chars /\ d \in Chars /\ LF \in Chars
  BY <1>1, CharsAre
<1>3. l \in Seq(Chars) /\ v \in Seq(Chars)
  BY <1>1, <1>2 DEF Unbroken
<1>4. Led(e, v) \in Seq(Chars) /\ Led(d, v) \in Seq(Chars)
  BY <1>2, <1>3, LedIs
<1>5. Led(e, v) \o l \in Seq(Chars) /\ Led(d, v) \o l \in Seq(Chars)
  BY <1>3, <1>4, ConcatProperties
<1>6. Field(e, v) = Led(e, v) \o l /\ Field(d, v) = Led(d, v) \o l
  BY <1>1 DEF Field, Led, Colon, Space
<1>7. QED
  BY <1>1, <1>5, <1>6

DataLines(ls) == [i \in DOMAIN ls |-> Field("data", ls[i])]

LEMMA DataRead ==
  ASSUME NEW u \in Seq(Chars), NEW event, Reads(u, Amid(event, <<>>)),
         NEW ls \in Seq(Seq(Chars)), Len(ls) # 0, \A k \in 1 .. Len(ls) : Unbroken(ls[k])
  PROVE  /\ FlattenSeq(DataLines(ls)) \in Seq(Chars)
         /\ Reads(u \o FlattenSeq(DataLines(ls)), Amid(event, Trimmed(ls)))
<1>1. PICK n, T, B, F : n = Len(ls) /\ T = Trimmed(ls) /\ B = Seq(Chars) /\ F = DataLines(ls)
  OBVIOUS
<1>2. n \in Nat /\ n # 0 /\ DOMAIN ls = 1 .. n
  BY <1>1
<1>3. T \in Seq(B) /\ Len(T) = n /\ \A k \in 1 .. n : T[k] = TrimRight(ls[k])
  BY <1>1, TrimmedIs
<1>4. \A k \in 1 .. n : F[k] = Field("data", ls[k])
  BY <1>1, <1>2 DEF DataLines
<1>5. \A k \in 1 .. n : F[k] \in Seq(Chars)
  BY <1>1, <1>4, FieldTyped
<1>6. Len(F) = n
  <2>1. F \in [1 .. n -> B]
    BY <1>1, <1>2, <1>5 DEF DataLines
  <2>2. QED
    BY <1>2, <2>1
<1>7. PICK g : /\ FlattenSeq(F) = g[n] /\ g[1] = F[1]
               /\ \A i \in 2 .. n : g[i] = g[i - 1] \o F[i]
  <2>1. Len(F) \in Nat /\ Len(F) # 0
    BY <1>2, <1>6
  <2>2. PICK g : /\ FlattenSeq(F) = g[Len(F)] /\ g[1] = F[1]
                 /\ \A i \in 2 .. Len(F) : g[i] = g[i - 1] \o F[i]
    BY <2>1, JoinIs
  <2>3. QED
    BY <1>6, <2>2
<1> DEFINE First(k) == SubSeq(T, 1, k)
<1>8. ASSUME NEW x, NEW k \in 1 .. n, Reads(x, Amid(event, First(k - 1)))
      PROVE  Reads(x \o F[k], Amid(event, First(k)))
  <2>1. PICK t, v : t = First(k - 1) /\ v = ls[k]
    OBVIOUS
  <2>2. Unbroken(v)
    BY <1>1, <2>1
  <2>3. Reads(x \o Field("data", v), Amid(event, Append(t, TrimRight(v))))
    BY <1>8, <2>1, <2>2, ReadsDataField
  <2>4. First(k) = Plus(t, T[k])
    BY <1>3, <2>1, PrefixMore
  <2>5. First(k) = Append(t, TrimRight(v))
    BY <1>3, <2>1, <2>4 DEF Plus
  <2>6. QED
    BY <1>4, <2>1, <2>3, <2>5
<1>9. PICK bad : bad = {k \in 1 .. n : ~(g[k] \in Seq(Chars) /\ Reads(u \o g[k], Amid(event, First(k))))}
  OBVIOUS
<1>10. ASSUME bad # {} PROVE FALSE
  <2>1. bad \subseteq Nat
    BY <1>2, <1>9
  <2>2. PICK m \in bad : \A k \in bad : m <= k
    BY <1>10, <2>1, LeastNumber
  <2>3. m \in 1 .. n /\ ~(g[m] \in Seq(Chars) /\ Reads(u \o g[m], Amid(event, First(m))))
    BY <1>9, <2>2
  <2>4. CASE m = 1
    <3>1. First(0) = <<>>
      BY SubSeqEmpty
    <3>2. m - 1 = 0
      BY <2>4
    <3>3. Reads(u, Amid(event, First(m - 1)))
      BY <3>1, <3>2
    <3>4. Reads(u \o F[m], Amid(event, First(m)))
      BY <1>8, <2>3, <3>3
    <3>5. QED
      BY <1>5, <1>7, <2>3, <2>4, <3>4
  <2>5. CASE m # 1
    <3>1. PICK k : k = m - 1
      OBVIOUS
    <3>2. k \in 1 .. n /\ ~(m <= k) /\ m \in 2 .. n
      BY <1>2, <2>3, <2>5, <3>1
    <3>3. g[k] \in Seq(Chars) /\ Reads(u \o g[k], Amid(event, First(k)))
      BY <1>9, <2>2, <3>2
    <3>4. PICK x, y : x = g[k] /\ y = F[m]
      OBVIOUS
    <3>5. x \in Seq(Chars) /\ y \in Seq(Chars)
      BY <1>5, <2>3, <3>3, <3>4
    <3>6. Reads((u \o x) \o y, Amid(event, First(m)))
      BY <1>8, <2>3, <3>1, <3>3, <3>4
    <3>7. (u \o x) \o y = u \o (x \o y) /\ x \o y \in Seq(Chars)
      BY <3>5, ConcatAssociative, ConcatProperties
    <3>8. g[m] = x \o y
      BY <1>7, <3>1, <3>2, <3>4
    <3>9. QED
      BY <2>3, <3>6, <3>7, <3>8
  <2>6. QED
    BY <2>4, <2>5
<1>11. n \in 1 .. n
  BY <1>2
<1>12. g[n] \in Seq(Chars) /\ Reads(u \o g[n], Amid(event, First(n)))
  BY <1>9, <1>10, <1>11
<1>13. First(n) = T
  BY <1>3, SubSeqFull
<1>14. QED
  BY <1>1, <1>7, <1>12, <1>13

-----------------------------------------------------------------------------
(* An event of any name and any data.                                      *)
NamePart(event) == IF event # <<>> THEN Field("event", event) ELSE <<>>
DataPart(data) == IF data = <<>> THEN <<"data", ":", LF>> ELSE FlattenSeq(DataLines(Lines(data)))

LEMMA NamePartRead ==
  ASSUME NEW event, Unbroken(event)
  PROVE  /\ NamePart(event) \in Seq(Chars)
         /\ Greeting \o NamePart(event) \in Seq(Chars)
         /\ Reads(Greeting \o NamePart(event), Amid(Unreturned(event), <<>>))
<1>1. Greeting \in Seq(Chars) /\ Reads(Greeting, Amid(<<>>, <<>>))
  BY GreetingRead
<1>2. Unreturned(event) = TrimRight(event)
  BY NameKept
<1>3. CASE event # <<>>
  <2>1. NamePart(event) = Field("event", event) /\ Field("event", event) \in Seq(Chars)
    BY <1>3, FieldTyped DEF NamePart
  <2>2. Reads(Greeting \o Field("event", event), Amid(TrimRight(event), <<>>))
    BY <1>1, ReadsEventField
  <2>3. PICK x, g : x = Field("event", event) /\ g = Greeting
    OBVIOUS
  <2>4. g \o x \in Seq(Chars)
    BY <1>1, <2>1, <2>3, ConcatProperties
  <2>5. QED
    BY <1>2, <2>1, <2>2, <2>3, <2>4
<1>4. CASE event = <<>>
  <2>1. NamePart(event) = <<>>
    BY <1>4 DEF NamePart
  <2>2. PICK e : e = <<>>
    OBVIOUS
  <2>3. e \in Seq(Chars) /\ Len(e) = 0
    BY <2>2, EmptySeq
  <2>4. Trims(e, 0)
    BY <2>3 DEF Trims
  <2>5. TrimRight(e) = SubSeq(e, 1, 0)
    BY <2>3, <2>4, TrimmedAt
  <2>6. TrimRight(e) = e
    BY <2>2, <2>5, SubSeqEmpty
  <2>7. Unreturned(event) = e
    BY <1>2, <1>4, <2>2, <2>6
  <2>8. Greeting \o <<>> = Greeting
    BY <1>1, ConcatEmptySeq
  <2>9. PICK g : g = Greeting
    OBVIOUS
  <2>10. g \in Seq(Chars) /\ Reads(g, Amid(e, <<>>)) /\ g \o e = g
    BY <1>1, <2>2, <2>8, <2>9
  <2>11. QED
    BY <2>1, <2>2, <2>3, <2>7, <2>9, <2>10
<1>5. QED
  BY <1>3, <1>4

LEMMA DataPartRead ==
  ASSUME NEW u \in Seq(Chars), NEW event, Reads(u, Amid(event, <<>>)), NEW data \in Seq(Chars)
  PROVE  /\ DataPart(data) \in Seq(Chars)
         /\ readSSEEvents((u \o DataPart(data)) \o <<LF>>) = <<[event |-> event, data |-> Unreturned(data)]>>
<1>1. PICK ls, B, T : ls = Lines(data) /\ B = Seq(Chars) /\ T = Trimmed(ls)
  OBVIOUS
<1>2. Lie(data, Len(data), ls)
  BY <1>1, LinesLie
<1>3. ls \in Seq(B) /\ Len(ls) \in Nat /\ Len(ls) # 0
  BY <1>1, <1>2 DEF Lie, LieAt
<1>4. \A k \in 1 .. Len(ls) : Unbroken(ls[k])
  BY <1>2 DEF Lie, LieAt, Piece
<1>5. T \in Seq(B) /\ Len(T) = Len(ls) /\ \A k \in 1 .. Len(ls) : T[k] = TrimRight(ls[k])
  BY <1>1, <1>3, TrimmedIs
<1>6. T # <<>>
  BY <1>3, <1>5
<1>7. JoinedLines(T) = Unreturned(data)
  BY <1>1, LinesJoin
<1>8. DataPart(data) \in Seq(Chars) /\ Reads(u \o DataPart(data), Amid(event, T))
  <2>1. CASE data # <<>>
    <3>1. /\ FlattenSeq(DataLines(ls)) \in Seq(Chars)
          /\ Reads(u \o FlattenSeq(DataLines(ls)), Amid(event, Trimmed(ls)))
      BY <1>1, <1>3, <1>4, DataRead
    <3>2. DataPart(data) = FlattenSeq(DataLines(ls))
      BY <1>1, <2>1 DEF DataPart
    <3>3. QED
      BY <1>1, <3>1, <3>2
  <2>2. CASE data = <<>>
    <3>1. DataPart(data) = <<"data", ":", LF>>
      BY <2>2 DEF DataPart
    <3>2. /\ <<"data", ":", LF>> \in Seq(Chars)
          /\ Reads(u \o <<"data", ":", LF>>, Amid(event, Append(<<>>, <<>>)))
      BY ReadsNoData
    <3>3. PICK e : e = <<>>
      OBVIOUS
    <3>4. ls = <<e>>
      BY <1>1, <2>2, <3>3, LinesOfNothing
    <3>5. e \in B /\ Len(ls) = 1 /\ ls[1] = e
      BY <1>1, <3>3, <3>4, EmptySeq
    <3>6. TrimRight(e) = e
      <4>1. e \in Seq(Chars) /\ Len(e) = 0
        BY <3>3, EmptySeq
      <4>2. Trims(e, 0)
        BY <4>1 DEF Trims
      <4>3. TrimRight(e) = SubSeq(e, 1, 0)
        BY <4>1, <4>2, TrimmedAt
      <4>4. QED
        BY <3>3, <4>3, SubSeqEmpty
    <3>7. Len(T) = 1 /\ T[1] = e
      <4>1. 1 \in 1 .. 1
        OBVIOUS
      <4>2. QED
        BY <1>5, <3>5, <3>6, <4>1
    <3>8. T = <<e>>
      <4>1. PICK q : q = <<e>>
        OBVIOUS
      <4>2. q \in Seq(B) /\ Len(q) = 1 /\ q[1] = e
        BY <3>5, <4>1
      <4>3. \A i \in 1 .. 1 : T[i] = q[i]
        BY <3>7, <4>2
      <4>4. T = q
        BY <1>5, <3>7, <4>2, <4>3, SeqEqual
      <4>5. QED
        BY <4>1, <4>4
    <3>9. Append(<<>>, <<>>) = <<e>>
      BY <3>3
    <3>10. Append(<<>>, <<>>) = T
      BY <3>8, <3>9
    <3>11. QED
      BY <3>1, <3>2, <3>10, Zenon
  <2>3. QED
    BY <2>1, <2>2
<1>9. readSSEEvents((u \o DataPart(data)) \o <<LF>>) = <<[event |-> event, data |-> JoinedLines(T)]>>
  BY <1>6, <1>8, ReadsEnd
<1>10. QED
  BY <1>7, <1>8, <1>9

LEMMA EventFramed ==
  ASSUME NEW ev, Unbroken(ev.event), ev.data \in Seq(Chars)
  PROVE  readSSEEvents(Greeting \o writeSSEEvent(ev)) =
           <<[event |-> Unreturned(ev.event), data |-> Unreturned(ev.data)]>>
<1>1. PICK g, x, y, l : g = Greeting /\ x = NamePart(ev.event) /\ y = DataPart(ev.data) /\ l = <<LF>>
  OBVIOUS
<1>2. g \in Seq(Chars)
  BY <1>1, GreetingRead
<1>3. x \in Seq(Chars) /\ g \o x \in Seq(Chars) /\ Reads(g \o x, Amid(Unreturned(ev.event), <<>>))
  BY <1>1, NamePartRead
<1>4. PICK u : u = g \o x
  OBVIOUS
<1>5. /\ y \in Seq(Chars)
      /\ readSSEEvents((u \o y) \o l) = <<[event |-> Unreturned(ev.event), data |-> Unreturned(ev.data)]>>
  <2>1. u \in Seq(Chars) /\ Reads(u, Amid(Unreturned(ev.event), <<>>))
    BY <1>3, <1>4
  <2>2. QED
    BY <1>1, <2>1, DataPartRead
<1>6. l \in Seq(Chars)
  BY <1>1, CharsAre
<1>7. writeSSEEvent(ev) = (x \o y) \o l
  BY <1>1 DEF writeSSEEvent, NamePart, DataPart, DataLines
<1>8. x \o y \in Seq(Chars) /\ u \in Seq(Chars)
  BY <1>3, <1>4, <1>5, ConcatProperties
<1>9. g \o ((x \o y) \o l) = (g \o (x \o y)) \o l
  <2>1. PICK z : z = x \o y
    OBVIOUS
  <2>2. z \in Seq(Chars)
    BY <1>8, <2>1
  <2>3. (g \o z) \o l = g \o (z \o l)
    BY <1>2, <1>6, <2>2, ConcatAssociative
  <2>4. QED
    BY <2>1, <2>3, Zenon
<1>10. g \o (x \o y) = (g \o x) \o y
  BY <1>2, <1>3, <1>5, ConcatAssociative
<1>11. g \o writeSSEEvent(ev) = (u \o y) \o l
  BY <1>4, <1>7, <1>9, <1>10
<1>12. QED
  BY <1>1, <1>5, <1>11

-----------------------------------------------------------------------------
SentTyped == Unbroken(sent.event) /\ sent.data \in Seq(Chars)

LEMMA TextsTyped ==
  ASSUME NEW S, NEW n, NEW t \in TextsUpTo(S, n)
  PROVE  t \in Seq(S)
<1>1. PICK k \in 0 .. n : t \in [1 .. k -> S]
  BY DEF TextsUpTo
<1>2. k \in Nat
  BY <1>1
<1>3. QED
  BY <1>1, <1>2

LEMMA SentStarts == Init => SentTyped
<1> SUFFICES ASSUME Init PROVE SentTyped
  OBVIOUS
<1>1. sent.event \in TextsUpTo(Inline, MaxName) /\ sent.data \in TextsUpTo(Inline \cup {LF}, MaxData)
  BY DEF Init
<1>2. Inline \subseteq Chars /\ Inline \cup {LF} \subseteq Chars /\ LF \notin Inline
  BY DEF Inline, Chars, CR, LF
<1>3. sent.event \in Seq(Inline) /\ sent.data \in Seq(Inline \cup {LF})
  BY <1>1, TextsTyped
<1>4. sent.event \in Seq(Chars) /\ sent.data \in Seq(Chars)
  BY <1>2, <1>3
<1>5. \A j \in 1 .. Len(sent.event) : sent.event[j] # LF
  BY <1>2, <1>3
<1>6. QED
  BY <1>4, <1>5 DEF SentTyped, Unbroken

LEMMA SentStays == SentTyped /\ [Next]_vars => SentTyped'
BY DEF SentTyped, Next, vars

LEMMA SentFramed == SentTyped => Framed
BY EventFramed DEF SentTyped, Framed

(* An event that is written to a connection, of any name and any data, is  *)
(* read from it as one event, with that name and that data but for the     *)
(* carriage returns that end the name or a line: writeSSEEvent and         *)
(* readSSEEvents of sse.go, whatever the two bounds are.                   *)
THEOREM EventsFramed == Spec => []Framed
<1>1. Spec => []SentTyped
  BY SentStarts, SentStays, PTL DEF Spec
<1>2. QED
  BY <1>1, SentFramed, PTL
=============================================================================
