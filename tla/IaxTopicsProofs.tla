-------------------------- MODULE IaxTopicsProofs --------------------------
(***************************************************************************)
(* Proofs about IaxTopics, for patterns and topics of any length over any  *)
(* letters: that taking each part of a pattern as early as it can be is no *)
(* loss, and what a single star takes too much.                            *)
(*                                                                         *)
(* Both sides are compared by where things end in the topic: Reach, of the *)
(* letters of the pattern, is what Glob says; Placed is the same of its    *)
(* parts; and Cursor is the first of the places that Placed allows.        *)
(***************************************************************************)
EXTENDS IaxTopics, SequenceTheorems, WellFoundedInduction, TLAPS

-----------------------------------------------------------------------------
LEMMA LeastNumber ==
  ASSUME NEW T, T \subseteq Nat, T # {}
  PROVE  \E m \in T : \A k \in T : m <= k
<1>1. PICK R : R = {ss \in Nat \X Nat : ss[1] < ss[2]}
  OBVIOUS
<1>2. IsWellFoundedOn(R, Nat)
  BY <1>1, NatLessThanWellFounded DEF OpToRel
<1>3. PICK x \in T : \A y \in T : ~(<<y, x>> \in R)
  BY <1>2, WFMin
<1>4. ASSUME NEW y \in T PROVE x <= y
  <2>1. x \in Nat /\ y \in Nat /\ ~(y < x)
    BY <1>1, <1>3
  <2>2. QED
    BY <2>1
<1>5. QED
  BY <1>4

(* Part w begins behind place k of t; it ends at place e of t.             *)
Occurs(w, t, k) == \A j \in 1 .. Len(w) : t[k + j] = w[j]
EndsAt(w, t, e) == Len(w) <= e /\ Occurs(w, t, e - Len(w))

LEMMA OccursIs ==
  ASSUME NEW A, NEW w \in Seq(A), NEW t \in Seq(A), NEW k \in 0 .. Len(t), k + Len(w) <= Len(t)
  PROVE  SubSeq(t, k + 1, k + Len(w)) = w <=> Occurs(w, t, k)
<1>1. Len(w) \in Nat /\ Len(t) \in Nat
  OBVIOUS
<1>2. PICK s : s = SubSeq(t, k + 1, k + Len(w))
  OBVIOUS
<1>3. s \in Seq(A) /\ Len(s) = Len(w) /\ \A j \in 1 .. Len(w) : s[j] = t[k + j]
  <2>1. \A i \in k + 1 .. k + Len(w) : t[i] \in A
    BY <1>1
  <2>2. /\ SubSeq(t, k + 1, k + Len(w)) \in Seq(A)
        /\ Len(SubSeq(t, k + 1, k + Len(w))) = IF k + 1 <= k + Len(w) THEN k + Len(w) - (k + 1) + 1 ELSE 0
        /\ \A j \in 1 .. k + Len(w) - (k + 1) + 1 : SubSeq(t, k + 1, k + Len(w))[j] = t[k + 1 + j - 1]
    BY <1>1, <2>1, SubSeqProperties
  <2>3. QED
    BY <1>1, <1>2, <2>2
<1>4. s = w <=> \A j \in 1 .. Len(w) : s[j] = w[j]
  BY <1>3, SeqEqual
<1>5. QED
  BY <1>2, <1>3, <1>4 DEF Occurs

LEMMA PrefixIs ==
  ASSUME NEW A, NEW w \in Seq(A), NEW t \in Seq(A)
  PROVE  IsPrefix(w, t) <=> Len(w) <= Len(t) /\ Occurs(w, t, 0)
<1>1. Len(w) \in Nat /\ Len(t) \in Nat
  OBVIOUS
<1>2. SubSeq(w, 1, Len(w)) = w
  BY SubSeqFull
<1>3. Len(w) <= Len(t) => (SubSeq(t, 0 + 1, 0 + Len(w)) = w <=> Occurs(w, t, 0))
  <2> SUFFICES ASSUME Len(w) <= Len(t) PROVE SubSeq(t, 0 + 1, 0 + Len(w)) = w <=> Occurs(w, t, 0)
    OBVIOUS
  <2>1. 0 \in 0 .. Len(t) /\ 0 + Len(w) <= Len(t)
    BY <1>1
  <2>2. QED
    BY <2>1, OccursIs
<1>4. 0 + 1 = 1 /\ 0 + Len(w) = Len(w)
  BY <1>1
<1>5. QED
  BY <1>2, <1>3, <1>4 DEF IsPrefix

LEMMA SuffixIs ==
  ASSUME NEW A, NEW w \in Seq(A), NEW t \in Seq(A)
  PROVE  IsSuffix(w, t) <=> EndsAt(w, t, Len(t))
<1>1. Len(w) \in Nat /\ Len(t) \in Nat
  OBVIOUS
<1>2. PICK x, y : x = Reverse(w) /\ y = Reverse(t)
  OBVIOUS
<1>3. /\ x \in Seq(A) /\ Len(x) = Len(w) /\ \A j \in 1 .. Len(w) : x[j] = w[Len(w) - j + 1]
      /\ y \in Seq(A) /\ Len(y) = Len(t) /\ \A j \in 1 .. Len(t) : y[j] = t[Len(t) - j + 1]
  BY <1>1, <1>2 DEF Reverse
<1>4. IsSuffix(w, t) <=> Len(w) <= Len(t) /\ \A j \in 1 .. Len(w) : y[j] = x[j]
  <2>1. IsPrefix(x, y) <=> Len(x) <= Len(y) /\ Occurs(x, y, 0)
    BY <1>3, PrefixIs
  <2>2. \A j \in 1 .. Len(w) : 0 + j = j
    OBVIOUS
  <2>3. QED
    BY <1>2, <1>3, <2>1, <2>2 DEF IsSuffix, Occurs
<1>5. ASSUME Len(w) <= Len(t)
      PROVE  (\A j \in 1 .. Len(w) : y[j] = x[j]) <=> \A j \in 1 .. Len(w) : t[Len(t) - Len(w) + j] = w[j]
  <2>1. ASSUME \A j \in 1 .. Len(w) : y[j] = x[j], NEW j \in 1 .. Len(w)
        PROVE  t[Len(t) - Len(w) + j] = w[j]
    <3>1. PICK i : i = Len(w) - j + 1
      OBVIOUS
    <3>2. i \in 1 .. Len(w) /\ i \in 1 .. Len(t) /\ Len(w) - i + 1 = j /\ Len(t) - i + 1 = Len(t) - Len(w) + j
      BY <1>1, <1>5, <3>1
    <3>3. QED
      BY <1>3, <2>1, <3>2
  <2>2. ASSUME \A j \in 1 .. Len(w) : t[Len(t) - Len(w) + j] = w[j], NEW j \in 1 .. Len(w)
        PROVE  y[j] = x[j]
    <3>1. PICK i : i = Len(w) - j + 1
      OBVIOUS
    <3>2. i \in 1 .. Len(w) /\ j \in 1 .. Len(t) /\ Len(t) - j + 1 = Len(t) - Len(w) + i
      BY <1>1, <1>5, <3>1
    <3>3. QED
      BY <1>3, <2>2, <3>1, <3>2
  <2>3. QED
    BY <2>1, <2>2
<1>6. QED
  BY <1>4, <1>5 DEF EndsAt, Occurs

LEMMA EndsAtGrows ==
  ASSUME NEW A, NEW w \in Seq(A), NEW c \in A, NEW t, NEW e \in Nat
  PROVE  EndsAt(Append(w, c), t, e) <=> e # 0 /\ EndsAt(w, t, e - 1) /\ t[e] = c
<1>1. PICK v, n : v = Append(w, c) /\ n = Len(w)
  OBVIOUS
<1>2. n \in Nat /\ Len(v) = n + 1 /\ v[n + 1] = c /\ \A j \in 1 .. n : v[j] = w[j]
  BY <1>1, AppendProperties
<1>3. EndsAt(v, t, e) <=> n + 1 <= e /\ \A j \in 1 .. n + 1 : t[e - (n + 1) + j] = v[j]
  BY <1>2 DEF EndsAt, Occurs
<1>4. EndsAt(w, t, e - 1) <=> n <= e - 1 /\ \A j \in 1 .. n : t[e - 1 - n + j] = w[j]
  BY <1>1 DEF EndsAt, Occurs
<1>5. ASSUME n + 1 <= e
      PROVE  (\A j \in 1 .. n + 1 : t[e - (n + 1) + j] = v[j]) <=>
               t[e] = c /\ \A j \in 1 .. n : t[e - 1 - n + j] = w[j]
  <2>1. \A j \in 1 .. n + 1 : e - (n + 1) + j = e - 1 - n + j
    BY <1>2
  <2>2. e - 1 - n + (n + 1) = e
    BY <1>2
  <2>3. \A j \in 1 .. n + 1 : j = n + 1 \/ j \in 1 .. n
    BY <1>2
  <2>4. n + 1 \in 1 .. n + 1 /\ \A j \in 1 .. n : j \in 1 .. n + 1
    BY <1>2
  <2>5. QED
    BY <1>2, <2>1, <2>2, <2>3, <2>4
<1>6. n + 1 <= e <=> e # 0 /\ n <= e - 1
  BY <1>2
<1>7. QED
  BY <1>1, <1>3, <1>4, <1>5, <1>6

-----------------------------------------------------------------------------
(* The parts of the first letters of a pattern.                            *)

SplitTo(f, n, p) == f = [i \in 0 .. n |-> IF i = 0 THEN << <<>> >> ELSE Scanned(f[i - 1], p[i])]

LEMMA SplitGrows ==
  ASSUME NEW n \in Nat, NEW p, NEW f, SplitTo(f, n, p)
  PROVE  \E g : SplitTo(g, n + 1, p)
<1> DEFINE g == [i \in 0 .. n + 1 |-> IF i = n + 1 THEN Scanned(f[n], p[n + 1]) ELSE f[i]]
<1>1. \A i \in 0 .. n : f[i] = IF i = 0 THEN << <<>> >> ELSE Scanned(f[i - 1], p[i])
  BY DEF SplitTo
<1>2. \A i \in 0 .. n : i # n + 1 /\ i \in 0 .. n + 1 /\ g[i] = f[i]
  OBVIOUS
<1>3. ASSUME NEW i \in 0 .. n + 1
      PROVE  g[i] = IF i = 0 THEN << <<>> >> ELSE Scanned(g[i - 1], p[i])
  <2>1. CASE i = n + 1
    <3>1. i - 1 = n /\ i # 0 /\ n \in 0 .. n
      BY <2>1
    <3>2. g[i - 1] = f[n] /\ g[i] = Scanned(f[n], p[i])
      BY <1>2, <2>1, <3>1
    <3>3. QED
      BY <3>1, <3>2
  <2>2. CASE i # n + 1
    <3>1. i \in 0 .. n /\ (i # 0 => i - 1 \in 0 .. n)
      BY <2>2
    <3>2. QED
      BY <1>1, <1>2, <3>1
  <2>3. QED
    BY <2>1, <2>2
<1>4. SplitTo(g, n + 1, p)
  BY <1>3 DEF SplitTo
<1>5. QED
  BY <1>4

LEMMA SplitExists ==
  ASSUME NEW p, NEW n \in Nat
  PROVE  \E f : SplitTo(f, n, p)
<1> SUFFICES ASSUME ~(\E f : SplitTo(f, n, p)) PROVE FALSE
  OBVIOUS
<1>1. PICK bad : bad = {k \in Nat : ~(\E f : SplitTo(f, k, p))}
  OBVIOUS
<1>2. PICK m \in bad : \A k \in bad : m <= k
  BY <1>1, LeastNumber
<1>3. m # 0
  <2>1. PICK f : f = [i \in 0 .. 0 |-> << <<>> >>]
    OBVIOUS
  <2>2. \A i \in 0 .. 0 : i = 0
    OBVIOUS
  <2>3. f = [i \in 0 .. 0 |-> IF i = 0 THEN << <<>> >> ELSE Scanned(f[i - 1], p[i])]
    BY <2>1, <2>2
  <2>4. QED
    BY <1>1, <1>2, <2>3 DEF SplitTo
<1>4. m \in Nat /\ m - 1 \in Nat /\ ~(m <= m - 1) /\ (m - 1) + 1 = m
  BY <1>1, <1>2, <1>3
<1>5. PICK f : SplitTo(f, m - 1, p)
  BY <1>1, <1>2, <1>4
<1>6. \E g : SplitTo(g, (m - 1) + 1, p)
  BY <1>4, <1>5, SplitGrows
<1>7. QED
  BY <1>1, <1>2, <1>4, <1>6

LEMMA PartsAre ==
  ASSUME NEW p, Len(p) \in Nat
  PROVE  \E f : /\ Parts(p) = f[Len(p)] /\ f[0] = << <<>> >>
                /\ \A i \in 1 .. Len(p) : f[i] = Scanned(f[i - 1], p[i])
<1> DEFINE f == CHOOSE f : f = [i \in 0 .. Len(p) |-> IF i = 0 THEN << <<>> >> ELSE Scanned(f[i - 1], p[i])]
<1>1. \E g : g = [i \in 0 .. Len(p) |-> IF i = 0 THEN << <<>> >> ELSE Scanned(g[i - 1], p[i])]
  <2>1. PICK n : n = Len(p)
    OBVIOUS
  <2>2. \E g : SplitTo(g, n, p)
    BY <2>1, SplitExists
  <2>3. QED
    BY <2>1, <2>2 DEF SplitTo
<1>2. f = [i \in 0 .. Len(p) |-> IF i = 0 THEN << <<>> >> ELSE Scanned(f[i - 1], p[i])]
  BY <1>1
<1>3. Parts(p) = f[Len(p)]
  BY DEF Parts
<1> HIDE DEF f
<1>4. f[0] = << <<>> >>
  <2>1. 0 \in 0 .. Len(p)
    OBVIOUS
  <2>2. QED
    BY <1>2, <2>1
<1>5. ASSUME NEW i \in 1 .. Len(p) PROVE f[i] = Scanned(f[i - 1], p[i])
  <2>1. i \in 0 .. Len(p) /\ i # 0
    OBVIOUS
  <2>2. QED
    BY <1>2, <2>1
<1>6. QED
  BY <1>3, <1>4, <1>5

(* One more letter begins a part, or is the last of the last part.         *)
Longer(ps, c, qs) ==
  /\ Len(qs) = Len(ps)
  /\ qs[Len(ps)] = Append(ps[Len(ps)], c)
  /\ \A j \in 1 .. Len(ps) - 1 : qs[j] = ps[j]
OneMore(ps, qs) ==
  /\ Len(qs) = Len(ps) + 1 /\ qs[Len(ps) + 1] = <<>>
  /\ \A j \in 1 .. Len(ps) : qs[j] = ps[j]

LEMMA ScannedIs ==
  ASSUME NEW A, NEW ps \in Seq(Seq(A)), Len(ps) # 0, NEW c \in A
  PROVE  /\ Scanned(ps, c) \in Seq(Seq(A))
         /\ IF c = Star THEN OneMore(ps, Scanned(ps, c)) ELSE Longer(ps, c, Scanned(ps, c))
<1>1. PICK B, n : B = Seq(A) /\ n = Len(ps)
  OBVIOUS
<1>2. ps \in Seq(B) /\ n \in Nat /\ n # 0 /\ <<>> \in B
  BY <1>1
<1>3. CASE c = Star
  <2>1. PICK e : e = <<>>
    OBVIOUS
  <2>2. /\ Append(ps, e) \in Seq(B) /\ Len(Append(ps, e)) = n + 1 /\ Append(ps, e)[n + 1] = e
        /\ \A j \in 1 .. n : Append(ps, e)[j] = ps[j]
    BY <1>1, <1>2, <2>1, AppendProperties
  <2>3. QED
    BY <1>1, <1>3, <2>1, <2>2 DEF Scanned, OneMore
<1>4. CASE c # Star
  <2>1. PICK l, r : l = ps[n] /\ r = SubSeq(ps, 1, n - 1)
    OBVIOUS
  <2>2. l \in Seq(A)
    BY <1>1, <1>2, <2>1
  <2>3. r \in Seq(B) /\ Len(r) = n - 1 /\ \A j \in 1 .. n - 1 : r[j] = ps[j]
    <3>1. \A j \in 1 .. n - 1 : ps[j] \in B
      BY <1>1, <1>2
    <3>2. /\ SubSeq(ps, 1, n - 1) \in Seq(B)
          /\ Len(SubSeq(ps, 1, n - 1)) = IF 1 <= n - 1 THEN n - 1 - 1 + 1 ELSE 0
          /\ \A j \in 1 .. n - 1 - 1 + 1 : SubSeq(ps, 1, n - 1)[j] = ps[1 + j - 1]
      BY <1>2, <3>1, SubSeqProperties
    <3>3. QED
      BY <1>2, <2>1, <3>2
  <2>4. PICK v : v = Append(l, c)
    OBVIOUS
  <2>5. v \in B
    BY <1>1, <2>2, <2>4
  <2>6. PICK s : s = Append(r, v)
    OBVIOUS
  <2>7. s \in Seq(B) /\ Len(s) = n - 1 + 1 /\ s[n - 1 + 1] = v /\ \A j \in 1 .. n - 1 : s[j] = r[j]
    BY <2>3, <2>5, <2>6, AppendProperties
  <2>8. Scanned(ps, c) = s
    BY <1>1, <1>4, <2>1, <2>4, <2>6 DEF Scanned, Front, Last
  <2>9. n - 1 + 1 = n
    BY <1>2
  <2>10. QED
    BY <1>1, <1>4, <2>1, <2>3, <2>4, <2>7, <2>8, <2>9 DEF Longer
<1>5. QED
  BY <1>3, <1>4

-----------------------------------------------------------------------------
(* The first i letters of p may end at place e of t.                       *)
ReachedBy(end, p, t, i) ==
  /\ end \in [0 .. i -> 0 .. Len(t)] /\ end[0] = 0
  /\ \A j \in 1 .. i : IF p[j] = Star THEN end[j - 1] <= end[j]
                       ELSE end[j] = end[j - 1] + 1 /\ t[end[j]] = p[j]
Reach(p, t, i, e) == \E end : ReachedBy(end, p, t, i) /\ end[i] = e

LEMMA GlobIs == ASSUME NEW p, NEW t PROVE Glob(p, t) <=> Reach(p, t, Len(p), Len(t))
BY DEF Glob, Reach, ReachedBy

LEMMA ReachNothing ==
  ASSUME NEW p, NEW t, Len(t) \in Nat, NEW e
  PROVE  Reach(p, t, 0, e) <=> e = 0
<1>1. ASSUME Reach(p, t, 0, e) PROVE e = 0
  BY <1>1 DEF Reach, ReachedBy
<1>2. ASSUME e = 0 PROVE Reach(p, t, 0, e)
  <2>1. PICK end : end = [i \in 0 .. 0 |-> 0]
    OBVIOUS
  <2>2. end \in [0 .. 0 -> 0 .. Len(t)] /\ end[0] = 0
    BY <2>1
  <2>3. \A j \in 1 .. 0 : FALSE
    OBVIOUS
  <2>4. QED
    BY <1>2, <2>2, <2>3 DEF Reach, ReachedBy
<1>3. QED
  BY <1>1, <1>2

LEMMA ReachGrows ==
  ASSUME NEW p, NEW t, Len(t) \in Nat, NEW i \in Nat, NEW end, NEW e \in 0 .. Len(t),
         ReachedBy(end, p, t, i),
         IF p[i + 1] = Star THEN end[i] <= e ELSE e = end[i] + 1 /\ t[e] = p[i + 1]
  PROVE  Reach(p, t, i + 1, e)
<1>1. PICK to : to = [j \in 0 .. i + 1 |-> IF j = i + 1 THEN e ELSE end[j]]
  OBVIOUS
<1>2. end \in [0 .. i -> 0 .. Len(t)] /\ end[0] = 0
  BY DEF ReachedBy
<1>3. to[i + 1] = e /\ \A j \in 0 .. i : to[j] = end[j]
  BY <1>1
<1>4. to \in [0 .. i + 1 -> 0 .. Len(t)] /\ to[0] = 0
  BY <1>1, <1>2, <1>3
<1>5. ASSUME NEW j \in 1 .. i + 1
      PROVE  IF p[j] = Star THEN to[j - 1] <= to[j] ELSE to[j] = to[j - 1] + 1 /\ t[to[j]] = p[j]
  <2>1. CASE j = i + 1
    <3>1. j - 1 = i /\ i \in 0 .. i
      BY <2>1
    <3>2. to[j] = e /\ to[j - 1] = end[i]
      BY <1>3, <2>1, <3>1
    <3>3. QED
      BY <2>1, <3>2
  <2>2. CASE j # i + 1
    <3>1. j \in 1 .. i /\ j \in 0 .. i /\ j - 1 \in 0 .. i
      BY <2>2
    <3>2. QED
      BY <1>3, <3>1 DEF ReachedBy
  <2>3. QED
    BY <2>1, <2>2
<1>6. ReachedBy(to, p, t, i + 1)
  BY <1>4, <1>5 DEF ReachedBy
<1>7. QED
  BY <1>3, <1>6 DEF Reach

(* A letter moves the end from d to e.                                     *)
Moves(p, t, i, d, e) == IF p[i] = Star THEN d <= e ELSE e = d + 1 /\ t[e] = p[i]

LEMMA ReachShrinks ==
  ASSUME NEW p, NEW t, Len(t) \in Nat, NEW i \in Nat, NEW e, Reach(p, t, i + 1, e)
  PROVE  e \in 0 .. Len(t) /\ \E d \in 0 .. Len(t) : Reach(p, t, i, d) /\ Moves(p, t, i + 1, d, e)
<1>1. PICK to : ReachedBy(to, p, t, i + 1) /\ to[i + 1] = e
  BY DEF Reach
<1>2. to \in [0 .. i + 1 -> 0 .. Len(t)] /\ to[0] = 0
  BY <1>1 DEF ReachedBy
<1>3. PICK end : end = [j \in 0 .. i |-> to[j]]
  OBVIOUS
<1>4. \A j \in 0 .. i : end[j] = to[j]
  BY <1>3
<1>5. \A j \in 0 .. i : j \in 0 .. i + 1
  OBVIOUS
<1>6. end \in [0 .. i -> 0 .. Len(t)] /\ end[0] = 0
  BY <1>2, <1>3, <1>4, <1>5
<1>7. ASSUME NEW j \in 1 .. i
      PROVE  IF p[j] = Star THEN end[j - 1] <= end[j] ELSE end[j] = end[j - 1] + 1 /\ t[end[j]] = p[j]
  <2>1. j \in 0 .. i /\ j - 1 \in 0 .. i /\ j \in 1 .. i + 1
    OBVIOUS
  <2>2. QED
    BY <1>1, <1>4, <2>1 DEF ReachedBy
<1>8. Reach(p, t, i, end[i])
  BY <1>6, <1>7 DEF Reach, ReachedBy
<1>9. i + 1 \in 1 .. i + 1 /\ i + 1 - 1 = i /\ i \in 0 .. i /\ i + 1 \in 0 .. i + 1
  OBVIOUS
<1>10. Moves(p, t, i + 1, end[i], e)
  BY <1>1, <1>4, <1>9 DEF ReachedBy, Moves
<1>11. QED
  BY <1>1, <1>2, <1>6, <1>8, <1>9, <1>10

LEMMA ReachStep ==
  ASSUME NEW p, NEW t, Len(t) \in Nat, NEW i \in Nat, NEW e
  PROVE  Reach(p, t, i + 1, e) <=>
           e \in 0 .. Len(t) /\ \E d \in 0 .. Len(t) : Reach(p, t, i, d) /\ Moves(p, t, i + 1, d, e)
<1>1. ASSUME NEW d \in 0 .. Len(t), Reach(p, t, i, d), e \in 0 .. Len(t), Moves(p, t, i + 1, d, e)
      PROVE  Reach(p, t, i + 1, e)
  <2>1. PICK end : ReachedBy(end, p, t, i) /\ end[i] = d
    BY <1>1 DEF Reach
  <2>2. QED
    BY <1>1, <2>1, ReachGrows DEF Moves
<1>2. ASSUME Reach(p, t, i + 1, e)
      PROVE  e \in 0 .. Len(t) /\ \E d \in 0 .. Len(t) : Reach(p, t, i, d) /\ Moves(p, t, i + 1, d, e)
  BY <1>2, ReachShrinks
<1>3. QED
  BY <1>1, <1>2

(* The first n of the parts ps may end at place e of t, the first of them  *)
(* at its beginning.                                                       *)
PlacedBy(at, ps, t, n) ==
  /\ at \in [1 .. n -> 0 .. Len(t)] /\ at[1] = Len(ps[1])
  /\ \A j \in 1 .. n : EndsAt(ps[j], t, at[j])
  /\ \A j \in 2 .. n : at[j - 1] + Len(ps[j]) <= at[j]
Placed(ps, t, n, e) == \E at : PlacedBy(at, ps, t, n) /\ at[n] = e

LEMMA PlacedFirst ==
  ASSUME NEW ps, NEW t, Len(t) \in Nat, NEW e
  PROVE  Placed(ps, t, 1, e) <=> e = Len(ps[1]) /\ e \in 0 .. Len(t) /\ EndsAt(ps[1], t, e)
<1>1. 1 \in 1 .. 1 /\ (\A j \in 1 .. 1 : j = 1) /\ \A j \in 2 .. 1 : FALSE
  OBVIOUS
<1>2. ASSUME Placed(ps, t, 1, e) PROVE e = Len(ps[1]) /\ e \in 0 .. Len(t) /\ EndsAt(ps[1], t, e)
  BY <1>1, <1>2 DEF Placed, PlacedBy
<1>3. ASSUME e = Len(ps[1]), e \in 0 .. Len(t), EndsAt(ps[1], t, e) PROVE Placed(ps, t, 1, e)
  <2>1. PICK at : at = [j \in 1 .. 1 |-> e]
    OBVIOUS
  <2>2. at \in [1 .. 1 -> 0 .. Len(t)] /\ at[1] = e
    BY <1>1, <1>3, <2>1
  <2>3. PlacedBy(at, ps, t, 1)
    BY <1>1, <1>3, <2>2 DEF PlacedBy
  <2>4. QED
    BY <2>2, <2>3 DEF Placed
<1>4. QED
  BY <1>2, <1>3

LEMMA PlacedStep ==
  ASSUME NEW ps, NEW t, Len(t) \in Nat, NEW n \in Nat, n # 0, NEW e
  PROVE  Placed(ps, t, n + 1, e) <=>
           /\ e \in 0 .. Len(t) /\ EndsAt(ps[n + 1], t, e)
           /\ \E d \in 0 .. Len(t) : Placed(ps, t, n, d) /\ d + Len(ps[n + 1]) <= e
<1>1. /\ n \in 1 .. n /\ n + 1 \in 1 .. n + 1 /\ n + 1 \in 2 .. n + 1 /\ n + 1 - 1 = n /\ 1 \in 1 .. n
      /\ \A j \in 1 .. n : j \in 1 .. n + 1 /\ j # n + 1
      /\ \A j \in 2 .. n : j \in 2 .. n + 1 /\ j \in 1 .. n /\ j - 1 \in 1 .. n
      /\ \A j \in 1 .. n + 1 : j = n + 1 \/ j \in 1 .. n
      /\ \A j \in 2 .. n + 1 : j = n + 1 \/ j \in 2 .. n
  OBVIOUS
<1>2. ASSUME Placed(ps, t, n + 1, e)
      PROVE  /\ e \in 0 .. Len(t) /\ EndsAt(ps[n + 1], t, e)
             /\ \E d \in 0 .. Len(t) : Placed(ps, t, n, d) /\ d + Len(ps[n + 1]) <= e
  <2>1. PICK to : PlacedBy(to, ps, t, n + 1) /\ to[n + 1] = e
    BY <1>2 DEF Placed
  <2>2. to \in [1 .. n + 1 -> 0 .. Len(t)]
    BY <2>1 DEF PlacedBy
  <2>3. PICK at : at = [j \in 1 .. n |-> to[j]]
    OBVIOUS
  <2>4. \A j \in 1 .. n : at[j] = to[j]
    BY <2>3
  <2>5. at \in [1 .. n -> 0 .. Len(t)]
    BY <1>1, <2>2, <2>3
  <2>6. PlacedBy(at, ps, t, n)
    BY <1>1, <2>1, <2>4, <2>5 DEF PlacedBy
  <2>7. at[n] \in 0 .. Len(t) /\ at[n] + Len(ps[n + 1]) <= e
    BY <1>1, <2>1, <2>4, <2>5 DEF PlacedBy
  <2>8. e \in 0 .. Len(t) /\ EndsAt(ps[n + 1], t, e)
    BY <1>1, <2>1, <2>2 DEF PlacedBy
  <2>9. QED
    BY <2>6, <2>7, <2>8 DEF Placed
<1>3. ASSUME e \in 0 .. Len(t), EndsAt(ps[n + 1], t, e),
             NEW d \in 0 .. Len(t), Placed(ps, t, n, d), d + Len(ps[n + 1]) <= e
      PROVE  Placed(ps, t, n + 1, e)
  <2>1. PICK at : PlacedBy(at, ps, t, n) /\ at[n] = d
    BY <1>3 DEF Placed
  <2>2. PICK to : to = [j \in 1 .. n + 1 |-> IF j = n + 1 THEN e ELSE at[j]]
    OBVIOUS
  <2>3. to[n + 1] = e /\ \A j \in 1 .. n : to[j] = at[j]
    BY <1>1, <2>2
  <2>4. at \in [1 .. n -> 0 .. Len(t)]
    BY <2>1 DEF PlacedBy
  <2>5. to \in [1 .. n + 1 -> 0 .. Len(t)]
    BY <1>1, <1>3, <2>2, <2>3, <2>4
  <2>6. to[1] = Len(ps[1])
    BY <1>1, <2>1, <2>3 DEF PlacedBy
  <2>7. ASSUME NEW j \in 1 .. n + 1 PROVE EndsAt(ps[j], t, to[j])
    BY <1>1, <1>3, <2>1, <2>3 DEF PlacedBy
  <2>8. ASSUME NEW j \in 2 .. n + 1 PROVE to[j - 1] + Len(ps[j]) <= to[j]
    <3>1. CASE j = n + 1
      BY <1>1, <1>3, <2>1, <2>3, <3>1
    <3>2. CASE j \in 2 .. n
      BY <1>1, <2>1, <2>3, <3>2 DEF PlacedBy
    <3>3. QED
      BY <1>1, <3>1, <3>2
  <2>9. PlacedBy(to, ps, t, n + 1)
    BY <2>5, <2>6, <2>7, <2>8 DEF PlacedBy
  <2>10. QED
    BY <2>3, <2>9 DEF Placed
<1>4. QED
  BY <1>2, <1>3

LEMMA PlacedLocal ==
  ASSUME NEW ps, NEW qs, NEW t, NEW n \in Nat, n # 0, \A j \in 1 .. n : qs[j] = ps[j], NEW e
  PROVE  Placed(qs, t, n, e) <=> Placed(ps, t, n, e)
<1>1. 1 \in 1 .. n /\ \A j \in 2 .. n : j \in 1 .. n
  OBVIOUS
<1>2. \A at : PlacedBy(at, qs, t, n) <=> PlacedBy(at, ps, t, n)
  BY <1>1 DEF PlacedBy
<1>3. QED
  BY <1>2 DEF Placed

(* One more letter moves both ends alike.                                  *)
SameEnds(p, t, i, ps) == \A e : Reach(p, t, i, e) <=> Placed(ps, t, Len(ps), e)

LEMMA StarMoves ==
  ASSUME NEW p, NEW t, Len(t) \in Nat, NEW i \in Nat, p[i + 1] = Star,
         NEW ps, Len(ps) \in Nat, Len(ps) # 0, SameEnds(p, t, i, ps), NEW qs, OneMore(ps, qs)
  PROVE  SameEnds(p, t, i + 1, qs)
<1>1. PICK n : n = Len(ps)
  OBVIOUS
<1>2. n \in Nat /\ n # 0 /\ Len(qs) = n + 1 /\ qs[n + 1] = <<>> /\ \A j \in 1 .. n : qs[j] = ps[j]
  BY <1>1 DEF OneMore
<1>3. Len(qs[n + 1]) = 0
  BY <1>2
<1> SUFFICES ASSUME NEW e PROVE Reach(p, t, i + 1, e) <=> Placed(qs, t, n + 1, e)
  BY <1>2 DEF SameEnds
<1>4. \A d : Placed(qs, t, n, d) <=> Reach(p, t, i, d)
  BY <1>1, <1>2, PlacedLocal DEF SameEnds
<1>5. e \in 0 .. Len(t) => EndsAt(qs[n + 1], t, e)
  BY <1>3 DEF EndsAt, Occurs
<1>6. Placed(qs, t, n + 1, e) <=>
        /\ e \in 0 .. Len(t) /\ EndsAt(qs[n + 1], t, e)
        /\ \E d \in 0 .. Len(t) : Placed(qs, t, n, d) /\ d + Len(qs[n + 1]) <= e
  BY <1>2, PlacedStep
<1>7. \A d \in 0 .. Len(t) : Moves(p, t, i + 1, d, e) <=> d + Len(qs[n + 1]) <= e
  BY <1>3 DEF Moves
<1>8. Reach(p, t, i + 1, e) <=>
        e \in 0 .. Len(t) /\ \E d \in 0 .. Len(t) : Reach(p, t, i, d) /\ Moves(p, t, i + 1, d, e)
  BY ReachStep
<1>9. QED
  BY <1>4, <1>5, <1>6, <1>7, <1>8

LEMMA LetterMoves ==
  ASSUME NEW A, NEW p, NEW t, Len(t) \in Nat, NEW i \in Nat, p[i + 1] \in A, p[i + 1] # Star,
         NEW ps \in Seq(Seq(A)), Len(ps) # 0, SameEnds(p, t, i, ps), NEW qs, Longer(ps, p[i + 1], qs)
  PROVE  SameEnds(p, t, i + 1, qs)
<1>1. PICK n, c, w : n = Len(ps) /\ c = p[i + 1] /\ w = ps[n]
  OBVIOUS
<1>2. n \in Nat /\ n # 0 /\ w \in Seq(A) /\ c \in A /\ Len(w) \in Nat
  BY <1>1
<1>3. Len(qs) = n /\ qs[n] = Append(w, c) /\ \A j \in 1 .. n - 1 : qs[j] = ps[j]
  BY <1>1 DEF Longer
<1>4. Len(qs[n]) = Len(w) + 1
  BY <1>2, <1>3
<1> SUFFICES ASSUME NEW e PROVE Reach(p, t, i + 1, e) <=> Placed(qs, t, n, e)
  BY <1>3 DEF SameEnds
<1>5. Reach(p, t, i + 1, e) <=> e \in 0 .. Len(t) /\ e # 0 /\ t[e] = c /\ Placed(ps, t, n, e - 1)
  <2>1. Reach(p, t, i + 1, e) <=>
          e \in 0 .. Len(t) /\ \E d \in 0 .. Len(t) : Reach(p, t, i, d) /\ Moves(p, t, i + 1, d, e)
    BY ReachStep
  <2>2. e \in 0 .. Len(t) => \A d \in 0 .. Len(t) : Moves(p, t, i + 1, d, e) <=> e # 0 /\ d = e - 1 /\ t[e] = c
    BY <1>1 DEF Moves
  <2>3. e \in 0 .. Len(t) /\ e # 0 => e - 1 \in 0 .. Len(t)
    OBVIOUS
  <2>4. Reach(p, t, i + 1, e) <=> e \in 0 .. Len(t) /\ e # 0 /\ t[e] = c /\ Reach(p, t, i, e - 1)
    BY <2>1, <2>2, <2>3
  <2>5. QED
    BY <1>1, <2>4 DEF SameEnds
<1>6. e \in 0 .. Len(t) => (EndsAt(qs[n], t, e) <=> e # 0 /\ EndsAt(w, t, e - 1) /\ t[e] = c)
  BY <1>2, <1>3, EndsAtGrows
<1>7. CASE n = 1
  <2>1. Placed(qs, t, 1, e) <=> e = Len(qs[1]) /\ e \in 0 .. Len(t) /\ EndsAt(qs[1], t, e)
    BY PlacedFirst
  <2>2. Placed(ps, t, 1, e - 1) <=> e - 1 = Len(ps[1]) /\ e - 1 \in 0 .. Len(t) /\ EndsAt(ps[1], t, e - 1)
    BY PlacedFirst
  <2>3. e \in 0 .. Len(t) => (e = Len(w) + 1 <=> e # 0 /\ e - 1 = Len(w) /\ e - 1 \in 0 .. Len(t))
    BY <1>2
  <2>4. QED
    BY <1>1, <1>4, <1>5, <1>6, <1>7, <2>1, <2>2, <2>3
<1>8. CASE n # 1
  <2>1. PICK m : m = n - 1
    OBVIOUS
  <2>2. m \in Nat /\ m # 0 /\ m + 1 = n
    BY <1>2, <1>8, <2>1
  <2>3. Placed(qs, t, m + 1, e) <=>
          /\ e \in 0 .. Len(t) /\ EndsAt(qs[m + 1], t, e)
          /\ \E d \in 0 .. Len(t) : Placed(qs, t, m, d) /\ d + Len(qs[m + 1]) <= e
    BY <2>2, PlacedStep
  <2>4. Placed(ps, t, m + 1, e - 1) <=>
          /\ e - 1 \in 0 .. Len(t) /\ EndsAt(ps[m + 1], t, e - 1)
          /\ \E d \in 0 .. Len(t) : Placed(ps, t, m, d) /\ d + Len(ps[m + 1]) <= e - 1
    BY <2>2, PlacedStep
  <2>5. \A d : Placed(qs, t, m, d) <=> Placed(ps, t, m, d)
    BY <1>3, <2>1, <2>2, PlacedLocal
  <2>6. e \in 0 .. Len(t) => \A d \in 0 .. Len(t) : d + (Len(w) + 1) <= e <=> d + Len(w) <= e - 1
    BY <1>2
  <2>7. e \in 0 .. Len(t) /\ e # 0 => e - 1 \in 0 .. Len(t)
    OBVIOUS
  <2>8. QED
    BY <1>1, <1>4, <1>5, <1>6, <2>2, <2>3, <2>4, <2>5, <2>6, <2>7
<1>9. QED
  BY <1>7, <1>8

(* The parts of a pattern may end where its letters may; one part is the   *)
(* pattern, and two have all of it but the star.                           *)

LEMMA PartsReach ==
  ASSUME NEW A, NEW p \in Seq(A), NEW t, Len(t) \in Nat
  PROVE  /\ Parts(p) \in Seq(Seq(A)) /\ Len(Parts(p)) # 0
         /\ SameEnds(p, t, Len(p), Parts(p))
         /\ Len(Parts(p)) = 1 => Parts(p)[1] = p
         /\ Len(Parts(p)) = 2 => Len(Parts(p)[1]) + Len(Parts(p)[2]) + 1 = Len(p)
<1>1. PICK N : N = Len(p)
  OBVIOUS
<1>2. N \in Nat /\ \A i \in 1 .. N : p[i] \in A
  BY <1>1
<1>3. PICK f : /\ Parts(p) = f[N] /\ f[0] = << <<>> >>
               /\ \A i \in 1 .. N : f[i] = Scanned(f[i - 1], p[i])
  BY <1>1, <1>2, PartsAre
<1> DEFINE
      Good(i) ==
        /\ f[i] \in Seq(Seq(A)) /\ Len(f[i]) # 0 /\ SameEnds(p, t, i, f[i])
        /\ Len(f[i]) = 1 => Len(f[i][1]) = i /\ \A j \in 1 .. i : f[i][1][j] = p[j]
        /\ Len(f[i]) = 2 => Len(f[i][1]) + Len(f[i][2]) + 1 = i
<1>4. Good(0)
  <2>1. PICK e : e = <<>>
    OBVIOUS
  <2>2. e \in Seq(A) /\ Len(e) = 0 /\ f[0] = <<e>>
    BY <1>3, <2>1
  <2>3. f[0] \in Seq(Seq(A)) /\ Len(f[0]) = 1 /\ f[0][1] = e
    BY <2>2
  <2>4. \A x : Reach(p, t, 0, x) <=> x = 0
    BY ReachNothing
  <2>5. \A x : Placed(f[0], t, 1, x) <=> x = Len(f[0][1]) /\ x \in 0 .. Len(t) /\ EndsAt(f[0][1], t, x)
    BY PlacedFirst
  <2>6. EndsAt(e, t, 0)
    BY <2>2 DEF EndsAt, Occurs
  <2>7. SameEnds(p, t, 0, f[0])
    BY <2>2, <2>3, <2>4, <2>5, <2>6 DEF SameEnds
  <2>8. QED
    BY <2>2, <2>3, <2>7
<1>5. ASSUME NEW i \in 0 .. N - 1, Good(i) PROVE Good(i + 1)
  <2>1. PICK ps, c : ps = f[i] /\ c = p[i + 1]
    OBVIOUS
  <2>2. i \in Nat /\ i + 1 \in 1 .. N /\ i + 1 - 1 = i
    BY <1>2
  <2>3. c \in A /\ ps \in Seq(Seq(A)) /\ Len(ps) # 0 /\ Len(ps) \in Nat /\ SameEnds(p, t, i, ps)
    BY <1>2, <1>5, <2>1, <2>2
  <2>4. PICK qs : qs = f[i + 1]
    OBVIOUS
  <2>5. qs = Scanned(ps, c)
    BY <1>3, <2>1, <2>2, <2>4
  <2>6. qs \in Seq(Seq(A)) /\ IF c = Star THEN OneMore(ps, qs) ELSE Longer(ps, c, qs)
    BY <2>3, <2>5, ScannedIs
  <2>7. Len(ps) = 1 => Len(ps[1]) = i /\ \A j \in 1 .. i : ps[1][j] = p[j]
    BY <1>5, <2>1
  <2>8. Len(ps) = 2 => Len(ps[1]) + Len(ps[2]) + 1 = i
    BY <1>5, <2>1
  <2>9. CASE c = Star
    <3>1. SameEnds(p, t, i + 1, qs)
      BY <2>1, <2>2, <2>3, <2>6, <2>9, StarMoves
    <3>2. /\ Len(qs) = Len(ps) + 1 /\ qs[Len(ps) + 1] = <<>> /\ \A j \in 1 .. Len(ps) : qs[j] = ps[j]
      BY <2>6, <2>9 DEF OneMore
    <3>3. Len(qs) # 0 /\ Len(qs) # 1
      BY <2>3, <3>2
    <3>4. ASSUME Len(qs) = 2 PROVE Len(qs[1]) + Len(qs[2]) + 1 = i + 1
      <4>1. PICK n : n = Len(ps)
        OBVIOUS
      <4>5. Len(ps) \in Nat
        BY <2>3
      <4>6. Len(qs) = Len(ps) + 1
        BY <3>2
      <4>7. n \in Nat /\ n + 1 = 2
        BY <3>4, <4>1, <4>5, <4>6
      <4>2. n = 1 /\ 1 \in 1 .. n
        BY <4>7
      <4>3. qs[1] = ps[1] /\ qs[2] = <<>>
        BY <3>2, <4>1, <4>2
      <4>4. Len(qs[1]) = i /\ Len(qs[2]) = 0
        BY <2>7, <4>1, <4>2, <4>3
      <4>8. QED
        BY <2>2, <4>4
    <3>5. QED
      BY <2>4, <2>6, <3>1, <3>3, <3>4
  <2>10. CASE c # Star
    <3>1. SameEnds(p, t, i + 1, qs)
      BY <2>1, <2>2, <2>3, <2>6, <2>10, LetterMoves
    <3>2. PICK n, w : n = Len(ps) /\ w = ps[n]
      OBVIOUS
    <3>3. /\ n \in Nat /\ n # 0 /\ w \in Seq(A) /\ Len(w) \in Nat
          /\ Len(qs) = n /\ qs[n] = Append(w, c) /\ \A j \in 1 .. n - 1 : qs[j] = ps[j]
      BY <2>3, <2>6, <2>10, <3>2 DEF Longer
    <3>4. Len(qs[n]) = Len(w) + 1 /\ qs[n][Len(w) + 1] = c /\ \A j \in 1 .. Len(w) : qs[n][j] = w[j]
      BY <2>3, <3>3, AppendProperties
    <3>5. ASSUME Len(qs) = 1 PROVE Len(qs[1]) = i + 1 /\ \A j \in 1 .. i + 1 : qs[1][j] = p[j]
      <4>1. n = 1 /\ Len(w) = i /\ \A j \in 1 .. i : w[j] = p[j]
        BY <2>7, <3>2, <3>3, <3>5
      <4>2. \A j \in 1 .. i + 1 : j = i + 1 \/ j \in 1 .. i
        BY <2>2
      <4>3. QED
        BY <2>1, <3>4, <4>1, <4>2
    <3>6. ASSUME Len(qs) = 2 PROVE Len(qs[1]) + Len(qs[2]) + 1 = i + 1
      <4>1. Len(qs) = n
        BY <3>3
      <4>2. n = 2
        BY <3>6, <4>1
      <4>3. 1 \in 1 .. n - 1 /\ 1 \in 1 .. Len(ps)
        BY <3>2, <4>2
      <4>4. qs[1] = ps[1]
        BY <3>3, <4>3
      <4>5. PICK B : B = Seq(A)
        OBVIOUS
      <4>6. ps \in Seq(B)
        BY <2>3, <4>5
      <4>7. ps[1] \in Seq(A)
        BY <4>3, <4>5, <4>6, ElementOfSeq
      <4>8. PICK x, y : x = Len(ps[1]) /\ y = Len(w)
        OBVIOUS
      <4>9. x \in Nat
        BY <4>7, <4>8
      <4>10. y \in Nat
        BY <3>3, <4>8
      <4>11. x + y + 1 = i
        BY <2>8, <3>2, <4>2, <4>8
      <4>12. Len(qs[1]) = x /\ Len(qs[2]) = y + 1
        BY <3>4, <4>2, <4>4, <4>8
      <4>13. x + (y + 1) + 1 = i + 1
        BY <2>2, <4>9, <4>10, <4>11
      <4>14. QED
        BY <4>12, <4>13
    <3>7. QED
      BY <2>4, <2>6, <3>1, <3>3, <3>5, <3>6
  <2>11. QED
    BY <2>9, <2>10
<1> HIDE DEF Good
<1>6. \A i \in 0 .. N : Good(i)
  <2>1. PICK bad : bad = {i \in 0 .. N : ~Good(i)}
    OBVIOUS
  <2>2. ASSUME bad # {} PROVE FALSE
    <3>1. bad \subseteq Nat
      BY <1>2, <2>1
    <3>2. PICK m \in bad : \A k \in bad : m <= k
      BY <2>2, <3>1, LeastNumber
    <3>3. m \in 0 .. N /\ m # 0 /\ ~Good(m)
      BY <1>4, <2>1, <3>2
    <3>4. m - 1 \in 0 .. N - 1 /\ m - 1 \in 0 .. N /\ m - 1 + 1 = m /\ ~(m <= m - 1)
      BY <1>2, <3>3
    <3>5. Good(m - 1)
      BY <2>1, <3>2, <3>4
    <3>6. Good(m - 1 + 1)
      BY <1>5, <3>4, <3>5
    <3>7. QED
      BY <3>3, <3>4, <3>6
  <2>3. QED
    BY <2>1, <2>2
<1>7. Good(N)
  BY <1>2, <1>6
<1>8. PICK ps : ps = f[N]
  OBVIOUS
<1>9. /\ ps \in Seq(Seq(A)) /\ Len(ps) # 0 /\ SameEnds(p, t, N, ps)
      /\ Len(ps) = 1 => Len(ps[1]) = N /\ \A j \in 1 .. N : ps[1][j] = p[j]
      /\ Len(ps) = 2 => Len(ps[1]) + Len(ps[2]) + 1 = N
  BY <1>7, <1>8 DEF Good
<1>10. Len(ps) = 1 => ps[1] = p
  <2> SUFFICES ASSUME Len(ps) = 1 PROVE ps[1] = p
    OBVIOUS
  <2>1. PICK w : w = ps[1]
    OBVIOUS
  <2>2. w \in Seq(A) /\ Len(w) = Len(p) /\ \A j \in 1 .. Len(w) : w[j] = p[j]
    <3>1. 1 \in 1 .. Len(ps)
      OBVIOUS
    <3>2. PICK B : B = Seq(A)
      OBVIOUS
    <3>3. ps \in Seq(B)
      BY <1>9, <3>2
    <3>4. w \in Seq(A)
      BY <2>1, <3>1, <3>2, <3>3, ElementOfSeq
    <3>5. Len(w) = N /\ \A j \in 1 .. N : w[j] = p[j]
      BY <1>9, <2>1
    <3>6. QED
      BY <1>1, <3>4, <3>5
  <2>3. QED
    BY <2>1, <2>2, SeqEqual
<1>11. QED
  BY <1>1, <1>3, <1>8, <1>9, <1>10

-----------------------------------------------------------------------------
(* The cursor.                                                             *)

CursorStep(c, parts, t, i) ==
  LET found == Found(t, c, parts[i]) IN
  IF i = 0 THEN 0
  ELSE IF c = Missing THEN Missing
  ELSE IF parts[i] = <<>> THEN c
  ELSE IF found = {} \/ (i = 1 /\ ~IsPrefix(parts[1], t)) THEN Missing
  ELSE (CHOOSE k \in found : \A j \in found : k <= j) + Len(parts[i])
CursorTo(f, n, parts, t) == f = [i \in 0 .. n |-> CursorStep(f[i - 1], parts, t, i)]

LEMMA CursorGrows ==
  ASSUME NEW n \in Nat, NEW parts, NEW t, NEW f, CursorTo(f, n, parts, t)
  PROVE  \E g : CursorTo(g, n + 1, parts, t)
<1> DEFINE g == [i \in 0 .. n + 1 |-> IF i = n + 1 THEN CursorStep(f[n], parts, t, n + 1) ELSE f[i]]
<1>1. \A i \in 0 .. n : f[i] = CursorStep(f[i - 1], parts, t, i)
  BY DEF CursorTo
<1>2. \A i \in 0 .. n : i # n + 1 /\ i \in 0 .. n + 1 /\ g[i] = f[i]
  OBVIOUS
<1>3. ASSUME NEW i \in 0 .. n + 1
      PROVE  g[i] = CursorStep(g[i - 1], parts, t, i)
  <2>1. CASE i = n + 1
    <3>1. i - 1 = n /\ n \in 0 .. n
      BY <2>1
    <3>2. g[i - 1] = f[n] /\ g[i] = CursorStep(f[n], parts, t, i)
      BY <1>2, <2>1, <3>1
    <3>3. QED
      BY <3>2
  <2>2. CASE i # n + 1 /\ i # 0
    <3>1. i \in 0 .. n /\ i - 1 \in 0 .. n
      BY <2>2
    <3>2. QED
      BY <1>1, <1>2, <3>1
  <2>3. CASE i # n + 1 /\ i = 0
    <3>1. 0 \in 0 .. n
      OBVIOUS
    <3>2. g[i] = CursorStep(f[i - 1], parts, t, i)
      BY <1>1, <1>2, <2>3, <3>1
    <3>3. QED
      BY <2>3, <3>2 DEF CursorStep
  <2>4. QED
    BY <2>1, <2>2, <2>3
<1>4. CursorTo(g, n + 1, parts, t)
  BY <1>3 DEF CursorTo
<1>5. QED
  BY <1>4

LEMMA CursorExists ==
  ASSUME NEW parts, NEW t, NEW n \in Nat
  PROVE  \E f : CursorTo(f, n, parts, t)
<1> SUFFICES ASSUME ~(\E f : CursorTo(f, n, parts, t)) PROVE FALSE
  OBVIOUS
<1>1. PICK bad : bad = {k \in Nat : ~(\E f : CursorTo(f, k, parts, t))}
  OBVIOUS
<1>2. PICK m \in bad : \A k \in bad : m <= k
  BY <1>1, LeastNumber
<1>3. m # 0
  <2>1. PICK f : f = [i \in 0 .. 0 |-> 0]
    OBVIOUS
  <2>2. \A i \in 0 .. 0 : i = 0
    OBVIOUS
  <2>3. \A i \in 0 .. 0 : CursorStep(f[i - 1], parts, t, i) = 0
    BY <2>2 DEF CursorStep
  <2>4. f = [i \in 0 .. 0 |-> CursorStep(f[i - 1], parts, t, i)]
    BY <2>1, <2>3
  <2>5. QED
    BY <1>1, <1>2, <2>4 DEF CursorTo
<1>4. m \in Nat /\ m - 1 \in Nat /\ ~(m <= m - 1) /\ (m - 1) + 1 = m
  BY <1>1, <1>2, <1>3
<1>5. PICK f : CursorTo(f, m - 1, parts, t)
  BY <1>1, <1>2, <1>4
<1>6. \E g : CursorTo(g, (m - 1) + 1, parts, t)
  BY <1>4, <1>5, CursorGrows
<1>7. QED
  BY <1>1, <1>2, <1>4, <1>6

LEMMA CursorIs ==
  ASSUME NEW parts, NEW t, Len(parts) \in Nat
  PROVE  \E f : /\ Cursor(parts, t) = f[Len(parts)] /\ f[0] = 0
                /\ \A i \in 1 .. Len(parts) : f[i] = CursorStep(f[i - 1], parts, t, i)
<1> DEFINE
      f == CHOOSE f : f = [i \in 0 .. Len(parts) |->
             IF i = 0 THEN 0
             ELSE IF f[i - 1] = Missing THEN Missing
             ELSE IF parts[i] = <<>> THEN f[i - 1]
             ELSE IF Found(t, f[i - 1], parts[i]) = {} \/ (i = 1 /\ ~IsPrefix(parts[1], t)) THEN Missing
             ELSE (CHOOSE k \in Found(t, f[i - 1], parts[i]) : \A j \in Found(t, f[i - 1], parts[i]) : k <= j)
                  + Len(parts[i])]
<1>1. \E g : g = [i \in 0 .. Len(parts) |->
             IF i = 0 THEN 0
             ELSE IF g[i - 1] = Missing THEN Missing
             ELSE IF parts[i] = <<>> THEN g[i - 1]
             ELSE IF Found(t, g[i - 1], parts[i]) = {} \/ (i = 1 /\ ~IsPrefix(parts[1], t)) THEN Missing
             ELSE (CHOOSE k \in Found(t, g[i - 1], parts[i]) : \A j \in Found(t, g[i - 1], parts[i]) : k <= j)
                  + Len(parts[i])]
  <2>1. PICK n : n = Len(parts)
    OBVIOUS
  <2>2. PICK g : CursorTo(g, n, parts, t)
    BY <2>1, CursorExists
  <2>3. QED
    BY <2>1, <2>2, Zenon DEF CursorTo, CursorStep
<1>2. f = [i \in 0 .. Len(parts) |->
             IF i = 0 THEN 0
             ELSE IF f[i - 1] = Missing THEN Missing
             ELSE IF parts[i] = <<>> THEN f[i - 1]
             ELSE IF Found(t, f[i - 1], parts[i]) = {} \/ (i = 1 /\ ~IsPrefix(parts[1], t)) THEN Missing
             ELSE (CHOOSE k \in Found(t, f[i - 1], parts[i]) : \A j \in Found(t, f[i - 1], parts[i]) : k <= j)
                  + Len(parts[i])]
  BY <1>1, Zenon
<1>3. Cursor(parts, t) = f[Len(parts)]
  BY Zenon DEF Cursor
<1> HIDE DEF f
<1>4. \A i \in 0 .. Len(parts) : f[i] = CursorStep(f[i - 1], parts, t, i)
  BY <1>2, Zenon DEF CursorStep
<1>5. f[0] = 0
  <2>1. 0 \in 0 .. Len(parts)
    OBVIOUS
  <2>2. QED
    BY <1>4, <2>1 DEF CursorStep
<1>6. \A i \in 1 .. Len(parts) : i \in 0 .. Len(parts)
  OBVIOUS
<1>7. QED
  BY <1>3, <1>4, <1>5, <1>6

-----------------------------------------------------------------------------
(* The cursor is the earliest of the places where its parts may end.       *)
Earliest(parts, t, i, c) ==
  \/ c = Missing /\ \A e : ~Placed(parts, t, i, e)
  \/ c \in 0 .. Len(t) /\ Placed(parts, t, i, c) /\ \A e \in 0 .. Len(t) : Placed(parts, t, i, e) => c <= e

LEMMA FoundIs ==
  ASSUME NEW A, NEW w \in Seq(A), NEW t \in Seq(A), NEW c \in 0 .. Len(t), NEW k
  PROVE  k \in Found(t, c, w) <=> k \in c .. Len(t) - Len(w) /\ EndsAt(w, t, k + Len(w))
<1>1. Len(w) \in Nat /\ Len(t) \in Nat
  OBVIOUS
<1>2. ASSUME k \in c .. Len(t) - Len(w)
      PROVE  SubSeq(t, k + 1, k + Len(w)) = w <=> EndsAt(w, t, k + Len(w))
  <2>1. k \in 0 .. Len(t) /\ k + Len(w) <= Len(t) /\ k + Len(w) - Len(w) = k /\ Len(w) <= k + Len(w)
    BY <1>1, <1>2
  <2>2. SubSeq(t, k + 1, k + Len(w)) = w <=> Occurs(w, t, k)
    BY <2>1, OccursIs
  <2>3. QED
    BY <2>1, <2>2 DEF EndsAt
<1>3. QED
  BY <1>2 DEF Found

LEMMA FirstFound ==
  ASSUME NEW A, NEW w \in Seq(A), NEW t \in Seq(A), NEW c \in 0 .. Len(t), Found(t, c, w) # {}
  PROVE  \E m \in c .. Len(t) - Len(w) :
           /\ m = CHOOSE k \in Found(t, c, w) : \A j \in Found(t, c, w) : k <= j
           /\ EndsAt(w, t, m + Len(w))
           /\ \A e \in 0 .. Len(t) : EndsAt(w, t, e) /\ c + Len(w) <= e => m + Len(w) <= e
<1>1. PICK S, m : S = Found(t, c, w) /\ m = CHOOSE k \in S : \A j \in S : k <= j
  OBVIOUS
<1>2. Len(w) \in Nat /\ Len(t) \in Nat
  OBVIOUS
<1>3. \A k : k \in S <=> k \in c .. Len(t) - Len(w) /\ EndsAt(w, t, k + Len(w))
  BY <1>1, FoundIs
<1>4. S \subseteq Nat /\ S # {}
  BY <1>1, <1>2, <1>3
<1>5. m \in S /\ \A j \in S : m <= j
  <2>1. \E k \in S : \A j \in S : k <= j
    BY <1>4, LeastNumber
  <2>2. QED
    BY <1>1, <2>1
<1>6. ASSUME NEW e \in 0 .. Len(t), EndsAt(w, t, e), c + Len(w) <= e
      PROVE  m + Len(w) <= e
  <2>1. PICK k : k = e - Len(w)
    OBVIOUS
  <2>2. k \in c .. Len(t) - Len(w) /\ k + Len(w) = e
    BY <1>2, <1>6, <2>1
  <2>3. k \in S
    BY <1>3, <1>6, <2>2
  <2>4. m <= k /\ m \in Nat
    BY <1>4, <1>5, <2>3
  <2>5. QED
    BY <1>2, <2>2, <2>4
<1>7. QED
  BY <1>1, <1>3, <1>5, <1>6

LEMMA NoneFound ==
  ASSUME NEW A, NEW w \in Seq(A), NEW t \in Seq(A), NEW c \in 0 .. Len(t), Found(t, c, w) = {},
         NEW e \in 0 .. Len(t), EndsAt(w, t, e), c + Len(w) <= e
  PROVE  FALSE
<1>1. PICK k : k = e - Len(w)
  OBVIOUS
<1>2. k \in c .. Len(t) - Len(w) /\ k + Len(w) = e
  BY <1>1
<1>3. k \in Found(t, c, w)
  BY <1>2, FoundIs
<1>4. QED
  BY <1>3

LEMMA FirstIsEarliest ==
  ASSUME NEW A, NEW parts \in Seq(Seq(A)), NEW t \in Seq(A), 1 \in 1 .. Len(parts)
  PROVE  Earliest(parts, t, 1, CursorStep(0, parts, t, 1))
<1>1. PICK w : w = parts[1]
  OBVIOUS
<1>2. w \in Seq(A) /\ Len(w) \in Nat /\ Len(t) \in Nat
  <2>1. PICK B : B = Seq(A)
    OBVIOUS
  <2>2. parts \in Seq(B)
    BY <2>1
  <2>3. w \in Seq(A)
    BY <1>1, <2>1, <2>2, ElementOfSeq
  <2>4. QED
    BY <2>3
<1>3. \A e : Placed(parts, t, 1, e) <=> e = Len(w) /\ e \in 0 .. Len(t) /\ EndsAt(w, t, e)
  BY <1>1, <1>2, PlacedFirst
<1>4. 0 \in 0 .. Len(t) /\ 0 # Missing
  BY <1>2 DEF Missing
<1>5. IsPrefix(w, t) <=> Len(w) <= Len(t) /\ EndsAt(w, t, Len(w))
  <2>1. Len(w) - Len(w) = 0 /\ Len(w) <= Len(w)
    BY <1>2
  <2>2. QED
    BY <1>2, <2>1, PrefixIs DEF EndsAt
<1>6. CASE w = <<>>
  <2>1. CursorStep(0, parts, t, 1) = 0
    BY <1>1, <1>4, <1>6 DEF CursorStep
  <2>2. Len(w) = 0
    BY <1>6
  <2>3. EndsAt(w, t, 0)
    BY <2>2 DEF EndsAt, Occurs
  <2>4. QED
    BY <1>3, <1>4, <2>1, <2>2, <2>3 DEF Earliest
<1>7. CASE w # <<>> /\ IsPrefix(w, t)
  <2>1. 0 + Len(w) <= Len(w) /\ Len(w) \in 0 .. Len(t) /\ EndsAt(w, t, Len(w))
    BY <1>2, <1>5, <1>7
  <2>2. Found(t, 0, w) # {}
    BY <1>2, <1>4, <2>1, NoneFound
  <2>3. PICK m \in 0 .. Len(t) - Len(w) :
           /\ m = CHOOSE k \in Found(t, 0, w) : \A j \in Found(t, 0, w) : k <= j
           /\ EndsAt(w, t, m + Len(w))
           /\ \A e \in 0 .. Len(t) : EndsAt(w, t, e) /\ 0 + Len(w) <= e => m + Len(w) <= e
    BY <1>2, <1>4, <2>2, FirstFound
  <2>4. m + Len(w) <= Len(w)
    BY <2>1, <2>3
  <2>5. m + Len(w) = Len(w)
    BY <1>2, <2>3, <2>4
  <2>6. CursorStep(0, parts, t, 1) = m + Len(w)
    BY <1>1, <1>4, <1>7, <2>2, <2>3 DEF CursorStep
  <2>7. QED
    BY <1>2, <1>3, <2>1, <2>5, <2>6 DEF Earliest
<1>8. CASE w # <<>> /\ ~IsPrefix(w, t)
  <2>1. CursorStep(0, parts, t, 1) = Missing
    BY <1>1, <1>4, <1>8 DEF CursorStep
  <2>2. \A e : ~Placed(parts, t, 1, e)
    BY <1>2, <1>3, <1>5, <1>8
  <2>3. QED
    BY <2>1, <2>2 DEF Earliest
<1>9. QED
  BY <1>6, <1>7, <1>8

LEMMA NextIsEarliest ==
  ASSUME NEW A, NEW parts \in Seq(Seq(A)), NEW t \in Seq(A), NEW n \in Nat, n # 0, n + 1 \in 1 .. Len(parts),
         NEW c, Earliest(parts, t, n, c)
  PROVE  Earliest(parts, t, n + 1, CursorStep(c, parts, t, n + 1))
<1>1. PICK w : w = parts[n + 1]
  OBVIOUS
<1>2. w \in Seq(A) /\ Len(w) \in Nat /\ Len(t) \in Nat
  <2>1. PICK B : B = Seq(A)
    OBVIOUS
  <2>2. parts \in Seq(B)
    BY <2>1
  <2>3. w \in Seq(A)
    BY <1>1, <2>1, <2>2, ElementOfSeq
  <2>4. QED
    BY <2>3
<1>3. \A e : Placed(parts, t, n + 1, e) <=>
        /\ e \in 0 .. Len(t) /\ EndsAt(w, t, e)
        /\ \E d \in 0 .. Len(t) : Placed(parts, t, n, d) /\ d + Len(w) <= e
  BY <1>1, <1>2, PlacedStep
<1>4. n + 1 # 0 /\ n + 1 # 1
  OBVIOUS
<1>5. CASE c = Missing
  <2>1. \A e : ~Placed(parts, t, n, e)
    <3>1. Missing \notin 0 .. Len(t)
      BY <1>2 DEF Missing
    <3>2. QED
      BY <1>5, <3>1 DEF Earliest
  <2>2. CursorStep(c, parts, t, n + 1) = Missing
    BY <1>4, <1>5 DEF CursorStep
  <2>3. QED
    BY <1>3, <2>1, <2>2 DEF Earliest
<1>6. CASE c # Missing
  <2>1. c \in 0 .. Len(t) /\ Placed(parts, t, n, c) /\ \A e \in 0 .. Len(t) : Placed(parts, t, n, e) => c <= e
    BY <1>6 DEF Earliest
  <2>2. ASSUME NEW e
        PROVE  Placed(parts, t, n + 1, e) <=> e \in 0 .. Len(t) /\ EndsAt(w, t, e) /\ c + Len(w) <= e
    <3>1. ASSUME e \in 0 .. Len(t), NEW d \in 0 .. Len(t), Placed(parts, t, n, d), d + Len(w) <= e
          PROVE  c + Len(w) <= e
      <4>1. c <= d
        BY <2>1, <3>1
      <4>2. QED
        BY <1>2, <2>1, <3>1, <4>1
    <3>2. QED
      BY <1>3, <2>1, <3>1
  <2>3. CASE w = <<>>
    <3>1. CursorStep(c, parts, t, n + 1) = c
      BY <1>1, <1>4, <1>6, <2>3 DEF CursorStep
    <3>2. Len(w) = 0
      BY <2>3
    <3>3. EndsAt(w, t, c)
      BY <2>1, <3>2 DEF EndsAt, Occurs
    <3>4. c + 0 <= c /\ \A e \in 0 .. Len(t) : c + 0 <= e => c <= e
      BY <2>1
    <3>5. QED
      BY <2>1, <2>2, <3>1, <3>2, <3>3, <3>4 DEF Earliest
  <2>4. CASE w # <<>> /\ Found(t, c, w) = {}
    <3>1. CursorStep(c, parts, t, n + 1) = Missing
      BY <1>1, <1>4, <1>6, <2>4 DEF CursorStep
    <3>2. \A e : ~Placed(parts, t, n + 1, e)
      BY <1>2, <2>1, <2>2, <2>4, NoneFound
    <3>3. QED
      BY <3>1, <3>2 DEF Earliest
  <2>5. CASE w # <<>> /\ Found(t, c, w) # {}
    <3>1. PICK m \in c .. Len(t) - Len(w) :
             /\ m = CHOOSE k \in Found(t, c, w) : \A j \in Found(t, c, w) : k <= j
             /\ EndsAt(w, t, m + Len(w))
             /\ \A e \in 0 .. Len(t) : EndsAt(w, t, e) /\ c + Len(w) <= e => m + Len(w) <= e
      BY <1>2, <2>1, <2>5, FirstFound
    <3>2. CursorStep(c, parts, t, n + 1) = m + Len(w)
      BY <1>1, <1>4, <1>6, <2>5, <3>1 DEF CursorStep
    <3>3. m + Len(w) \in 0 .. Len(t) /\ c + Len(w) <= m + Len(w)
      BY <1>2, <2>1, <3>1
    <3>4. QED
      BY <2>2, <3>1, <3>2, <3>3 DEF Earliest
  <2>6. QED
    BY <2>3, <2>4, <2>5
<1>7. QED
  BY <1>5, <1>6

LEMMA CursorIsEarliest ==
  ASSUME NEW A, NEW parts \in Seq(Seq(A)), NEW t \in Seq(A), Len(parts) # 0
  PROVE  Earliest(parts, t, Len(parts), Cursor(parts, t))
<1>1. PICK N : N = Len(parts)
  OBVIOUS
<1>2. N \in Nat /\ N # 0
  BY <1>1
<1>3. PICK f : /\ Cursor(parts, t) = f[N] /\ f[0] = 0
               /\ \A i \in 1 .. N : f[i] = CursorStep(f[i - 1], parts, t, i)
  BY <1>1, <1>2, CursorIs
<1>4. PICK bad : bad = {i \in 1 .. N : ~Earliest(parts, t, i, f[i])}
  OBVIOUS
<1>5. ASSUME bad # {} PROVE FALSE
  <2>1. bad \subseteq Nat
    BY <1>2, <1>4
  <2>2. PICK m \in bad : \A k \in bad : m <= k
    BY <1>5, <2>1, LeastNumber
  <2>3. m \in 1 .. N /\ ~Earliest(parts, t, m, f[m]) /\ f[m] = CursorStep(f[m - 1], parts, t, m)
    BY <1>3, <1>4, <2>2
  <2>4. CASE m = 1
    <3>1. f[1] = CursorStep(0, parts, t, 1)
      BY <1>3, <2>3, <2>4
    <3>2. 1 \in 1 .. Len(parts)
      BY <1>1, <1>2
    <3>3. QED
      BY <2>3, <2>4, <3>1, <3>2, FirstIsEarliest
  <2>5. CASE m # 1
    <3>1. PICK n : n = m - 1
      OBVIOUS
    <3>2. n \in Nat /\ n # 0 /\ n + 1 = m /\ n \in 1 .. N /\ ~(m <= n) /\ n + 1 \in 1 .. Len(parts)
      BY <1>1, <1>2, <2>3, <2>5, <3>1
    <3>3. Earliest(parts, t, n, f[n])
      BY <1>4, <2>2, <3>2
    <3>4. Earliest(parts, t, n + 1, CursorStep(f[n], parts, t, n + 1))
      BY <3>2, <3>3, NextIsEarliest
    <3>5. QED
      BY <2>3, <3>1, <3>2, <3>4
  <2>6. QED
    BY <2>4, <2>5
<1>6. N \in 1 .. N
  BY <1>2
<1>7. QED
  BY <1>1, <1>3, <1>4, <1>5, <1>6

-----------------------------------------------------------------------------
(* What is matched, by the number of parts.                                *)

LEMMA StarHasTwoParts ==
  Len(Parts(<<Star>>)) = 2
<1>1. PICK p : p = <<Star>>
  OBVIOUS
<1>2. Len(p) = 1 /\ p[1] = Star /\ Len(p) \in Nat
  BY <1>1
<1>3. PICK f : /\ Parts(p) = f[Len(p)] /\ f[0] = << <<>> >>
               /\ \A i \in 1 .. Len(p) : f[i] = Scanned(f[i - 1], p[i])
  BY <1>2, PartsAre
<1>4. 1 \in 1 .. 1 /\ 1 - 1 = 0
  OBVIOUS
<1>5. f[1] = Scanned(f[0], Star)
  BY <1>2, <1>3, <1>4
<1>6. Parts(p) = Append(f[0], <<>>)
  BY <1>2, <1>3, <1>5 DEF Scanned
<1>7. PICK e : e = <<>>
  OBVIOUS
<1>8. Parts(p) = Append(<<e>>, e)
  BY <1>3, <1>6, <1>7
<1>9. Len(Append(<<e>>, e)) = 2
  OBVIOUS
<1>10. QED
  BY <1>1, <1>8, <1>9

LEMMA StarCoversAll ==
  ASSUME NEW t, Len(t) \in Nat
  PROVE  Glob(<<Star>>, t)
<1>1. PICK p : p = <<Star>>
  OBVIOUS
<1>2. Len(p) = 1 /\ p[1] = Star
  BY <1>1
<1>3. 0 \in 0 .. Len(t) /\ Len(t) \in 0 .. Len(t) /\ 0 <= Len(t) /\ 0 + 1 = 1
  OBVIOUS
<1>4. Reach(p, t, 0, 0)
  BY ReachNothing
<1>5. Moves(p, t, 0 + 1, 0, Len(t))
  BY <1>2, <1>3 DEF Moves
<1>6. Reach(p, t, 0 + 1, Len(t))
  BY <1>3, <1>4, <1>5, ReachStep
<1>7. QED
  BY <1>1, <1>2, <1>3, <1>6, GlobIs

LEMMA OnePart ==
  ASSUME NEW A, NEW p \in Seq(A), NEW t \in Seq(A), p # <<Star>>, Len(Parts(p)) = 1
  PROVE  TopicMatch(p, t) <=> Glob(p, t)
<1>1. PICK ps : ps = Parts(p)
  OBVIOUS
<1>2. Len(p) \in Nat /\ Len(t) \in Nat
  OBVIOUS
<1>3. ps[1] = p /\ Len(ps) = 1 /\ SameEnds(p, t, Len(p), ps)
  BY <1>1, <1>2, PartsReach
<1>4. TopicMatch(p, t) <=> p = t
  BY <1>1, <1>3 DEF TopicMatch
<1>5. Glob(p, t) <=> Placed(ps, t, 1, Len(t))
  BY <1>3, GlobIs DEF SameEnds
<1>6. Placed(ps, t, 1, Len(t)) <=> Len(t) = Len(p) /\ EndsAt(p, t, Len(t))
  BY <1>2, <1>3, PlacedFirst
<1>7. Len(t) = Len(p) => (EndsAt(p, t, Len(t)) <=> \A j \in 1 .. Len(p) : t[j] = p[j])
  BY <1>2 DEF EndsAt, Occurs
<1>8. p = t <=> Len(t) = Len(p) /\ \A j \in 1 .. Len(p) : t[j] = p[j]
  BY <1>2, SeqEqual
<1>9. QED
  BY <1>4, <1>5, <1>6, <1>7, <1>8

LEMMA TwoParts ==
  ASSUME NEW A, NEW p \in Seq(A), NEW t \in Seq(A), p # <<Star>>, Len(Parts(p)) = 2
  PROVE  /\ Glob(p, t) => TopicMatch(p, t)
         /\ TopicMatch(p, t) => Glob(p, t) \/ Len(t) < Len(p) - 1
<1>1. PICK ps, v, w : ps = Parts(p) /\ v = ps[1] /\ w = ps[2]
  OBVIOUS
<1>2. Len(p) \in Nat /\ Len(t) \in Nat
  OBVIOUS
<1>3. ps \in Seq(Seq(A)) /\ Len(ps) = 2 /\ SameEnds(p, t, Len(p), ps) /\ Len(v) + Len(w) + 1 = Len(p)
  BY <1>1, <1>2, PartsReach
<1>4. v \in Seq(A) /\ w \in Seq(A)
  <2>1. PICK B : B = Seq(A)
    OBVIOUS
  <2>2. ps \in Seq(B) /\ 1 \in 1 .. Len(ps) /\ 2 \in 1 .. Len(ps)
    BY <1>3, <2>1
  <2>3. ps[1] \in B /\ ps[2] \in B
    BY <2>2, ElementOfSeq
  <2>4. QED
    BY <1>1, <2>1, <2>3
<1>5. Len(v) \in Nat /\ Len(w) \in Nat
  BY <1>4
<1>6. TopicMatch(p, t) <=> IsPrefix(v, t) /\ IsSuffix(w, t)
  BY <1>1, <1>3 DEF TopicMatch
<1>7. IsPrefix(v, t) <=> Len(v) <= Len(t) /\ EndsAt(v, t, Len(v))
  <2>1. Len(v) - Len(v) = 0 /\ Len(v) <= Len(v)
    BY <1>5
  <2>2. QED
    BY <1>4, <2>1, PrefixIs DEF EndsAt
<1>8. IsSuffix(w, t) <=> EndsAt(w, t, Len(t))
  BY <1>4, SuffixIs
<1>9. Glob(p, t) <=> Placed(ps, t, 1 + 1, Len(t))
  BY <1>3, GlobIs DEF SameEnds
<1>10. Placed(ps, t, 1 + 1, Len(t)) <=>
         /\ Len(t) \in 0 .. Len(t) /\ EndsAt(w, t, Len(t))
         /\ \E d \in 0 .. Len(t) : Placed(ps, t, 1, d) /\ d + Len(w) <= Len(t)
  <2>1. 1 \in Nat /\ 1 # 0 /\ ps[1 + 1] = w
    BY <1>1
  <2>2. QED
    BY <1>2, <2>1, PlacedStep
<1>11. \A d : Placed(ps, t, 1, d) <=> d = Len(v) /\ d \in 0 .. Len(t) /\ EndsAt(v, t, d)
  BY <1>1, <1>2, PlacedFirst
<1>12. Glob(p, t) <=> EndsAt(w, t, Len(t)) /\ EndsAt(v, t, Len(v)) /\ Len(v) + Len(w) <= Len(t)
  BY <1>2, <1>5, <1>9, <1>10, <1>11
<1>13. Len(v) + Len(w) <= Len(t) => Len(v) <= Len(t)
  BY <1>2, <1>5
<1>14. ~(Len(v) + Len(w) <= Len(t)) => Len(t) < Len(p) - 1
  BY <1>2, <1>3, <1>5
<1>15. QED
  BY <1>6, <1>7, <1>8, <1>12, <1>13, <1>14

LEMMA ManyParts ==
  ASSUME NEW A, NEW p \in Seq(A), NEW t \in Seq(A), p # <<Star>>, Len(Parts(p)) > 2
  PROVE  TopicMatch(p, t) <=> Glob(p, t)
<1>1. PICK ps, N, c : ps = Parts(p) /\ N = Len(ps) /\ c = Cursor(ps, t)
  OBVIOUS
<1>2. Len(p) \in Nat /\ Len(t) \in Nat
  OBVIOUS
<1>3. ps \in Seq(Seq(A)) /\ Len(ps) # 0 /\ SameEnds(p, t, Len(p), ps)
  BY <1>1, <1>2, PartsReach
<1>4. N \in Nat /\ N > 2
  BY <1>1, <1>3
<1>5. PICK w, m : w = ps[N] /\ m = N - 1
  OBVIOUS
<1>6. m \in Nat /\ m # 0 /\ m + 1 = N
  BY <1>4, <1>5
<1>7. w \in Seq(A) /\ Len(w) \in Nat
  <2>1. PICK B : B = Seq(A)
    OBVIOUS
  <2>2. ps \in Seq(B) /\ N \in 1 .. Len(ps)
    BY <1>1, <1>3, <1>4, <2>1
  <2>3. w \in B
    BY <1>5, <2>2, ElementOfSeq
  <2>4. QED
    BY <2>1, <2>3
<1>8. TopicMatch(p, t) <=> c # Missing /\ EndsAt(w, t, Len(t))
  <2>1. TopicMatch(p, t) <=> c # Missing /\ IsSuffix(w, t)
    <3>1. N # 1 /\ N # 2
      BY <1>4
    <3>2. Last(ps) = w
      BY <1>1, <1>5 DEF Last
    <3>3. QED
      BY <1>1, <1>4, <3>1, <3>2 DEF TopicMatch
  <2>2. QED
    BY <1>7, <2>1, SuffixIs
<1>9. Earliest(ps, t, N, c)
  BY <1>1, <1>3, CursorIsEarliest
<1>10. \A e : Placed(ps, t, N, e) <=>
         /\ e \in 0 .. Len(t) /\ EndsAt(w, t, e)
         /\ \E d \in 0 .. Len(t) : Placed(ps, t, m, d) /\ d + Len(w) <= e
  BY <1>2, <1>5, <1>6, PlacedStep
<1>11. Glob(p, t) <=> Placed(ps, t, N, Len(t))
  BY <1>1, <1>3, GlobIs DEF SameEnds
<1>12. ASSUME Glob(p, t) PROVE c # Missing /\ EndsAt(w, t, Len(t))
  <2>1. Placed(ps, t, N, Len(t))
    BY <1>11, <1>12
  <2>2. Missing \notin 0 .. Len(t)
    BY <1>2 DEF Missing
  <2>3. QED
    BY <1>9, <1>10, <2>1, <2>2 DEF Earliest
<1>13. ASSUME c # Missing, EndsAt(w, t, Len(t)) PROVE Glob(p, t)
  <2>1. c \in 0 .. Len(t) /\ Placed(ps, t, N, c)
    BY <1>9, <1>13 DEF Earliest
  <2>2. PICK d \in 0 .. Len(t) : Placed(ps, t, m, d) /\ d + Len(w) <= c
    BY <1>10, <2>1
  <2>3. d + Len(w) <= Len(t) /\ Len(t) \in 0 .. Len(t)
    BY <1>2, <1>7, <2>1, <2>2
  <2>4. QED
    BY <1>10, <1>11, <1>13, <2>2, <2>3
<1>14. QED
  BY <1>8, <1>12, <1>13

-----------------------------------------------------------------------------
(* A pattern takes every topic it covers, and no other but for one star    *)
(* whose two parts overlap in it.                                          *)
LEMMA MatchedAsMeant ==
  ASSUME NEW A, NEW p \in Seq(A), NEW t \in Seq(A)
  PROVE  /\ Glob(p, t) => TopicMatch(p, t)
         /\ TopicMatch(p, t) => Glob(p, t) \/ (Len(Parts(p)) = 2 /\ Len(t) < Len(p) - 1)
<1>1. PICK n : n = Len(Parts(p))
  OBVIOUS
<1>2. n \in Nat /\ n # 0
  <2>1. Len(t) \in Nat
    OBVIOUS
  <2>2. Parts(p) \in Seq(Seq(A)) /\ Len(Parts(p)) # 0
    BY <2>1, PartsReach
  <2>3. QED
    BY <1>1, <2>2
<1>3. CASE p = <<Star>>
  <2>1. Len(t) \in Nat /\ n = 2
    BY <1>1, <1>3, StarHasTwoParts
  <2>2. Glob(p, t)
    BY <1>3, <2>1, StarCoversAll
  <2>3. TopicMatch(p, t)
    <3>1. n # 1 /\ ~(n > 2)
      BY <2>1
    <3>2. QED
      BY <1>1, <1>3, <3>1, Zenon DEF TopicMatch
  <2>4. QED
    BY <2>2, <2>3
<1>4. CASE p # <<Star>> /\ n = 1
  BY <1>1, <1>4, OnePart
<1>5. CASE p # <<Star>> /\ n = 2
  BY <1>1, <1>5, TwoParts
<1>6. CASE p # <<Star>> /\ n > 2
  BY <1>1, <1>6, ManyParts
<1>7. n = 1 \/ n = 2 \/ n > 2
  BY <1>2
<1>8. QED
  BY <1>3, <1>4, <1>5, <1>6, <1>7

(* The pattern and the topic are texts, and stay what they are.            *)
TextsTyped == pattern \in Seq(Letters \cup {Star}) /\ topic \in Seq(Letters \cup {Star})

LEMMA TopicsStart == Init => TextsTyped
<1>1. ASSUME NEW alphabet, NEW n, NEW w \in Texts(alphabet, n), alphabet \subseteq Letters \cup {Star}
      PROVE  w \in Seq(Letters \cup {Star})
  <2>1. PICK k \in 0 .. n : w \in [1 .. k -> alphabet]
    BY <1>1 DEF Texts
  <2>2. k \in Nat
    BY <2>1
  <2>3. w \in [1 .. k -> Letters \cup {Star}]
    BY <1>1, <2>1
  <2>4. QED
    BY <2>2, <2>3
<1>2. QED
  BY <1>1 DEF Init, TextsTyped

LEMMA TopicsStay == TextsTyped /\ [Next]_vars => TextsTyped'
BY DEF TextsTyped, Next, vars

LEMMA TopicsAreMatched == TextsTyped => TopicMatched
<1> SUFFICES ASSUME TextsTyped PROVE TopicMatched
  OBVIOUS
<1>1. /\ Glob(pattern, topic) => TopicMatch(pattern, topic)
      /\ TopicMatch(pattern, topic) =>
           Glob(pattern, topic) \/ (Len(Parts(pattern)) = 2 /\ Len(topic) < Len(pattern) - 1)
  BY MatchedAsMeant DEF TextsTyped
<1>2. QED
  BY <1>1 DEF TopicMatched, GlobMatched, MatchIsGlob

(* TopicMatched, of iaxTopicMatch: a subscription gets the events its      *)
(* patterns cover, for patterns and topics of every length.                *)
THEOREM TopicsMatched == Spec => []TopicMatched
BY TopicsStart, TopicsStay, TopicsAreMatched, PTL DEF Spec
=============================================================================
