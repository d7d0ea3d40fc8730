--------------------------- MODULE ExpressProofs ---------------------------
(***************************************************************************)
(* Proofs about Express, for every setup of typed calls and requests: any  *)
(* number of clients, handlers of any operations, patterns of any length,  *)
(* and lists of any length that append to each other's buffers.            *)
(***************************************************************************)
EXTENDS Express, SequenceTheorems, WellFoundedInduction, TLAPS

-----------------------------------------------------------------------------
(* Numbers.                                                                *)

LEMMA LeastNat ==
  ASSUME NEW T, T \subseteq Nat, T # {}
  PROVE  \E m \in T : \A k \in T : m <= k
<1>1. PICK R : R = {ss \in Nat \X Nat : ss[1] < ss[2]}
  OBVIOUS
<1>2. IsWellFoundedOn(R, Nat)
  BY <1>1, NatLessThanWellFounded DEF OpToRel
<1>3. \E x \in T : \A y \in T : ~(<<y, x>> \in R)
  BY <1>2, WFMin
<1>4. PICK x \in T : \A y \in T : ~(<<y, x>> \in R)
  BY <1>3
<1>5. ASSUME NEW y \in T PROVE x <= y
  <2>1. x \in Nat /\ y \in Nat
    OBVIOUS
  <2>2. ~(y < x)
    BY <1>1, <1>4, <2>1
  <2>3. QED
    BY <2>1, <2>2
<1>6. QED
  BY <1>5

LEMMA MinIs ==
  ASSUME NEW T, T \subseteq Nat, T # {}
  PROVE  Min(T) \in T /\ \A k \in T : Min(T) <= k
BY LeastNat DEF Min

LEMMA MaxOfOne == \A k \in Nat : Max({k}) = k
BY DEF Max

-----------------------------------------------------------------------------
(* matchPath against the meaning of a pattern.                             *)

LEMMA TrimmedTyped == SetupsTyped => \A path \in Seq(Parts) : Trimmed(path) \in Seq(Parts)
<1> SUFFICES ASSUME SetupsTyped, NEW path \in Seq(Parts) PROVE Trimmed(path) \in Seq(Parts)
  OBVIOUS
<1> DEFINE full == {i \in DOMAIN path : path[i] # NoText}
<1>1. PICK n : n = Len(path)
  OBVIOUS
<1>2. n \in Nat /\ DOMAIN path = 1 .. n /\ full \subseteq 1 .. n /\ \A k \in 1 .. n : path[k] \in Parts
  BY <1>1
<1>3. Trimmed(path) = IF full = {} THEN <<NoText>> ELSE SubSeq(path, Min(full), Max(full))
  BY DEF Trimmed
<1> HIDE DEF full
<1>4. CASE full = {}
  <2>1. <<NoText>> \in Seq(Parts)
    BY DEF SetupsTyped
  <2>2. QED
    BY <1>3, <1>4, <2>1
<1>5. CASE full # {}
  <2>1. PICK down : down = {k \in Nat : n - k \in full}
    OBVIOUS
  <2>2. \A k \in full : n - k \in down /\ k \in Nat
    <3>1. ASSUME NEW k \in full PROVE n - k \in down /\ k \in Nat
      <4>1. k \in Nat /\ n - k \in Nat /\ n - (n - k) = k
        BY <1>2
      <4>2. QED
        BY <2>1, <4>1
    <3>2. QED
      BY <3>1
  <2>3. PICK m \in down : \A k \in down : m <= k
    BY <1>5, <2>1, <2>2, LeastNat
  <2>4. n - m \in full /\ m \in Nat
    BY <2>1
  <2>5. ASSUME NEW k \in full PROVE n - m >= k
    <3>1. m <= n - k /\ k \in Nat
      BY <2>2, <2>3
    <3>2. QED
      BY <1>2, <2>4, <3>1
  <2>6. Max(full) \in full
    BY <2>4, <2>5 DEF Max
  <2>7. Min(full) \in full
    <3>1. full \subseteq Nat
      BY <1>2
    <3>2. QED
      BY <1>5, <3>1, MinIs
  <2>8. PICK a, b : a = Min(full) /\ b = Max(full)
    OBVIOUS
  <2>9. a \in 1 .. n /\ b \in 1 .. n
    BY <1>2, <2>6, <2>7, <2>8
  <2>10. a \in Int /\ b \in Int /\ \A k \in a .. b : path[k] \in Parts
    BY <1>2, <2>9
  <2>11. SubSeq(path, a, b) \in Seq(Parts)
    BY <2>10, SubSeqProperties
  <2>12. QED
    BY <1>3, <1>5, <2>8, <2>11
<1>6. QED
  BY <1>4, <1>5

LEMMA FirstWildIs ==
  ASSUME NEW p \in Seq(Parts)
  PROVE  /\ FirstWild(p) \in Nat
         /\ FirstWild(p) \in 1 .. Len(p) + 1
         /\ FirstWild(p) <= Len(p) => Wilds(p) # {} /\ IsWild(p[FirstWild(p)])
         /\ Wilds(p) # {} => FirstWild(p) <= Len(p)
         /\ \A i \in 1 .. FirstWild(p) - 1 : i \in DOMAIN p /\ ~IsWild(p[i])
<1>1. DOMAIN p = 1 .. Len(p) /\ Len(p) \in Nat
  OBVIOUS
<1>2. CASE Wilds(p) = {}
  BY <1>1, <1>2 DEF FirstWild, Wilds
<1>3. CASE Wilds(p) # {}
  <2>1. PICK w : w = Min(Wilds(p))
    OBVIOUS
  <2>2. w \in Wilds(p) /\ \A k \in Wilds(p) : w <= k
    <3>1. Wilds(p) \subseteq Nat
      BY <1>1 DEF Wilds
    <3>2. QED
      BY <1>3, <2>1, <3>1, MinIs
  <2>3. FirstWild(p) = w
    BY <1>3, <2>1 DEF FirstWild
  <2>4. w \in 1 .. Len(p) /\ IsWild(p[w])
    BY <1>1, <2>2 DEF Wilds
  <2>5. \A i \in 1 .. w - 1 : i \in DOMAIN p /\ ~IsWild(p[i])
    BY <1>1, <2>2, <2>4 DEF Wilds
  <2>6. QED
    BY <1>1, <1>3, <2>3, <2>4, <2>5
<1>4. QED
  BY <1>2, <1>3

(* A cut of t into the pieces that the parts of p stand for.               *)
CutOf(cut, p, t) ==
  /\ cut \in [0 .. Len(p) -> 0 .. Len(t)] /\ cut[0] = 0 /\ cut[Len(p)] = Len(t)
  /\ \A i \in 1 .. Len(p) :
       IF IsWild(p[i]) THEN cut[i - 1] < cut[i]
       ELSE cut[i] = cut[i - 1] + 1 /\ (IsParam(p[i]) \/ t[cut[i]] = p[i])

LEMMA FitsIs ==
  ASSUME SetupsTyped, NEW path \in Seq(Parts), NEW request \in Seq(Parts)
  PROVE  Fits(path, request) <=> \E cut : CutOf(cut, Trimmed(path), Trimmed(request))
<1>1. Trimmed(path) \in Seq(Parts)
  BY TrimmedTyped
<1>2. PICK p, t : p = Trimmed(path) /\ t = Trimmed(request)
  OBVIOUS
<1>3. DOMAIN p = 1 .. Len(p)
  BY <1>1, <1>2
<1>4. QED
  BY <1>2, <1>3 DEF Fits, CutOf

(* Before the first wildcard a cut takes part for part, and behind it it   *)
(* takes at least one each.                                                *)
LEMMA CutsPartForPart ==
  ASSUME NEW p \in Seq(Parts), NEW t \in Seq(Parts), NEW cut, CutOf(cut, p, t)
  PROVE  /\ \A i \in 0 .. FirstWild(p) - 1 : cut[i] = i
         /\ \A i \in 0 .. Len(p) : cut[i] >= i
<1>1. Len(p) \in Nat /\ Len(t) \in Nat
  OBVIOUS
<1>2. PICK w : w = FirstWild(p)
  OBVIOUS
<1>3. w \in 1 .. Len(p) + 1 /\ \A i \in 1 .. w - 1 : ~IsWild(p[i])
  BY <1>2, FirstWildIs
<1>4. /\ \A i \in 0 .. Len(p) : cut[i] \in Nat
      /\ cut[0] = 0
      /\ \A i \in 1 .. Len(p) : cut[i] > cut[i - 1] /\ (~IsWild(p[i]) => cut[i] = cut[i - 1] + 1)
  <2>1. \A i \in 0 .. Len(p) : cut[i] \in 0 .. Len(t)
    BY DEF CutOf
  <2>2. \A i \in 0 .. Len(p) : cut[i] \in Nat
    BY <1>1, <2>1
  <2>3. cut[0] = 0
    BY DEF CutOf
  <2>4. ASSUME NEW i \in 1 .. Len(p)
        PROVE  cut[i] > cut[i - 1] /\ (~IsWild(p[i]) => cut[i] = cut[i - 1] + 1)
    <3>1. i \in 0 .. Len(p) /\ i - 1 \in 0 .. Len(p)
      BY <1>1
    <3>2. cut[i] \in Nat /\ cut[i - 1] \in Nat
      BY <2>2, <3>1
    <3>3. IF IsWild(p[i]) THEN cut[i - 1] < cut[i] ELSE cut[i] = cut[i - 1] + 1
      BY DEF CutOf
    <3>4. QED
      BY <3>2, <3>3
  <2>5. QED
    BY <2>2, <2>3, <2>4
<1>5. \A i \in 0 .. Len(p) : cut[i] >= i
  <2>1. PICK bad : bad = {i \in 0 .. Len(p) : ~(cut[i] >= i)}
    OBVIOUS
  <2>2. bad \subseteq Nat
    BY <1>1, <2>1
  <2>3. ASSUME bad # {} PROVE FALSE
    <3>1. PICK m \in bad : \A k \in bad : m <= k
      BY <2>2, <2>3, LeastNat
    <3>2. m \in 0 .. Len(p) /\ ~(cut[m] >= m)
      BY <2>1, <3>1
    <3>3. m # 0
      BY <1>4, <3>2
    <3>4. m \in 1 .. Len(p) /\ m - 1 \in 0 .. Len(p)
      BY <1>1, <3>2, <3>3
    <3>5. m - 1 \notin bad
      BY <2>2, <3>1, <3>4
    <3>6. cut[m - 1] >= m - 1
      BY <2>1, <3>4, <3>5
    <3>7. cut[m] > cut[m - 1] /\ cut[m] \in Nat /\ cut[m - 1] \in Nat
      BY <1>4, <3>2, <3>4
    <3>8. QED
      BY <3>2, <3>4, <3>6, <3>7
  <2>4. QED
    BY <2>1, <2>3
<1>6. \A i \in 0 .. w - 1 : cut[i] = i
  <2>1. PICK bad : bad = {i \in 0 .. w - 1 : cut[i] # i}
    OBVIOUS
  <2>2. bad \subseteq Nat
    BY <1>1, <1>3, <2>1
  <2>3. ASSUME bad # {} PROVE FALSE
    <3>1. PICK m \in bad : \A k \in bad : m <= k
      BY <2>2, <2>3, LeastNat
    <3>2. m \in 0 .. w - 1 /\ cut[m] # m
      BY <2>1, <3>1
    <3>3. m # 0
      BY <1>4, <3>2
    <3>4. m \in 1 .. Len(p) /\ m \in 1 .. w - 1 /\ m - 1 \in 0 .. w - 1
      BY <1>1, <1>3, <3>2, <3>3
    <3>5. m - 1 \notin bad
      BY <2>2, <3>1, <3>4
    <3>6. cut[m - 1] = m - 1
      BY <2>1, <3>4, <3>5
    <3>7. cut[m] = cut[m - 1] + 1
      BY <1>3, <1>4, <3>4
    <3>8. QED
      BY <3>2, <3>4, <3>6, <3>7
  <2>4. QED
    BY <2>1, <2>3
<1>7. QED
  BY <1>2, <1>5, <1>6

(* What a pattern stands for is matched.                                   *)
LEMMA FitsMatches ==
  ASSUME SetupsTyped, NEW path \in Seq(Parts), NEW request \in Seq(Parts), Fits(path, request)
  PROVE  matchPath(path, request)
<1>1. PICK p, t : p = Trimmed(path) /\ t = Trimmed(request)
  OBVIOUS
<1>2. p \in Seq(Parts) /\ t \in Seq(Parts)
  BY <1>1, TrimmedTyped
<1>3. PICK cut : CutOf(cut, p, t)
  BY <1>1, FitsIs
<1>4. PICK w : w = FirstWild(p)
  OBVIOUS
<1>5. w \in 1 .. Len(p) + 1 /\ (Wilds(p) = {} => w = Len(p) + 1) /\ \A i \in 1 .. w - 1 : ~IsWild(p[i])
  BY <1>2, <1>4, FirstWildIs DEF FirstWild
<1>6. /\ \A i \in 0 .. w - 1 : cut[i] = i
      /\ \A i \in 0 .. Len(p) : cut[i] >= i
  BY <1>2, <1>3, <1>4, CutsPartForPart
<1>7. Len(p) \in Nat /\ Len(t) \in Nat /\ cut[Len(p)] = Len(t)
  BY <1>2, <1>3 DEF CutOf
<1>8. IF Wilds(p) = {} THEN Len(p) = Len(t) ELSE Len(p) <= Len(t)
  BY <1>5, <1>6, <1>7
<1>9. ASSUME NEW i \in 1 .. w - 1 PROVE IsParam(p[i]) \/ p[i] = t[i]
  <2>1. i \in 1 .. Len(p) /\ i \in 0 .. w - 1
    BY <1>5, <1>7
  <2>2. cut[i] = i /\ ~IsWild(p[i])
    BY <1>5, <1>6, <2>1
  <2>3. QED
    BY <1>3, <2>1, <2>2 DEF CutOf
<1>10. QED
  BY <1>1, <1>4, <1>8, <1>9 DEF matchPath

(* The cut of a match whose pattern has nothing behind its wildcard.       *)
LEMMA MatchFits ==
  ASSUME SetupsTyped, NEW path \in Seq(Parts), NEW request \in Seq(Parts),
         matchPath(path, request), EndsInWild(path)
  PROVE  /\ Fits(path, request)
         /\ NamesDiffer(path) => Fills(path, Params(path, request), request)
<1>1. PICK p, t : p = Trimmed(path) /\ t = Trimmed(request)
  OBVIOUS
<1>2. p \in Seq(Parts) /\ t \in Seq(Parts)
  BY <1>1, TrimmedTyped
<1>3. PICK w : w = FirstWild(p)
  OBVIOUS
<1>4. PICK n, m : n = Len(p) /\ m = Len(t)
  OBVIOUS
<1>5. n \in Nat /\ m \in Nat /\ DOMAIN p = 1 .. n
  BY <1>2, <1>4
<1>6. /\ w \in {n, n + 1} /\ (w <= n => IsWild(p[w]) /\ w >= 1 /\ w = n) /\ (w = n + 1 => Wilds(p) = {})
      /\ \A i \in 1 .. w - 1 : ~IsWild(p[i])
  <2>1. w >= n
    BY <1>1, <1>3, <1>4 DEF EndsInWild
  <2>2. /\ w \in 1 .. n + 1 /\ (w <= n => IsWild(p[w]) /\ w >= 1)
        /\ (Wilds(p) # {} => w <= n) /\ \A i \in 1 .. w - 1 : ~IsWild(p[i])
    BY <1>2, <1>3, <1>4, <1>5, FirstWildIs
  <2>3. QED
    BY <1>5, <2>1, <2>2
<1>7. /\ IF Wilds(p) = {} THEN n = m ELSE n <= m
      /\ \A i \in 1 .. w - 1 : IsParam(p[i]) \/ p[i] = t[i]
  BY <1>1, <1>3, <1>4 DEF matchPath
<1>8. (w = n + 1 => n = m) /\ n <= m
  BY <1>5, <1>6, <1>7
<1>9. PICK cut : cut = [j \in 0 .. n |-> IF j = n THEN m ELSE j]
  OBVIOUS
<1>10. /\ cut \in [0 .. n -> 0 .. m] /\ cut[0] = 0 /\ cut[n] = m
       /\ \A i \in 1 .. n : cut[i - 1] = i - 1 /\ cut[i] = IF i = n THEN m ELSE i
  <2>1. cut \in [0 .. n -> 0 .. m]
    BY <1>5, <1>8, <1>9
  <2>2. cut[n] = m
    BY <1>5, <1>9
  <2>3. cut[0] = 0
    BY <1>5, <1>6, <1>8, <1>9
  <2>4. QED
    BY <1>5, <1>9, <2>1, <2>2, <2>3
<1>11. \A i \in 1 .. n : IF IsWild(p[i]) THEN cut[i - 1] < cut[i]
                        ELSE cut[i] = cut[i - 1] + 1 /\ (IsParam(p[i]) \/ t[cut[i]] = p[i])
  <2>1. ASSUME NEW i \in 1 .. n, IsWild(p[i]) PROVE cut[i - 1] < cut[i]
    <3>1. i = n
      BY <1>5, <1>6, <2>1
    <3>2. QED
      BY <1>5, <1>8, <1>10, <3>1
  <2>2. ASSUME NEW i \in 1 .. n, ~IsWild(p[i])
        PROVE  cut[i] = cut[i - 1] + 1 /\ (IsParam(p[i]) \/ t[cut[i]] = p[i])
    <3>1. i \in 1 .. w - 1 /\ (i = n => n = m)
      BY <1>5, <1>6, <1>8, <2>2
    <3>2. cut[i] = i /\ cut[i - 1] = i - 1
      BY <1>5, <1>10, <3>1
    <3>3. QED
      BY <1>7, <3>1, <3>2
  <2>3. QED
    BY <2>1, <2>2
<1>12. Fits(path, request)
  <2>1. CutOf(cut, p, t)
    BY <1>4, <1>10, <1>11 DEF CutOf
  <2>2. QED
    BY <1>1, <2>1, FitsIs
<1>13. ASSUME NamesDiffer(path) PROVE Fills(path, Params(path, request), request)
  <2> DEFINE Named(name) == {i \in 1 .. w - 1 : IsParam(p[i]) /\ ParamName[p[i]] = name}
             names == {ParamName[p[i]] : i \in {j \in 1 .. w - 1 : IsParam(p[j])}}
             wild == IF w \in DOMAIN p THEN {WildName[p[w]]} ELSE {}
             values == [name \in names \cup wild |->
                          IF name \in wild THEN SubSeq(t, w, Len(t)) ELSE <<t[Max(Named(name))]>>]
             filled(i) == IF IsParam(p[i]) \/ IsWild(p[i]) THEN values[Name(p[i])] ELSE <<p[i]>>
  <2>1. Params(path, request) = values
    BY <1>1, <1>3 DEF Params
  <2>2. \A i, j \in 1 .. n : i # j /\ {p[i], p[j]} \subseteq DOMAIN ParamName \cup DOMAIN WildName
                             => Name(p[i]) # Name(p[j])
    BY <1>1, <1>5, <1>13 DEF NamesDiffer
  <2>3. \A i, j \in 1 .. n : i # j /\ (IsParam(p[i]) \/ IsWild(p[i])) /\ (IsParam(p[j]) \/ IsWild(p[j]))
                             => Name(p[i]) # Name(p[j])
    BY <2>2 DEF IsParam, IsWild
  <2>4. \A i \in 1 .. w - 1 : i \in 1 .. n /\ (i = n => n = m) /\ m \in Nat /\ i <= m
    BY <1>5, <1>6, <1>8
  <2>5. ASSUME NEW i \in 1 .. n, i \in 1 .. w - 1, IsParam(p[i]) PROVE values[Name(p[i])] = <<t[i]>>
    <3>1. ~IsWild(p[i]) /\ Name(p[i]) = ParamName[p[i]]
      BY <1>6, <2>5 DEF Name
    <3>2. Name(p[i]) \in names
      BY <2>5, <3>1
    <3>3. Name(p[i]) \notin wild
      <4>1. CASE w \in DOMAIN p
        <5>1. w \in 1 .. n /\ IsWild(p[w]) /\ i # w
          BY <1>5, <1>6, <2>5, <4>1
        <5>2. Name(p[w]) = WildName[p[w]] /\ Name(p[i]) # Name(p[w])
          BY <2>3, <2>5, <5>1 DEF Name
        <5>3. QED
          BY <4>1, <5>2
      <4>2. CASE w \notin DOMAIN p
        BY <4>2
      <4>3. QED
        BY <4>1, <4>2
    <3>4. Named(Name(p[i])) = {i}
      <4>1. i \in Named(Name(p[i]))
        BY <2>5, <3>1
      <4>2. ASSUME NEW j \in Named(Name(p[i])), j # i PROVE FALSE
        <5>1. j \in 1 .. w - 1 /\ IsParam(p[j]) /\ ParamName[p[j]] = Name(p[i])
          BY <4>2
        <5>2. ~IsWild(p[j]) /\ Name(p[j]) = Name(p[i]) /\ j \in 1 .. n
          BY <1>6, <2>4, <5>1 DEF Name
        <5>3. QED
          BY <2>3, <2>5, <4>2, <5>1, <5>2
      <4>3. QED
        BY <4>1, <4>2
    <3>5. Max(Named(Name(p[i]))) = i
      BY <2>4, <3>4, MaxOfOne
    <3>6. values[Name(p[i])] = <<t[Max(Named(Name(p[i])))]>>
      BY <3>2, <3>3
    <3>7. QED
      BY <3>5, <3>6
  <2>6. ASSUME NEW i \in 1 .. n, IsWild(p[i]) PROVE values[Name(p[i])] = SubSeq(t, i, m)
    <3>1. i = w /\ w \in DOMAIN p
      BY <1>5, <1>6, <2>6
    <3>2. Name(p[i]) = WildName[p[w]]
      BY <2>6, <3>1 DEF Name
    <3>3. Name(p[i]) \in wild
      BY <3>1, <3>2
    <3>4. values[Name(p[i])] = SubSeq(t, w, Len(t))
      BY <3>3
    <3>5. QED
      BY <1>4, <3>1, <3>4
  <2> HIDE DEF values
  <2>7. ASSUME NEW i \in 1 .. n PROVE cut[i - 1] <= cut[i] /\ SubSeq(t, cut[i - 1] + 1, cut[i]) = filled(i)
    <3>1. CASE IsWild(p[i])
      <4>1. i = n /\ cut[i] = m /\ cut[i - 1] = i - 1 /\ (i - 1) + 1 = i
        BY <1>5, <1>6, <1>10, <3>1
      <4>2. QED
        BY <1>5, <1>8, <2>6, <3>1, <4>1
    <3>2. CASE ~IsWild(p[i])
      <4>1. i \in 1 .. w - 1 /\ (i = n => n = m)
        BY <1>5, <1>6, <1>8, <3>2
      <4>2. cut[i] = i /\ cut[i - 1] = i - 1 /\ (i - 1) + 1 = i /\ i \in 1 .. m
        BY <1>5, <1>10, <2>4, <4>1
      <4>3. SubSeq(t, i, i) = <<t[i]>>
        <5>1. i \in 1 .. Len(t) /\ i \in i .. Len(t)
          BY <1>4, <1>5, <4>2
        <5>2. SubSeq(t, i, i) = SubSeq(t, i, i - 1) \o <<t[i]>>
          <6>1. i \in i .. Len(t)
            BY <5>1
          <6>2. QED
            BY <1>2, <5>1, <6>1, SubSeqRecursiveSecond
        <5>3. SubSeq(t, i, i - 1) = <<>>
          <6>1. i \in Int /\ i - 1 \in Int /\ i - 1 < i
            BY <5>1
          <6>2. QED
            BY <6>1, SubSeqEmpty
        <5>4. <<t[i]>> \in Seq(Parts)
          BY <1>2, <5>1
        <5>5. QED
          BY <5>2, <5>3, <5>4, ConcatEmptySeq
      <4>4. filled(i) = <<t[i]>>
        BY <1>7, <2>5, <3>2, <4>1
      <4>5. QED
        BY <4>2, <4>3, <4>4
    <3>3. QED
      BY <3>1, <3>2
  <2>8. PICK vs : vs = values
    OBVIOUS
  <2>9. \A i \in 1 .. n : cut[i - 1] <= cut[i]
                          /\ SubSeq(t, cut[i - 1] + 1, cut[i])
                             = IF IsParam(p[i]) \/ IsWild(p[i]) THEN vs[Name(p[i])] ELSE <<p[i]>>
    BY <2>7, <2>8
  <2>10. Fills(path, vs, request)
    BY <1>1, <1>4, <1>5, <1>10, <2>9 DEF Fills
  <2>11. QED
    BY <2>1, <2>8, <2>10
<1>14. QED
  BY <1>12, <1>13

-----------------------------------------------------------------------------
(* The answer of a request behind a handler.                               *)

EndsOp(op, method) == op \in {"end", "error", "panic"} \/ (op = "preflight" /\ method = "OPTIONS")

LEMMA AppendedText ==
  ASSUME NEW T, NEW texts \in Seq(T), NEW text \in T
  PROVE  /\ Append(texts, text) \in Seq(T)
         /\ \A x : x \in Range(Append(texts, text)) <=> x \in Range(texts) \/ x = text
<1>1. PICK s : s = Append(texts, text)
  OBVIOUS
<1>2. PICK n : n = Len(texts)
  OBVIOUS
<1>3. /\ s \in Seq(T) /\ n \in Nat /\ DOMAIN texts = 1 .. n /\ DOMAIN s = 1 .. n + 1
      /\ s[n + 1] = text /\ \A i \in 1 .. n : s[i] = texts[i]
  BY <1>1, <1>2, AppendProperties
<1>4. ASSUME NEW x PROVE x \in Range(s) <=> x \in Range(texts) \/ x = text
  <2>1. ASSUME x \in Range(s) PROVE x \in Range(texts) \/ x = text
    <3>1. PICK i \in 1 .. n + 1 : x = s[i]
      BY <1>3, <2>1 DEF Range
    <3>2. i = n + 1 \/ i \in 1 .. n
      BY <1>3
    <3>3. QED
      BY <1>3, <3>1, <3>2 DEF Range
  <2>2. ASSUME x \in Range(texts) PROVE x \in Range(s)
    <3>1. PICK i \in 1 .. n : x = texts[i]
      BY <1>3, <2>2 DEF Range
    <3>2. i \in 1 .. n + 1 /\ x = s[i]
      BY <1>3, <3>1
    <3>3. QED
      BY <1>3, <3>2 DEF Range
  <2>3. ASSUME x = text PROVE x \in Range(s)
    <3>1. n + 1 \in 1 .. n + 1
      BY <1>3
    <3>2. QED
      BY <1>3, <2>3, <3>1 DEF Range
  <2>4. QED
    BY <2>1, <2>2, <2>3
<1>5. QED
  BY <1>1, <1>3, <1>4

(* The parts of two answers that differ by a status and by a text.         *)
Stated(a, b, code) ==
  /\ b \in Answer /\ b.status = (IF a.status = 0 THEN code ELSE a.status)
  /\ b.aborted = a.aborted /\ b.panicked = a.panicked

LEMMA StatusIs ==
  ASSUME NEW a \in Answer, NEW code \in Nat
  PROVE  Stated(a, Status(a, code), code) /\ Status(a, code).written = a.written
         /\ Status(a, code).bodies = a.bodies
BY DEF Status, Answer, Stated

LEMMA BodyIs ==
  ASSUME NEW a \in Answer, NEW text \in {"body", "error"}
  PROVE  /\ Stated(a, Body(a, text), 200) /\ Body(a, text).written
         /\ \A x : x \in Range(Body(a, text).bodies) <=> x \in Range(a.bodies) \/ x = text
<1>1. PICK b : b = Status(a, 200)
  OBVIOUS
<1>2. b \in Answer /\ Stated(a, b, 200) /\ b.bodies = a.bodies
  BY <1>1, StatusIs DEF Stated
<1>3. PICK T : T = {"body", "redirect", "error", "not found"}
  OBVIOUS
<1>4. b.bodies \in Seq(T) /\ text \in T
  BY <1>2, <1>3 DEF Answer
<1>5. PICK texts : texts = Append(b.bodies, text)
  OBVIOUS
<1>6. texts \in Seq(T) /\ \A x : x \in Range(texts) <=> x \in Range(a.bodies) \/ x = text
  BY <1>2, <1>4, <1>5, AppendedText
<1>7. Body(a, text) = [b EXCEPT !.written = TRUE, !.bodies = texts]
  BY <1>1, <1>5 DEF Body
<1>8. /\ Body(a, text) \in Answer /\ Body(a, text).bodies = texts /\ Body(a, text).written
      /\ Body(a, text).status = b.status /\ Body(a, text).aborted = b.aborted
      /\ Body(a, text).panicked = b.panicked
  BY <1>2, <1>3, <1>6, <1>7 DEF Answer
<1>9. QED
  BY <1>2, <1>6, <1>8 DEF Stated

LEMMA AbortIs ==
  ASSUME NEW a \in Answer
  PROVE  /\ Abort(a) \in Answer /\ Abort(a).status = a.status /\ Abort(a).aborted
         /\ Abort(a).panicked = a.panicked /\ Abort(a).written = a.written /\ Abort(a).bodies = a.bodies
BY DEF Abort, Answer

(* What an operation does to an answer.                                    *)
OperationOf(a, b, op, method) ==
  /\ b \in Answer
  /\ b.status = IF a.status # 0 \/ ~Speaks(op, method) \/ op = "panic" THEN a.status ELSE Says(op)
  /\ b.aborted <=> a.aborted \/ (EndsOp(op, method) /\ op # "panic")
  /\ b.panicked <=> a.panicked \/ op = "panic"
  /\ b.written <=> a.written \/ op \in {"body", "error"}
  /\ \A x \in {"body", "error"} : x \in Range(b.bodies) <=> x \in Range(a.bodies) \/ x = op

LEMMA OperationIs ==
  ASSUME NEW a \in Answer, NEW op \in Operations, NEW method
  PROVE  OperationOf(a, Operation(a, op, method), op, method)
<1> DEFINE b == Operation(a, op, method)
<1> SUFFICES OperationOf(a, b, op, method)
  OBVIOUS
<1>1. a.status \in Nat /\ a.written \in BOOLEAN /\ a.aborted \in BOOLEAN /\ a.panicked \in BOOLEAN
  BY DEF Answer
<1>2. CASE op = "status"
  <2>1. b = Status(a, 201)
    BY <1>2 DEF Operation
  <2>2. Stated(a, b, 201) /\ b.written = a.written /\ b.bodies = a.bodies
    BY <2>1, StatusIs
  <2>3. QED
    BY <1>1, <1>2, <2>2 DEF OperationOf, Stated, Speaks, Says, EndsOp
<1>3. CASE op = "body"
  <2>1. b = Body(a, "body")
    BY <1>3 DEF Operation
  <2>2. /\ Stated(a, b, 200) /\ b.written
        /\ \A x : x \in Range(b.bodies) <=> x \in Range(a.bodies) \/ x = "body"
    BY <2>1, BodyIs
  <2>3. QED
    BY <1>1, <1>3, <2>2 DEF OperationOf, Stated, Speaks, Says, EndsOp
<1>4. CASE op = "redirect"
  <2>1. PICK c : c = Status(a, 302)
    OBVIOUS
  <2>2. Stated(a, c, 302) /\ c.written = a.written /\ c.bodies = a.bodies /\ c \in Answer
    BY <2>1, StatusIs DEF Stated
  <2>3. PICK T : T = {"body", "redirect", "error", "not found"}
    OBVIOUS
  <2>4. PICK more, texts : /\ more = Append(c.bodies, "redirect")
                           /\ texts = IF method = "GET" /\ c.bodies = <<>> THEN more ELSE c.bodies
    OBVIOUS
  <2>5. texts \in Seq(T) /\ \A x \in {"body", "error"} : x \in Range(texts) <=> x \in Range(a.bodies)
    <3>1. c.bodies \in Seq(T) /\ "redirect" \in T
      BY <2>2, <2>3 DEF Answer
    <3>2. more \in Seq(T) /\ \A x : x \in Range(more) <=> x \in Range(a.bodies) \/ x = "redirect"
      BY <2>2, <2>4, <3>1, AppendedText
    <3>3. \A x \in {"body", "error"} : x # "redirect"
      OBVIOUS
    <3>4. texts = more \/ texts = a.bodies
      BY <2>2, <2>4
    <3>5. QED
      BY <2>2, <3>1, <3>2, <3>3, <3>4
  <2>6. b = [c EXCEPT !.bodies = texts]
    BY <1>4, <2>1, <2>4 DEF Operation, Redirect
  <2>7. b \in Answer /\ b.status = c.status /\ b.aborted = c.aborted /\ b.panicked = c.panicked
        /\ b.written = c.written /\ b.bodies = texts
    BY <2>2, <2>3, <2>5, <2>6 DEF Answer
  <2> HIDE DEF b
  <2>8. \A x \in {"body", "error"} : x \in Range(b.bodies) <=> x \in Range(a.bodies) \/ x = op
    BY <1>4, <2>5, <2>7
  <2>9. QED
    BY <1>1, <1>4, <2>2, <2>7, <2>8 DEF OperationOf, Stated, Speaks, Says, EndsOp
<1>5. CASE op = "end"
  <2>1. b = Abort(a)
    BY <1>5 DEF Operation
  <2>2. /\ b \in Answer /\ b.status = a.status /\ b.aborted
        /\ b.panicked = a.panicked /\ b.written = a.written /\ b.bodies = a.bodies
    BY <2>1, AbortIs
  <2>3. QED
    BY <1>1, <1>5, <2>2 DEF OperationOf, Speaks, EndsOp
<1>6. CASE op = "error"
  <2>1. PICK c : c = Status(a, 500)
    OBVIOUS
  <2>2. PICK d : d = Body(c, "error")
    OBVIOUS
  <2>3. b = Abort(d)
    BY <1>6, <2>1, <2>2 DEF Operation, Failed
  <2>4. Stated(a, c, 500) /\ c.bodies = a.bodies /\ c \in Answer
    BY <2>1, StatusIs DEF Stated
  <2>5. /\ Stated(c, d, 200) /\ d.written /\ d \in Answer
        /\ \A x : x \in Range(d.bodies) <=> x \in Range(c.bodies) \/ x = "error"
    BY <2>2, <2>4, BodyIs DEF Stated
  <2>6. /\ b \in Answer /\ b.status = d.status /\ b.aborted
        /\ b.panicked = d.panicked /\ b.written = d.written /\ b.bodies = d.bodies
    BY <2>3, <2>5, AbortIs
  <2> HIDE DEF b
  <2>7. Speaks(op, method) /\ op # "panic" /\ Says(op) = 500 /\ EndsOp(op, method) /\ op \in {"body", "error"}
    BY <1>6 DEF Speaks, Says, EndsOp
  <2>8. b.status = IF a.status # 0 THEN a.status ELSE 500
    BY <1>1, <2>4, <2>5, <2>6 DEF Stated
  <2>9. b.panicked = a.panicked
    BY <2>4, <2>5, <2>6 DEF Stated
  <2>10. \A x \in {"body", "error"} : x \in Range(b.bodies) <=> x \in Range(a.bodies) \/ x = op
    BY <1>6, <2>4, <2>5, <2>6
  <2>11. QED
    BY <1>1, <2>5, <2>6, <2>7, <2>8, <2>9, <2>10 DEF OperationOf
<1>7. CASE op = "preflight" /\ method = "OPTIONS"
  <2>1. PICK c : c = Status(a, 204)
    OBVIOUS
  <2>2. b = Abort(c)
    BY <1>7, <2>1 DEF Operation, Preflight
  <2>3. Stated(a, c, 204) /\ c.written = a.written /\ c.bodies = a.bodies /\ c \in Answer
    BY <2>1, StatusIs DEF Stated
  <2>4. /\ b \in Answer /\ b.status = c.status /\ b.aborted
        /\ b.panicked = c.panicked /\ b.written = c.written /\ b.bodies = c.bodies
    BY <2>2, <2>3, AbortIs
  <2>5. QED
    BY <1>1, <1>7, <2>3, <2>4 DEF OperationOf, Stated, Speaks, Says, EndsOp
<1>8. CASE op = "panic"
  <2>1. b = [a EXCEPT !.panicked = TRUE]
    BY <1>8 DEF Operation
  <2>2. /\ b \in Answer /\ b.status = a.status /\ b.aborted = a.aborted
        /\ b.panicked /\ b.written = a.written /\ b.bodies = a.bodies
    BY <2>1 DEF Answer
  <2>3. QED
    BY <1>1, <1>8, <2>2 DEF OperationOf, Speaks, EndsOp
<1>9. CASE op = "next" \/ (op = "preflight" /\ method # "OPTIONS")
  <2>1. b = a
    BY <1>9 DEF Operation
  <2>2. QED
    BY <1>1, <1>9, <2>1 DEF OperationOf, Speaks, EndsOp
<1>10. QED
  BY <1>2, <1>3, <1>4, <1>5, <1>6, <1>7, <1>8, <1>9 DEF Operations

(* The operations of a handler, one behind the other.                      *)
FoldsTo(f, n, a, does, method) ==
  f = [i \in 0 .. n |-> IF i = 0 THEN a ELSE Operation(f[i - 1], does[i], method)]

LEMMA FoldGrows ==
  ASSUME NEW n \in Nat, NEW f, NEW a, NEW does, NEW method, FoldsTo(f, n, a, does, method)
  PROVE  \E g : FoldsTo(g, n + 1, a, does, method)
<1> DEFINE g == [i \in 0 .. n + 1 |-> IF i = n + 1 THEN Operation(f[n], does[i], method) ELSE f[i]]
<1>1. \A i \in 0 .. n : f[i] = IF i = 0 THEN a ELSE Operation(f[i - 1], does[i], method)
  BY DEF FoldsTo
<1>2. \A i \in 0 .. n : i # n + 1 /\ i \in 0 .. n + 1 /\ g[i] = f[i]
  OBVIOUS
<1>3. ASSUME NEW i \in 0 .. n + 1
      PROVE  g[i] = IF i = 0 THEN a ELSE Operation(g[i - 1], does[i], method)
  <2>1. CASE i = n + 1
    <3>1. i - 1 = n /\ i # 0 /\ n \in 0 .. n
      BY <2>1
    <3>2. g[i - 1] = f[n] /\ g[i] = Operation(f[n], does[i], method)
      BY <1>2, <2>1, <3>1
    <3>3. QED
      BY <3>1, <3>2
  <2>2. CASE i # n + 1
    <3>1. i \in 0 .. n /\ (i # 0 => i - 1 \in 0 .. n)
      BY <2>2
    <3>2. QED
      BY <1>1, <1>2, <3>1
  <2>3. QED
    BY <2>1, <2>2
<1>4. FoldsTo(g, n + 1, a, does, method)
  BY <1>3 DEF FoldsTo
<1>5. QED
  BY <1>4

LEMMA FoldExists ==
  ASSUME NEW a, NEW does, NEW method, NEW n \in Nat
  PROVE  \E f : FoldsTo(f, n, a, does, method)
<1> SUFFICES ASSUME ~(\E f : FoldsTo(f, n, a, does, method)) PROVE FALSE
  OBVIOUS
<1>1. PICK bad : bad = {k \in Nat : ~(\E f : FoldsTo(f, k, a, does, method))}
  OBVIOUS
<1>2. PICK m \in bad : \A k \in bad : m <= k
  BY <1>1, LeastNat
<1>3. m # 0
  <2>1. PICK f : f = [i \in 0 .. 0 |-> a]
    OBVIOUS
  <2>2. f = [i \in 0 .. 0 |-> IF i = 0 THEN a ELSE Operation(f[i - 1], does[i], method)]
    <3>1. \A i \in 0 .. 0 : i = 0
      OBVIOUS
    <3>2. QED
      BY <2>1, <3>1
  <2>3. FoldsTo(f, 0, a, does, method)
    BY <2>2 DEF FoldsTo
  <2>4. QED
    BY <1>1, <1>2, <2>3
<1>4. m \in Nat /\ m - 1 \in Nat /\ ~(m <= m - 1) /\ (m - 1) + 1 = m
  BY <1>1, <1>2, <1>3
<1>5. PICK f : FoldsTo(f, m - 1, a, does, method)
  BY <1>1, <1>2, <1>4
<1>6. \E g : FoldsTo(g, (m - 1) + 1, a, does, method)
  BY <1>4, <1>5, FoldGrows
<1>7. QED
  BY <1>1, <1>2, <1>4, <1>6

LEMMA HandledIs ==
  ASSUME NEW q, NEW h, h.does \in Seq(Operations)
  PROVE  \E f : /\ FoldsTo(f, Len(h.does), answer[q], h.does, wants[q].method)
                /\ Handled(q, h) = f[Len(h.does)]
<1>1. Len(h.does) \in Nat
  OBVIOUS
<1> DEFINE f == CHOOSE f : f = [i \in 0 .. Len(h.does) |->
                                 IF i = 0 THEN answer[q]
                                 ELSE Operation(f[i - 1], h.does[i], wants[q].method)]
<1>2. \E g : g = [i \in 0 .. Len(h.does) |->
                   IF i = 0 THEN answer[q] ELSE Operation(g[i - 1], h.does[i], wants[q].method)]
  <2>1. PICK n : n = Len(h.does)
    OBVIOUS
  <2>2. \E g : FoldsTo(g, n, answer[q], h.does, wants[q].method)
    BY <1>1, <2>1, FoldExists
  <2>3. QED
    BY <2>1, <2>2 DEF FoldsTo
<1>3. f = [i \in 0 .. Len(h.does) |->
             IF i = 0 THEN answer[q] ELSE Operation(f[i - 1], h.does[i], wants[q].method)]
  BY <1>2
<1>4. Handled(q, h) = f[Len(h.does)]
  BY DEF Handled
<1>5. QED
  BY <1>3, <1>4 DEF FoldsTo

(* The first operation that says something.                                *)
FirstVoice(does, method, m) ==
  /\ m \in 1 .. Len(does) /\ Speaks(does[m], method)
  /\ \A i \in 1 .. m - 1 : ~Speaks(does[i], method)

(* The answer b that the first k operations make of a.                     *)
After(k, a, b, does, method) ==
  /\ b \in Answer
  /\ a.status # 0 => b.status = a.status
  /\ (\A i \in 1 .. k : ~Speaks(does[i], method)) => b.status = a.status
  /\ a.status = 0 => \A m \in 1 .. k : FirstVoice(does, method, m) =>
                       b.status = IF does[m] = "panic" THEN 0 ELSE Says(does[m])
  /\ b.aborted \/ b.panicked <=> \E i \in 1 .. k : EndsOp(does[i], method)
  /\ b.panicked <=> \E i \in 1 .. k : does[i] = "panic"
  /\ b.written => b.status # 0
  /\ "body" \in Range(b.bodies) => b.written
  /\ "error" \in Range(b.bodies) => \E i \in 1 .. k : does[i] = "error"

(* A request whose handlers go on.                                         *)
Running(a) ==
  /\ a \in Answer /\ ~a.aborted /\ ~a.panicked /\ "error" \notin Range(a.bodies)
  /\ a.written => a.status # 0
  /\ "body" \in Range(a.bodies) => a.written

LEMMA SaysSomething == \A op, method : Speaks(op, method) => Says(op) \in Nat /\ Says(op) # 0
BY DEF Speaks, Says

LEMMA AfterGrows ==
  ASSUME NEW does \in Doing, NEW method, NEW a, Running(a), NEW b, NEW c, NEW k \in 1 .. Len(does),
         After(k - 1, a, b, does, method), OperationOf(b, c, does[k], method)
  PROVE  After(k, a, c, does, method)
<1>1. does \in Seq(Operations) /\ Len(does) \in Nat /\ Over(does)
  BY DEF Doing
<1>2. PICK op : op = does[k]
  OBVIOUS
<1>3. op \in Operations
  BY <1>1, <1>2
<1>4. /\ k \in Nat /\ \A i \in 1 .. k : i = k \/ i \in 1 .. k - 1
      /\ k \in 1 .. k /\ \A i \in 1 .. k - 1 : i \in 1 .. k /\ i \in 1 .. Len(does) - 1
  BY <1>1
<1>5. \A i \in 1 .. k - 1 : does[i] \notin {"error", "panic"}
  BY <1>1, <1>4 DEF Over
<1>6. /\ b \in Answer
      /\ a.status # 0 => b.status = a.status
      /\ (\A i \in 1 .. k - 1 : ~Speaks(does[i], method)) => b.status = a.status
      /\ a.status = 0 => \A m \in 1 .. k - 1 : FirstVoice(does, method, m) =>
                           b.status = IF does[m] = "panic" THEN 0 ELSE Says(does[m])
  BY DEF After
<1>7. /\ c \in Answer
      /\ c.status = IF b.status # 0 \/ ~Speaks(op, method) \/ op = "panic" THEN b.status ELSE Says(op)
  BY <1>2 DEF OperationOf
<1>8. a.status # 0 => c.status = a.status
  BY <1>6, <1>7
<1>9. ASSUME \A i \in 1 .. k : ~Speaks(does[i], method) PROVE c.status = a.status
  BY <1>2, <1>4, <1>6, <1>7, <1>9
<1>10. ASSUME a.status = 0, NEW m \in 1 .. k, FirstVoice(does, method, m)
       PROVE  c.status = IF does[m] = "panic" THEN 0 ELSE Says(does[m])
  <2>1. CASE m = k
    <3>1. Speaks(op, method) /\ \A i \in 1 .. k - 1 : ~Speaks(does[i], method)
      BY <1>2, <1>10, <2>1 DEF FirstVoice
    <3>2. b.status = 0
      BY <1>6, <1>10, <3>1
    <3>3. QED
      BY <1>2, <1>7, <2>1, <3>1, <3>2
  <2>2. CASE m # k
    <3>1. m \in 1 .. k - 1 /\ does[m] # "panic"
      BY <1>4, <1>5, <2>2
    <3>2. b.status = Says(does[m])
      BY <1>6, <1>10, <3>1
    <3>3. Says(does[m]) # 0
      BY <1>10, SaysSomething DEF FirstVoice
    <3>4. QED
      BY <1>7, <3>1, <3>2, <3>3
  <2>3. QED
    BY <2>1, <2>2
<1>11. c.aborted \/ c.panicked <=> \E i \in 1 .. k : EndsOp(does[i], method)
  <2>1. b.aborted \/ b.panicked <=> \E i \in 1 .. k - 1 : EndsOp(does[i], method)
    BY DEF After
  <2>2. c.aborted \/ c.panicked <=> b.aborted \/ b.panicked \/ EndsOp(op, method)
    <3>1. /\ c.aborted <=> b.aborted \/ (EndsOp(op, method) /\ op # "panic")
          /\ c.panicked <=> b.panicked \/ op = "panic"
      BY <1>2 DEF OperationOf
    <3>2. op = "panic" => EndsOp(op, method)
      BY DEF EndsOp
    <3>3. QED
      BY <3>1, <3>2
  <2>3. QED
    BY <1>2, <1>4, <2>1, <2>2
<1>12. c.panicked <=> \E i \in 1 .. k : does[i] = "panic"
  <2>1. b.panicked <=> \E i \in 1 .. k - 1 : does[i] = "panic"
    BY DEF After
  <2>2. c.panicked <=> b.panicked \/ op = "panic"
    BY <1>2 DEF OperationOf
  <2>3. QED
    BY <1>2, <1>4, <2>1, <2>2
<1>13. c.written => c.status # 0
  <2>1. c.written <=> b.written \/ op \in {"body", "error"}
    BY <1>2 DEF OperationOf
  <2>2. b.written => b.status # 0
    BY DEF After
  <2>3. op \in {"body", "error"} => Speaks(op, method) /\ op # "panic" /\ Says(op) # 0
    BY DEF Speaks, Says
  <2>4. QED
    BY <1>7, <2>1, <2>2, <2>3
<1>14. "body" \in Range(c.bodies) => c.written
  <2>1. "body" \in Range(c.bodies) <=> "body" \in Range(b.bodies) \/ "body" = op
    BY <1>2 DEF OperationOf
  <2>2. c.written <=> b.written \/ op \in {"body", "error"}
    BY <1>2 DEF OperationOf
  <2>3. "body" \in Range(b.bodies) => b.written
    BY DEF After
  <2>4. QED
    BY <2>1, <2>2, <2>3
<1>15. "error" \in Range(c.bodies) => \E i \in 1 .. k : does[i] = "error"
  <2>1. "error" \in Range(c.bodies) <=> "error" \in Range(b.bodies) \/ "error" = op
    BY <1>2 DEF OperationOf
  <2>2. "error" \in Range(b.bodies) => \E i \in 1 .. k - 1 : does[i] = "error"
    BY DEF After
  <2>3. QED
    BY <1>2, <1>4, <2>1, <2>2
<1>16. QED
  BY <1>7, <1>8, <1>9, <1>10, <1>11, <1>12, <1>13, <1>14, <1>15 DEF After

LEMMA HandlerAnswers ==
  ASSUME NEW q, Running(answer[q]), NEW h \in Handler
  PROVE  After(Len(h.does), answer[q], Handled(q, h), h.does, wants[q].method)
<1>1. h.does \in Doing /\ h.does \in Seq(Operations) /\ Len(h.does) \in Nat
  BY DEF Handler, Doing
<1>2. PICK a, does, method : a = answer[q] /\ does = h.does /\ method = wants[q].method
  OBVIOUS
<1>3. PICK n : n = Len(does)
  OBVIOUS
<1>4. PICK f : FoldsTo(f, n, a, does, method) /\ Handled(q, h) = f[n]
  BY <1>1, <1>2, <1>3, HandledIs
<1>5. f[0] = a /\ \A k \in 1 .. n : f[k] = Operation(f[k - 1], does[k], method)
  <2>1. \A k \in 0 .. n : f[k] = IF k = 0 THEN a ELSE Operation(f[k - 1], does[k], method)
    BY <1>4 DEF FoldsTo
  <2>2. 0 \in 0 .. n /\ \A k \in 1 .. n : k \in 0 .. n /\ k # 0
    BY <1>1, <1>2, <1>3
  <2>3. QED
    BY <2>1, <2>2
<1>6. After(0, a, a, does, method)
  <2>1. Running(a)
    BY <1>2
  <2>2. QED
    BY <2>1 DEF After, Running
<1>7. PICK bad : bad = {k \in 0 .. n : ~After(k, a, f[k], does, method)}
  OBVIOUS
<1>8. ASSUME bad # {} PROVE FALSE
  <2>1. bad \subseteq Nat
    BY <1>1, <1>2, <1>3, <1>7
  <2>2. PICK k \in bad : \A j \in bad : k <= j
    BY <1>8, <2>1, LeastNat
  <2>3. k \in 0 .. n /\ ~After(k, a, f[k], does, method)
    BY <1>7, <2>2
  <2>4. k # 0
    BY <1>5, <1>6, <2>3
  <2>5. k \in 1 .. n /\ k - 1 \in 0 .. n /\ ~(k <= k - 1) /\ n \in Nat
    BY <1>1, <1>2, <1>3, <2>3, <2>4
  <2>6. After(k - 1, a, f[k - 1], does, method)
    BY <1>7, <2>2, <2>5
  <2>7. f[k - 1] \in Answer /\ does[k] \in Operations
    BY <1>1, <1>2, <1>3, <2>5, <2>6 DEF After
  <2>8. PICK b, c : b = f[k - 1] /\ c = f[k]
    OBVIOUS
  <2>9. OperationOf(b, c, does[k], method)
    BY <1>5, <2>5, <2>7, <2>8, OperationIs
  <2>10. After(k - 1, a, b, does, method) /\ Running(a) /\ does \in Doing /\ k \in 1 .. Len(does)
    BY <1>1, <1>2, <1>3, <2>5, <2>6, <2>8
  <2>11. After(k, a, c, does, method)
    BY <2>9, <2>10, AfterGrows
  <2>12. QED
    BY <2>3, <2>8, <2>11
<1>9. n \in 0 .. n
  BY <1>1, <1>2, <1>3
<1>10. After(n, a, f[n], does, method)
  BY <1>7, <1>8, <1>9
<1>11. QED
  BY <1>2, <1>3, <1>4, <1>10

(* The answer that a handler makes of a, recovered when it panicked.       *)
Replied(a, c, h, method) ==
  /\ c \in Answer
  /\ a.status # 0 => c.status = a.status
  /\ (\A i \in 1 .. Len(h.does) : ~Speaks(h.does[i], method)) => c.status = a.status
  /\ a.status = 0 => \A m \in 1 .. Len(h.does) : FirstVoice(h.does, method, m) => c.status = Says(h.does[m])
  /\ ~Ends(h, method) => Running(c)
  /\ c.written => c.status # 0
  /\ "body" \in Range(c.bodies) => c.written
  /\ "body" \in Range(c.bodies) /\ "error" \in Range(c.bodies) => "error" \in Range(h.does)

LEMMA HandlerReplies ==
  ASSUME NEW q, Running(answer[q]), NEW h \in Handler, NEW b, b = Handled(q, h)
  PROVE  /\ b \in Answer
         /\ b.aborted \/ b.panicked <=> Ends(h, wants[q].method)
         /\ Replied(answer[q], IF b.panicked THEN Recovered(b) ELSE b, h, wants[q].method)
<1>1. PICK a, does, method : a = answer[q] /\ does = h.does /\ method = wants[q].method
  OBVIOUS
<1>2. PICK n : n = Len(does)
  OBVIOUS
<1>3. does \in Doing /\ does \in Seq(Operations) /\ n \in Nat /\ DOMAIN does = 1 .. n /\ Over(does)
  BY <1>1, <1>2 DEF Handler, Doing
<1>4. After(n, a, b, does, method)
  BY <1>1, <1>2, HandlerAnswers
<1>5. Running(a)
  BY <1>1
<1>6. b \in Answer /\ b.status \in Nat /\ b.panicked \in BOOLEAN /\ b.aborted \in BOOLEAN /\ b.written \in BOOLEAN
  BY <1>4 DEF After, Answer
<1>7. Ends(h, method) <=> \E i \in 1 .. n : EndsOp(does[i], method)
  BY <1>1, <1>3 DEF Ends, EndsOp
<1>8. b.aborted \/ b.panicked <=> Ends(h, method)
  BY <1>4, <1>7 DEF After
<1>9. "error" \in Range(b.bodies) => "error" \in Range(does)
  BY <1>3, <1>4 DEF After, Range
<1>10. CASE ~b.panicked
  <2>1. \A m \in 1 .. n : does[m] # "panic"
    BY <1>4, <1>10 DEF After
  <2>2. a.status = 0 => \A m \in 1 .. n : FirstVoice(does, method, m) => b.status = Says(does[m])
    BY <1>4, <2>1 DEF After
  <2>3. "error" \in Range(b.bodies) => Ends(h, method)
    <3>1. "error" \in Range(b.bodies) => \E i \in 1 .. n : does[i] = "error"
      BY <1>4 DEF After
    <3>2. \A i \in 1 .. n : does[i] = "error" => EndsOp(does[i], method)
      BY DEF EndsOp
    <3>3. QED
      BY <1>7, <3>1, <3>2
  <2>4. ~Ends(h, method) => Running(b)
    BY <1>4, <1>6, <1>8, <2>3 DEF After, Running
  <2>5. Replied(a, b, h, method)
    BY <1>1, <1>2, <1>4, <1>9, <2>2, <2>4 DEF After, Replied
  <2>6. QED
    BY <1>1, <1>6, <1>8, <1>10, <2>5
<1>11. CASE b.panicked
  <2>1. PICK c : c = Recovered(b)
    OBVIOUS
  <2>2. PICK p \in 1 .. n : does[p] = "panic"
    BY <1>4, <1>11 DEF After
  <2>3. p = n
    <3>1. \A i \in 1 .. n - 1 : does[i] # "panic"
      BY <1>2, <1>3 DEF Over
    <3>2. p \in 1 .. n - 1 \/ p = n
      BY <1>3
    <3>3. QED
      BY <2>2, <3>1, <3>2
  <2>4. Speaks(does[p], method) /\ Says(does[p]) = 500
    BY <2>2 DEF Speaks, Says
  <2>5. IF b.written THEN c = b
        ELSE /\ c \in Answer /\ c.written /\ c.status = IF b.status = 0 THEN 500 ELSE b.status
             /\ \A x : x \in Range(c.bodies) <=> x \in Range(b.bodies) \/ x = "error"
    <3>1. CASE b.written
      BY <2>1, <3>1 DEF Recovered
    <3>2. CASE ~b.written
      <4>1. PICK d : d = Status(b, 500)
        OBVIOUS
      <4>2. Stated(b, d, 500) /\ d \in Answer /\ d.bodies = b.bodies
        <5>1. b \in Answer /\ 500 \in Nat
          BY <1>6
        <5>2. Stated(b, Status(b, 500), 500) /\ Status(b, 500).bodies = b.bodies
          BY <5>1, StatusIs
        <5>3. QED
          BY <4>1, <5>2 DEF Stated
      <4>3. c = Body(d, "error")
        BY <2>1, <3>2, <4>1 DEF Recovered
      <4>4. /\ Stated(d, c, 200) /\ c.written
            /\ \A x : x \in Range(c.bodies) <=> x \in Range(d.bodies) \/ x = "error"
        BY <4>2, <4>3, BodyIs
      <4>5. QED
        BY <1>6, <3>2, <4>2, <4>4 DEF Stated
    <3>3. QED
      BY <3>1, <3>2
  <2>6. c \in Answer
    BY <1>6, <2>5
  <2>7. a.status # 0 => c.status = a.status
    BY <1>4, <2>5 DEF After
  <2>8. ~(\A i \in 1 .. n : ~Speaks(does[i], method))
    BY <2>4
  <2>9. ASSUME a.status = 0, NEW m \in 1 .. n, FirstVoice(does, method, m) PROVE c.status = Says(does[m])
    <3>1. b.status = IF does[m] = "panic" THEN 0 ELSE Says(does[m])
      BY <1>4, <2>9 DEF After
    <3>2. b.written => b.status # 0
      BY <1>4 DEF After
    <3>3. Says(does[m]) # 0 /\ (does[m] = "panic" => Says(does[m]) = 500)
      BY <2>9, SaysSomething DEF FirstVoice, Says
    <3>4. QED
      BY <2>5, <3>1, <3>2, <3>3
  <2>10. c.written => c.status # 0
    <3>1. b.written => b.status # 0
      BY <1>4 DEF After
    <3>2. QED
      BY <1>6, <2>5, <3>1
  <2>11. "body" \in Range(b.bodies) => b.written
    BY <1>4 DEF After
  <2>12. "body" \in Range(c.bodies) => c.written /\ c = b
    BY <2>5, <2>11
  <2>13. "body" \in Range(c.bodies) /\ "error" \in Range(c.bodies) => "error" \in Range(does)
    BY <1>9, <2>12
  <2>14. Ends(h, method)
    BY <1>8, <1>11
  <2>15. Replied(a, c, h, method)
    BY <1>1, <1>2, <2>6, <2>7, <2>8, <2>9, <2>10, <2>12, <2>13, <2>14 DEF Replied
  <2>16. QED
    BY <1>1, <1>6, <1>8, <1>11, <2>1, <2>15
<1>12. QED
  BY <1>6, <1>10, <1>11

(* What the first operation of all handlers said.                          *)
Quiet(ran, method) == \A j \in DOMAIN ran : Voices(ran[j], method) = {}
Spoken(ran, method) ==
  LET speakers == {j \in DOMAIN ran : Voices(ran[j], method) # {}}
      first == ran[Min(speakers)]
  IN  Says(first.does[Min(Voices(first, method))])

LEMMA VoicesAre ==
  ASSUME NEW h \in Handler, NEW method
  PROVE  /\ Voices(h, method) = {} <=> \A i \in 1 .. Len(h.does) : ~Speaks(h.does[i], method)
         /\ \A m : FirstVoice(h.does, method, m) => m \in Voices(h, method) /\ m = Min(Voices(h, method))
         /\ Voices(h, method) # {} => FirstVoice(h.does, method, Min(Voices(h, method)))
<1>1. PICK n : n = Len(h.does)
  OBVIOUS
<1>2. n \in Nat /\ DOMAIN h.does = 1 .. n
  BY <1>1 DEF Handler, Doing
<1>3. PICK V : V = Voices(h, method)
  OBVIOUS
<1>4. V = {k \in 1 .. n : Speaks(h.does[k], method)} /\ V \subseteq Nat
  BY <1>2, <1>3 DEF Voices
<1>5. V # {} => Min(V) \in V /\ \A k \in V : Min(V) <= k
  BY <1>4, MinIs
<1>6. ASSUME NEW m, FirstVoice(h.does, method, m) PROVE m \in V /\ m = Min(V)
  <2>1. m \in 1 .. n /\ m \in V /\ \A i \in 1 .. m - 1 : i \notin V
    BY <1>1, <1>4, <1>6 DEF FirstVoice
  <2>2. PICK k : k = Min(V)
    OBVIOUS
  <2>3. k \in V /\ k <= m
    BY <1>5, <2>1, <2>2
  <2>4. k \in 1 .. n /\ ~(k \in 1 .. m - 1)
    BY <1>4, <2>1, <2>3
  <2>5. m = k
    BY <1>2, <2>1, <2>3, <2>4
  <2>6. QED
    BY <2>1, <2>2, <2>5
<1>7. ASSUME V # {} PROVE FirstVoice(h.does, method, Min(V))
  <2>1. PICK k : k = Min(V)
    OBVIOUS
  <2>2. k \in V /\ \A i \in V : k <= i
    BY <1>5, <1>7, <2>1
  <2>3. k \in 1 .. n /\ Speaks(h.does[k], method)
    BY <1>4, <2>2
  <2>4. ASSUME NEW i \in 1 .. k - 1 PROVE ~Speaks(h.does[i], method)
    <3>1. i \in 1 .. n /\ ~(k <= i)
      BY <1>2, <2>3
    <3>2. QED
      BY <1>4, <2>2, <3>1
  <2>5. QED
    BY <1>1, <2>1, <2>3, <2>4 DEF FirstVoice
<1>8. QED
  BY <1>1, <1>3, <1>4, <1>6, <1>7

(* Handler j is the first to speak, with its operation m.                  *)
FirstSpeaker(ran, method, j, m) ==
  /\ j \in 1 .. Len(ran) /\ FirstVoice(ran[j].does, method, m)
  /\ \A k \in 1 .. j - 1 : Voices(ran[k], method) = {}

LEMMA SpokenIs ==
  ASSUME NEW ran \in Seq(Handler), NEW method, NEW j, NEW m, FirstSpeaker(ran, method, j, m)
  PROVE  ~Quiet(ran, method) /\ Spoken(ran, method) = Says(ran[j].does[m])
<1>0. /\ j \in 1 .. Len(ran) /\ FirstVoice(ran[j].does, method, m)
      /\ \A k \in 1 .. j - 1 : Voices(ran[k], method) = {}
  BY DEF FirstSpeaker
<1>1. PICK T : T = {k \in DOMAIN ran : Voices(ran[k], method) # {}}
  OBVIOUS
<1>2. DOMAIN ran = 1 .. Len(ran) /\ Len(ran) \in Nat /\ ran[j] \in Handler
  BY <1>0
<1>3. m \in Voices(ran[j], method) /\ m = Min(Voices(ran[j], method))
  BY <1>0, <1>2, VoicesAre
<1>4. j \in T /\ T \subseteq Nat /\ \A k \in 1 .. j - 1 : k \notin T
  <2>1. j \in DOMAIN ran
    BY <1>0, <1>2
  <2>2. j \in T
    BY <1>1, <1>3, <2>1
  <2>3. T \subseteq 1 .. Len(ran)
    BY <1>1, <1>2
  <2>4. T \subseteq Nat
    BY <2>3
  <2>5. \A k \in 1 .. j - 1 : k \notin T
    BY <1>0, <1>1
  <2>6. QED
    BY <2>2, <2>4, <2>5
<1>5. PICK k : k = Min(T)
  OBVIOUS
<1>6. k \in T /\ k <= j
  BY <1>4, <1>5, MinIs
<1>7. k \in 1 .. Len(ran) /\ ~(k \in 1 .. j - 1)
  BY <1>1, <1>2, <1>4, <1>6
<1>8. k = j
  BY <1>0, <1>2, <1>6, <1>7
<1>9. Spoken(ran, method) = Says(ran[k].does[Min(Voices(ran[k], method))])
  BY <1>1, <1>5 DEF Spoken
<1>10. ~Quiet(ran, method)
  BY <1>0, <1>2, <1>3 DEF Quiet
<1>11. QED
  BY <1>3, <1>8, <1>9, <1>10

LEMMA SpokenFirst ==
  ASSUME NEW ran \in Seq(Handler), NEW method, ~Quiet(ran, method)
  PROVE  \E j, m : FirstSpeaker(ran, method, j, m)
<1>1. PICK T : T = {k \in DOMAIN ran : Voices(ran[k], method) # {}}
  OBVIOUS
<1>2. DOMAIN ran = 1 .. Len(ran) /\ Len(ran) \in Nat /\ \A k \in 1 .. Len(ran) : ran[k] \in Handler
  OBVIOUS
<1>3. T # {} /\ T \subseteq Nat
  <2>1. T # {}
    BY <1>1 DEF Quiet
  <2>2. T \subseteq 1 .. Len(ran)
    BY <1>1, <1>2
  <2>3. QED
    BY <2>1, <2>2
<1>4. PICK j \in T : \A k \in T : j <= k
  BY <1>3, LeastNat
<1>5. j \in 1 .. Len(ran) /\ Voices(ran[j], method) # {}
  BY <1>1, <1>2
<1>6. ASSUME NEW k \in 1 .. j - 1 PROVE Voices(ran[k], method) = {}
  <2>1. k \in 1 .. Len(ran) /\ ~(j <= k)
    BY <1>2, <1>5
  <2>2. QED
    BY <1>1, <1>2, <1>4, <2>1
<1>7. FirstVoice(ran[j].does, method, Min(Voices(ran[j], method)))
  BY <1>2, <1>5, VoicesAre
<1>8. QED
  BY <1>5, <1>6, <1>7 DEF FirstSpeaker

LEMMA SpokenSomething ==
  \A ran \in Seq(Handler) : \A method : ~Quiet(ran, method) => Spoken(ran, method) # 0
<1> SUFFICES ASSUME NEW ran \in Seq(Handler), NEW method, ~Quiet(ran, method) PROVE Spoken(ran, method) # 0
  OBVIOUS
<1>1. PICK j, m : FirstSpeaker(ran, method, j, m)
  BY SpokenFirst
<1>2. Spoken(ran, method) = Says(ran[j].does[m])
  BY <1>1, SpokenIs
<1>3. Says(ran[j].does[m]) # 0
  BY <1>1, SaysSomething DEF FirstSpeaker, FirstVoice
<1>4. QED
  BY <1>2, <1>3

(* One more handler: it speaks when nobody did before.                     *)
Longer(ran, h, more) ==
  /\ more \in Seq(Handler) /\ Len(more) = Len(ran) + 1 /\ more[Len(ran) + 1] = h
  /\ \A i \in 1 .. Len(ran) : more[i] = ran[i]

LEMMA SpokenGrows ==
  ASSUME NEW ran \in Seq(Handler), NEW method, NEW h \in Handler, NEW more, Longer(ran, h, more)
  PROVE  /\ ~Quiet(ran, method) => ~Quiet(more, method) /\ Spoken(more, method) = Spoken(ran, method)
                                   /\ Spoken(ran, method) # 0
         /\ Quiet(ran, method) /\ Voices(h, method) = {} => Quiet(more, method)
         /\ Quiet(ran, method) /\ Voices(h, method) # {} =>
              /\ ~Quiet(more, method)
              /\ \E m \in 1 .. Len(h.does) : FirstVoice(h.does, method, m) /\ Spoken(more, method) = Says(h.does[m])
<1>1. PICK n : n = Len(ran)
  OBVIOUS
<1>2. /\ more \in Seq(Handler) /\ n \in Nat /\ DOMAIN ran = 1 .. n /\ DOMAIN more = 1 .. n + 1 /\ Len(more) = n + 1
      /\ more[n + 1] = h /\ \A i \in 1 .. n : more[i] = ran[i]
  BY <1>1 DEF Longer
<1>3. ASSUME ~Quiet(ran, method)
      PROVE  /\ ~Quiet(more, method) /\ Spoken(more, method) = Spoken(ran, method)
             /\ Spoken(ran, method) # 0
  <2>1. PICK j, m : FirstSpeaker(ran, method, j, m)
    BY <1>3, SpokenFirst
  <2>2. Spoken(ran, method) = Says(ran[j].does[m])
    BY <2>1, SpokenIs
  <2>3. j \in 1 .. n /\ j \in 1 .. Len(more) /\ \A k \in 1 .. j - 1 : k \in 1 .. n
    BY <1>1, <1>2, <2>1 DEF FirstSpeaker
  <2>4. more[j] = ran[j] /\ \A k \in 1 .. j - 1 : more[k] = ran[k]
    BY <1>2, <2>3
  <2>5. FirstSpeaker(more, method, j, m)
    BY <2>1, <2>3, <2>4 DEF FirstSpeaker
  <2>6. ~Quiet(more, method) /\ Spoken(more, method) = Says(more[j].does[m])
    BY <1>2, <2>5, SpokenIs
  <2>7. Spoken(ran, method) # 0
    BY <1>3, SpokenSomething
  <2>8. QED
    BY <2>2, <2>4, <2>6, <2>7
<1>4. ASSUME Quiet(ran, method), Voices(h, method) = {} PROVE Quiet(more, method)
  <2>1. \A i \in 1 .. n + 1 : i = n + 1 \/ i \in 1 .. n
    BY <1>2
  <2>2. QED
    BY <1>2, <1>4, <2>1 DEF Quiet
<1>5. ASSUME Quiet(ran, method), Voices(h, method) # {}
      PROVE  /\ ~Quiet(more, method)
             /\ \E m \in 1 .. Len(h.does) : FirstVoice(h.does, method, m) /\ Spoken(more, method) = Says(h.does[m])
  <2>1. PICK m : FirstVoice(h.does, method, m)
    BY <1>5, VoicesAre
  <2>2. PICK last : last = n + 1
    OBVIOUS
  <2>3. \A k \in 1 .. last - 1 : k \in 1 .. n
    BY <1>2, <2>2
  <2>4. \A k \in 1 .. last - 1 : Voices(more[k], method) = {}
    BY <1>2, <1>5, <2>3 DEF Quiet
  <2>5. last \in 1 .. Len(more) /\ more[last] = h
    BY <1>2, <2>2
  <2>6. FirstSpeaker(more, method, last, m)
    BY <2>1, <2>4, <2>5 DEF FirstSpeaker
  <2>7. ~Quiet(more, method) /\ Spoken(more, method) = Says(more[last].does[m])
    BY <1>2, <2>6, SpokenIs
  <2>8. m \in 1 .. Len(h.does)
    BY <2>1 DEF FirstVoice
  <2>9. QED
    BY <2>1, <2>5, <2>7, <2>8
<1>6. QED
  BY <1>2, <1>3, <1>4, <1>5

(* AnswerInv of the answer a of a request that ran these handlers.         *)
SaidOf(ran, method, here, to) ==
  IF ~Quiet(ran, method) THEN Spoken(ran, method)
  ELSE IF here = "done" /\ to = 0 /\ (\A j \in DOMAIN ran : ~Ends(ran[j], method)) THEN 404 ELSE 0
AnswerOf(a, ran, method, here, to) ==
  /\ \A j \in DOMAIN ran : Ends(ran[j], method) => here = "done" /\ j = Len(ran)
  /\ here # "done" => ~a.aborted /\ ~a.panicked /\ "error" \notin Range(a.bodies)
  /\ a.written => a.status # 0
  /\ "body" \in Range(a.bodies) => a.written
  /\ a.status = SaidOf(ran, method, here, to)
  /\ \A i, j \in DOMAIN a.bodies :
       j < i /\ a.bodies[i] = "error" /\ a.bodies[j] = "body" => ran # <<>> /\ "error" \in Range(Last(ran).does)

LEMMA SaidIs == \A q : Said(q) = SaidOf(Ran(q), wants[q].method, at[q], routed[q])
<1> SUFFICES ASSUME NEW q PROVE Said(q) = SaidOf(Ran(q), wants[q].method, at[q], routed[q])
  OBVIOUS
<1>1. PICK ran, method : ran = Ran(q) /\ method = wants[q].method
  OBVIOUS
<1>2. PICK T : T = {j \in DOMAIN ran : Voices(ran[j], method) # {}}
  OBVIOUS
<1>3. T # {} <=> ~Quiet(ran, method)
  BY <1>2 DEF Quiet
<1>4. Spoken(ran, method) = Says(ran[Min(T)].does[Min(Voices(ran[Min(T)], method))])
  BY <1>2 DEF Spoken
<1>5. Said(q) = IF T # {} THEN Says(ran[Min(T)].does[Min(Voices(ran[Min(T)], method))])
                ELSE IF at[q] = "done" /\ routed[q] = 0 /\ (\A j \in DOMAIN ran : ~Ends(ran[j], method))
                     THEN 404 ELSE 0
  BY <1>1, <1>2 DEF Said
<1>6. QED
  BY <1>1, <1>3, <1>4, <1>5 DEF SaidOf

LEMMA AnswerIs ==
  \A q : AnswerInv(q) <=> /\ at[q] = "idle" => log[q].global = <<>>
                          /\ AnswerOf(answer[q], Ran(q), wants[q].method, at[q], routed[q])
BY SaidIs DEF AnswerInv, AnswerOf, AnsweredRight

LEMMA AnswerRuns ==
  ASSUME NEW ran \in Seq(Handler), NEW method, NEW h \in Handler, NEW a, NEW c, NEW here, NEW to, NEW rest,
         here # "done", Running(a), AnswerOf(a, ran, method, here, to), Replied(a, c, h, method),
         rest = "done" => to # 0
  PROVE  AnswerOf(c, Append(ran, h), method, IF Ends(h, method) THEN "done" ELSE rest, to)
<1>1. PICK more, there : more = Append(ran, h) /\ there = IF Ends(h, method) THEN "done" ELSE rest
  OBVIOUS
<1>2. PICK n : n = Len(ran)
  OBVIOUS
<1>3. /\ more \in Seq(Handler) /\ n \in Nat /\ DOMAIN ran = 1 .. n /\ DOMAIN more = 1 .. n + 1 /\ Len(more) = n + 1
      /\ more[n + 1] = h /\ \A i \in 1 .. n : more[i] = ran[i]
  BY <1>1, <1>2, AppendProperties
<1>4. \A j \in 1 .. n : ~Ends(ran[j], method)
  BY <1>3 DEF AnswerOf
<1>5. \A j \in DOMAIN more : Ends(more[j], method) => there = "done" /\ j = Len(more)
  <2>1. \A j \in DOMAIN more : j \in 1 .. n \/ j = n + 1
    BY <1>3
  <2>2. QED
    BY <1>1, <1>3, <1>4, <2>1
<1>6. there # "done" => ~c.aborted /\ ~c.panicked /\ "error" \notin Range(c.bodies)
  BY <1>1 DEF Replied, Running
<1>7. c.written => c.status # 0
  BY DEF Replied
<1>8. "body" \in Range(c.bodies) => c.written
  BY DEF Replied
<1>9. c.status = SaidOf(more, method, there, to)
  <2>1. a.status = IF Quiet(ran, method) THEN 0 ELSE Spoken(ran, method)
    BY DEF AnswerOf, SaidOf
  <2>2. /\ ~Quiet(ran, method) => ~Quiet(more, method) /\ Spoken(more, method) = Spoken(ran, method)
                                   /\ Spoken(ran, method) # 0
        /\ Quiet(ran, method) /\ Voices(h, method) = {} => Quiet(more, method)
        /\ Quiet(ran, method) /\ Voices(h, method) # {} =>
              /\ ~Quiet(more, method)
              /\ \E m \in 1 .. Len(h.does) : FirstVoice(h.does, method, m) /\ Spoken(more, method) = Says(h.does[m])
    <3>1. Longer(ran, h, more)
      BY <1>2, <1>3 DEF Longer
    <3>2. QED
      BY <3>1, SpokenGrows
  <2>3. CASE ~Quiet(ran, method)
    <3>1. c.status = a.status
      BY <2>1, <2>2, <2>3 DEF Replied
    <3>2. QED
      BY <2>1, <2>2, <2>3, <3>1 DEF SaidOf
  <2>4. CASE Quiet(ran, method) /\ Voices(h, method) # {}
    <3>1. PICK m \in 1 .. Len(h.does) : FirstVoice(h.does, method, m) /\ Spoken(more, method) = Says(h.does[m])
      BY <2>2, <2>4
    <3>2. c.status = Says(h.does[m])
      BY <2>1, <2>4, <3>1 DEF Replied
    <3>3. QED
      BY <2>2, <2>4, <3>1, <3>2 DEF SaidOf
  <2>5. CASE Quiet(ran, method) /\ Voices(h, method) = {}
    <3>1. c.status = 0
      <4>1. \A i \in 1 .. Len(h.does) : ~Speaks(h.does[i], method)
        BY <2>5, VoicesAre
      <4>2. QED
        BY <2>1, <2>5, <4>1 DEF Replied
    <3>2. ~(there = "done" /\ to = 0 /\ (\A j \in DOMAIN more : ~Ends(more[j], method)))
      <4>1. n + 1 \in DOMAIN more
        BY <1>3
      <4>2. QED
        BY <1>1, <1>3, <4>1
    <3>3. QED
      BY <2>2, <2>5, <3>1, <3>2 DEF SaidOf
  <2>6. QED
    BY <2>3, <2>4, <2>5
<1>10. ASSUME NEW i \in DOMAIN c.bodies, NEW j \in DOMAIN c.bodies,
              c.bodies[i] = "error", c.bodies[j] = "body"
       PROVE  more # <<>> /\ "error" \in Range(Last(more).does)
  <2>1. "error" \in Range(c.bodies) /\ "body" \in Range(c.bodies)
    BY <1>10 DEF Range
  <2>2. "error" \in Range(h.does)
    BY <2>1 DEF Replied
  <2>3. Last(more) = h /\ more # <<>>
    BY <1>3 DEF Last
  <2>4. QED
    BY <2>2, <2>3
<1>11. AnswerOf(c, more, method, there, to)
  BY <1>5, <1>6, <1>7, <1>8, <1>9, <1>10 DEF AnswerOf
<1>12. QED
  BY <1>1, <1>11

(* No route: not found, unless a status was given before.                  *)
Missed(a, c) == c = NotFound(a)

LEMMA AnswerMisses ==
  ASSUME NEW ran \in Seq(Handler), NEW method, NEW a, Running(a), AnswerOf(a, ran, method, "global", 0),
         NEW c, Missed(a, c)
  PROVE  c \in Answer /\ AnswerOf(c, ran, method, "done", 0)
<1>1. PICK b : b = Status(a, 404)
  OBVIOUS
<1>2. a \in Answer /\ a.status \in Nat /\ "error" \notin Range(a.bodies)
  BY DEF Running, Answer
<1>3. /\ Stated(a, b, 404) /\ b \in Answer /\ b.written = a.written /\ b.bodies = a.bodies
  <2>1. a \in Answer /\ 404 \in Nat
    BY <1>2
  <2>2. Stated(a, Status(a, 404), 404) /\ Status(a, 404).written = a.written /\ Status(a, 404).bodies = a.bodies
    BY <2>1, StatusIs
  <2>3. QED
    BY <1>1, <2>2 DEF Stated
<1>4. PICK T : T = {"body", "redirect", "error", "not found"}
  OBVIOUS
<1>5. PICK texts : texts = Append(b.bodies, "not found")
  OBVIOUS
<1>6. texts \in Seq(T) /\ \A x : x \in Range(texts) <=> x \in Range(a.bodies) \/ x = "not found"
  <2>1. b.bodies \in Seq(T) /\ "not found" \in T
    BY <1>3, <1>4 DEF Answer
  <2>2. QED
    BY <1>3, <1>5, <2>1, AppendedText
<1>7. c = [b EXCEPT !.bodies = texts]
  BY <1>1, <1>5 DEF Missed, NotFound
<1>8. /\ c \in Answer /\ c.bodies = texts /\ c.status = b.status /\ c.written = a.written
  BY <1>3, <1>4, <1>6, <1>7 DEF Answer
<1>9. \A j \in DOMAIN ran : ~Ends(ran[j], method)
  BY DEF AnswerOf
<1>10. c.status = SaidOf(ran, method, "done", 0)
  <2>1. a.status = IF Quiet(ran, method) THEN 0 ELSE Spoken(ran, method)
    BY DEF AnswerOf, SaidOf
  <2>2. c.status = IF a.status = 0 THEN 404 ELSE a.status
    BY <1>3, <1>8 DEF Stated
  <2>3. CASE Quiet(ran, method)
    BY <1>9, <2>1, <2>2, <2>3 DEF SaidOf
  <2>4. CASE ~Quiet(ran, method)
    <3>1. a.status # 0
      BY <2>1, <2>4, SpokenSomething
    <3>2. QED
      BY <2>1, <2>2, <2>4, <3>1 DEF SaidOf
  <2>5. QED
    BY <2>3, <2>4
<1>11. c.written => c.status # 0
  <2>1. a.written => a.status # 0
    BY DEF AnswerOf
  <2>2. QED
    BY <1>2, <1>3, <1>8, <2>1 DEF Stated
<1>12. "body" \in Range(c.bodies) => c.written
  <2>1. "body" \in Range(a.bodies) => a.written
    BY DEF AnswerOf
  <2>2. QED
    BY <1>6, <1>8, <2>1
<1>13. "error" \notin Range(c.bodies)
  BY <1>2, <1>6, <1>8
<1>14. \A i \in DOMAIN c.bodies : c.bodies[i] # "error"
  BY <1>13 DEF Range
<1>15. QED
  BY <1>8, <1>9, <1>10, <1>11, <1>12, <1>14 DEF AnswerOf

(* A route: the answer stays as it is.                                     *)
LEMMA AnswerStays ==
  ASSUME NEW ran, NEW method, NEW a, AnswerOf(a, ran, method, "global", 0),
         NEW there, NEW to, there \in {"route", "done"}, to # 0
  PROVE  AnswerOf(a, ran, method, there, to)
BY DEF AnswerOf, SaidOf


-----------------------------------------------------------------------------
(* Slices: what append does to the buffers b, which then are c.            *)
HoldsIn(b, s) ==
  IF s.buffer = 0 THEN s.length = 0 ELSE s.buffer \in DOMAIN b /\ s.length <= Len(b[s.buffer])
Stored(b, s, hs, t, c) ==
  /\ c \in Seq(Seq(Handler)) /\ t \in Slice /\ HoldsIn(c, t)
  /\ t.length = s.length + Len(hs)
  /\ t.buffer = s.buffer \/ t.buffer = Len(b) + 1
  /\ \A k \in DOMAIN b : k \in DOMAIN c /\ Len(c[k]) = Len(b[k])
  /\ \A k \in DOMAIN b : \A j \in DOMAIN b[k] :
       \/ c[k][j] = b[k][j]
       \/ k = s.buffer /\ j > s.length /\ \E i \in DOMAIN hs : c[k][j] = hs[i]
  /\ \A j \in 1 .. s.length : c[t.buffer][j] = b[s.buffer][j]
  /\ \A i \in DOMAIN hs : c[t.buffer][s.length + i] = hs[i]

LEMMA NobodyTyped == Nobody \in Handler
<1>1. <<"panic">> \in Seq(Operations)
  BY DEF Operations
<1>2. Over(<<"panic">>)
  BY DEF Over
<1>3. QED
  BY <1>1, <1>2 DEF Nobody, Handler, Doing

(* A new buffer with room for the old elements and the new ones.           *)
Fresh(f, room, b, s, hs) ==
  /\ room \in Nat /\ s.length + Len(hs) <= room
  /\ f \in Seq(Handler) /\ Len(f) = room
  /\ \A j \in 1 .. s.length : f[j] = b[s.buffer][j]
  /\ \A i \in DOMAIN hs : f[s.length + i] = hs[i]

LEMMA StoredFresh ==
  ASSUME NEW b \in Seq(Seq(Handler)), NEW s \in Slice, HoldsIn(b, s), NEW hs \in Seq(Handler),
         NEW f, NEW room, Fresh(f, room, b, s, hs)
  PROVE  Stored(b, s, hs, [buffer |-> Len(b) + 1, length |-> s.length + Len(hs)], Append(b, f))
<1>1. PICK n, c, t : n = Len(b) /\ c = Append(b, f) /\ t = [buffer |-> n + 1, length |-> s.length + Len(hs)]
  OBVIOUS
<1>2. /\ n \in Nat /\ DOMAIN b = 1 .. n /\ s.length \in Nat /\ s.buffer \in Nat /\ Len(hs) \in Nat
      /\ DOMAIN hs = 1 .. Len(hs)
  BY <1>1 DEF Slice
<1>3. /\ c \in Seq(Seq(Handler)) /\ Len(c) = n + 1 /\ DOMAIN c = 1 .. n + 1 /\ c[n + 1] = f
      /\ \A i \in 1 .. n : c[i] = b[i]
  <2>1. b \in Seq(Seq(Handler)) /\ f \in Seq(Handler)
    BY DEF Fresh
  <2>2. QED
    BY <1>1, <1>2, <2>1, AppendProperties
<1>4. t \in Slice /\ t.buffer = n + 1 /\ t.length = s.length + Len(hs)
  BY <1>1, <1>2 DEF Slice
<1>5. HoldsIn(c, t)
  <2>1. t.buffer \in DOMAIN c /\ c[t.buffer] = f /\ t.length <= Len(f) /\ t.buffer # 0
    BY <1>2, <1>3, <1>4 DEF Fresh
  <2>2. QED
    BY <2>1 DEF HoldsIn
<1>6. \A k \in DOMAIN b : k \in DOMAIN c /\ c[k] = b[k]
  BY <1>2, <1>3
<1>7. /\ \A j \in 1 .. s.length : c[t.buffer][j] = b[s.buffer][j]
      /\ \A i \in DOMAIN hs : c[t.buffer][s.length + i] = hs[i]
  BY <1>3, <1>4 DEF Fresh
<1>8. Stored(b, s, hs, t, c)
  BY <1>1, <1>3, <1>4, <1>5, <1>6, <1>7 DEF Stored
<1>9. QED
  BY <1>1, <1>8

LEMMA StoredIs ==
  ASSUME buffers \in Seq(Seq(Handler)), NEW s \in Slice, Holds(s), NEW hs \in Seq(Handler)
  PROVE  Stored(buffers, s, hs, AppendedSlice(s, hs), AppendedBuffers(s, hs))
<1>1. PICK b, k, n, m : b = buffers /\ k = s.buffer /\ n = s.length /\ m = Len(hs)
  OBVIOUS
<1>2. /\ b \in Seq(Seq(Handler)) /\ k \in Nat /\ n \in Nat /\ m \in Nat /\ DOMAIN hs = 1 .. m
      /\ HoldsIn(b, s) /\ \A i \in 1 .. m : hs[i] \in Handler
  BY <1>1 DEF Slice, Holds, HoldsIn
<1>3. PICK room : room = IF k = 0 THEN 0 ELSE Len(b[k])
  OBVIOUS
<1>4. room \in Nat /\ n <= room /\ (k = 0 => n = 0) /\ room = Room(s)
  BY <1>1, <1>2, <1>3 DEF HoldsIn, Room
<1>5. PICK old : old = IF k = 0 THEN <<>> ELSE b[k]
  OBVIOUS
<1>6. /\ old \in Seq(Handler) /\ Len(old) = room /\ DOMAIN old = 1 .. room /\ (k # 0 => k \in DOMAIN b /\ b[k] = old)
      /\ \A i \in 1 .. room : old[i] \in Handler
  BY <1>1, <1>2, <1>3, <1>5 DEF HoldsIn
<1>7. CASE m = 0
  <2>1. hs = <<>> /\ InPlace(s, hs)
    BY <1>1, <1>2, <1>4, <1>7 DEF InPlace
  <2>2. AppendedSlice(s, hs) = s /\ AppendedBuffers(s, hs) = b
    <3>1. n + 0 = n /\ s = [buffer |-> k, length |-> n]
      BY <1>1, <1>2 DEF Slice
    <3>2. AppendedSlice(s, hs) = [buffer |-> k, length |-> n + 0]
      BY <1>1, <1>7, <2>1 DEF AppendedSlice
    <3>3. QED
      BY <1>1, <2>1, <3>1, <3>2 DEF AppendedBuffers
  <2>3. /\ b \in Seq(Seq(Handler)) /\ s \in Slice /\ HoldsIn(b, s) /\ s.length = s.length + Len(hs)
        /\ DOMAIN hs = {}
    BY <1>1, <1>2, <1>7
  <2>4. Stored(b, s, hs, s, b)
    BY <2>3 DEF Stored
  <2>5. QED
    BY <1>1, <2>2, <2>4
<1>8. CASE m # 0 /\ n + m <= room
  <2>1. hs # <<>> /\ InPlace(s, hs) /\ k # 0 /\ k \in DOMAIN b /\ b[k] = old
    BY <1>1, <1>2, <1>3, <1>4, <1>6, <1>8 DEF InPlace
  <2>2. PICK f : f = [i \in DOMAIN old |-> IF i - n \in DOMAIN hs THEN hs[i - n] ELSE old[i]]
    OBVIOUS
  <2>3. /\ f \in Seq(Handler) /\ Len(f) = room
        /\ \A i \in 1 .. room : f[i] = IF i - n \in 1 .. m THEN hs[i - n] ELSE old[i]
    <3>1. \A i \in 1 .. room : f[i] = IF i - n \in 1 .. m THEN hs[i - n] ELSE old[i]
      BY <1>2, <1>6, <2>2
    <3>2. f = [i \in 1 .. room |-> f[i]] /\ \A i \in 1 .. room : f[i] \in Handler
      BY <1>2, <1>6, <2>2
    <3>3. QED
      BY <1>4, <3>1, <3>2
  <2>4. PICK c : c = [b EXCEPT ![k] = f]
    OBVIOUS
  <2>5. AppendedBuffers(s, hs) = c /\ AppendedSlice(s, hs) = [buffer |-> k, length |-> n + m]
    <3>1. AppendedSlice(s, hs) = [buffer |-> k, length |-> n + m]
      BY <1>1, <2>1 DEF AppendedSlice
    <3>2. AppendedBuffers(s, hs) = c
      BY <1>1, <2>1, <2>2, <2>4 DEF AppendedBuffers
    <3>3. QED
      BY <3>1, <3>2
  <2>6. PICK t : t = [buffer |-> k, length |-> n + m]
    OBVIOUS
  <2>7. t \in Slice /\ t.buffer = k /\ t.length = n + m
    BY <1>2, <2>6 DEF Slice
  <2>8. /\ c \in Seq(Seq(Handler)) /\ DOMAIN c = DOMAIN b /\ c[k] = f /\ \A l \in DOMAIN b : l # k => c[l] = b[l]
    BY <1>2, <2>1, <2>3, <2>4, ExceptSeq
  <2>9. HoldsIn(c, t)
    BY <1>8, <2>1, <2>3, <2>7, <2>8 DEF HoldsIn
  <2>10. \A l \in DOMAIN b : l \in DOMAIN c /\ Len(c[l]) = Len(b[l])
    BY <1>6, <2>1, <2>3, <2>8
  <2>11. \A j \in 1 .. room : f[j] = old[j] \/ (j > n /\ \E i \in DOMAIN hs : f[j] = hs[i])
    <3>1. \A j \in 1 .. room : j - n \in 1 .. m => j > n
      BY <1>2, <1>4
    <3>2. QED
      BY <1>2, <2>3, <3>1
  <2>12. \A j \in 1 .. n : f[j] = old[j]
    <3>1. \A j \in 1 .. n : j \in 1 .. room /\ ~(j - n \in 1 .. m)
      BY <1>2, <1>4
    <3>2. QED
      BY <2>3, <3>1
  <2>13. \A i \in 1 .. m : f[n + i] = hs[i]
    <3> SUFFICES ASSUME NEW i \in 1 .. m PROVE f[n + i] = hs[i]
      OBVIOUS
    <3>1. PICK x : x = n + i
      OBVIOUS
    <3>2. x \in 1 .. room /\ x - n = i
      BY <1>2, <1>4, <1>8, <3>1
    <3>3. f[x] = hs[x - n]
      BY <2>3, <3>2
    <3>4. QED
      BY <3>1, <3>2, <3>3
  <2>14. \A l \in DOMAIN b : \A j \in DOMAIN b[l] :
           \/ c[l][j] = b[l][j]
           \/ l = k /\ j > n /\ \E i \in DOMAIN hs : c[l][j] = hs[i]
    BY <1>6, <2>1, <2>8, <2>11
  <2>15. Stored(b, s, hs, t, c)
    <3>1. /\ \A j \in 1 .. s.length : c[t.buffer][j] = b[s.buffer][j]
          /\ \A i \in DOMAIN hs : c[t.buffer][s.length + i] = hs[i]
      BY <1>1, <1>2, <2>1, <2>7, <2>8, <2>12, <2>13
    <3>2. QED
      BY <1>1, <2>7, <2>8, <2>9, <2>10, <2>14, <3>1 DEF Stored
  <2>16. QED
    BY <1>1, <2>5, <2>6, <2>15
<1>9. CASE m # 0 /\ ~(n + m <= room)
  <2>1. hs # <<>> /\ ~InPlace(s, hs)
    BY <1>1, <1>2, <1>4, <1>9 DEF InPlace
  <2>2. PICK more : more = Grown(room, n + m)
    OBVIOUS
  <2>3. more \in Nat /\ n + m <= more
    BY <1>2, <1>4, <2>2 DEF Grown
  <2>4. PICK blank : blank = [i \in 1 .. more |-> IF i <= n THEN Elements(s)[i] ELSE Nobody]
    OBVIOUS
  <2>5. \A i \in 1 .. n : Elements(s)[i] = b[k][i] /\ Elements(s)[i] \in Handler
    <3> SUFFICES ASSUME NEW i \in 1 .. n PROVE Elements(s)[i] = b[k][i] /\ Elements(s)[i] \in Handler
      OBVIOUS
    <3>1. n # 0 /\ k # 0 /\ i \in 1 .. room /\ n \in 0 .. Len(old)
      BY <1>2, <1>4, <1>6
    <3>2. Elements(s) = SubSeq(old, 1, n)
      BY <1>1, <1>6, <3>1 DEF Elements
    <3>3. SubSeq(old, 1, n)[i] = old[i]
      BY <1>6, <3>1
    <3>4. QED
      BY <1>6, <3>1, <3>2, <3>3
  <2>6. PICK f : f = [i \in DOMAIN blank |-> IF i - n \in DOMAIN hs THEN hs[i - n] ELSE blank[i]]
    OBVIOUS
  <2>7. DOMAIN blank = 1 .. more /\ \A i \in 1 .. more : blank[i] \in Handler /\ (i <= n => blank[i] = b[k][i])
    <3>1. \A i \in 1 .. more : i <= n => i \in 1 .. n
      BY <1>2, <2>3
    <3>2. QED
      BY <2>4, <2>5, <3>1, NobodyTyped
  <2>8. \A i \in 1 .. more : f[i] = IF i - n \in 1 .. m THEN hs[i - n] ELSE blank[i]
    BY <1>2, <2>6, <2>7
  <2>9. f \in Seq(Handler) /\ Len(f) = more
    <3>1. f = [i \in 1 .. more |-> f[i]] /\ \A i \in 1 .. more : f[i] \in Handler
      BY <1>2, <2>6, <2>7
    <3>2. QED
      BY <2>3, <3>1
  <2>10. \A j \in 1 .. n : f[j] = b[k][j]
    <3>1. \A j \in 1 .. n : j \in 1 .. more /\ ~(j - n \in 1 .. m) /\ j <= n
      BY <1>2, <2>3
    <3>2. QED
      BY <2>7, <2>8, <3>1
  <2>11. \A i \in 1 .. m : f[n + i] = hs[i]
    <3> SUFFICES ASSUME NEW i \in 1 .. m PROVE f[n + i] = hs[i]
      OBVIOUS
    <3>1. PICK x : x = n + i
      OBVIOUS
    <3>2. x \in 1 .. more /\ x - n = i
      BY <1>2, <2>3, <3>1
    <3>3. f[x] = hs[x - n]
      BY <2>8, <3>2
    <3>4. QED
      BY <3>1, <3>2, <3>3
  <2>12. Fresh(f, more, b, s, hs)
    BY <1>1, <1>2, <2>3, <2>9, <2>10, <2>11 DEF Fresh
  <2>13. b \in Seq(Seq(Handler)) /\ s \in Slice /\ HoldsIn(b, s) /\ hs \in Seq(Handler)
    BY <1>2
  <2>14. Stored(b, s, hs, [buffer |-> Len(b) + 1, length |-> s.length + Len(hs)], Append(b, f))
    BY <2>12, <2>13, StoredFresh
  <2>15. AppendedSlice(s, hs) = [buffer |-> Len(b) + 1, length |-> s.length + Len(hs)]
    BY <1>1, <2>1 DEF AppendedSlice
  <2>16. AppendedBuffers(s, hs) = Append(b, f)
    BY <1>1, <1>4, <2>1, <2>2, <2>4, <2>6 DEF AppendedBuffers
  <2>17. QED
    BY <1>1, <2>14, <2>15, <2>16
<1>10. QED
  BY <1>7, <1>8, <1>9

LEMMA RoomIs == \A n \in 1 .. 32 : RoomOneByOne(n) \in Nat /\ n <= RoomOneByOne(n)
<1> SUFFICES ASSUME NEW n \in 1 .. 32 PROVE RoomOneByOne(n) \in Nat /\ n <= RoomOneByOne(n)
  OBVIOUS
<1>1. \E k \in {1, 2, 4, 8, 16, 32} : n <= k /\ k < 2 * n
  OBVIOUS
<1>2. RoomOneByOne(n) \in {1, 2, 4, 8, 16, 32} /\ n <= RoomOneByOne(n)
  BY <1>1 DEF RoomOneByOne
<1>3. QED
  BY <1>2

-----------------------------------------------------------------------------
(* The lists of groups and routes.                                         *)
Listed(list, t, b, m) ==
  /\ list \in Seq(Handler) /\ HoldsIn(b, t) /\ t.length = Len(list)
  /\ \A j \in DOMAIN list : b[t.buffer][j] = list[j] /\ list[j].id <= m
GroupOf(gs, b, m, g) ==
  /\ Listed(gs[g].declared, gs[g].slice, b, m)
  /\ \A e \in DOMAIN gs : e # g => gs[g].slice.buffer = 0 \/ gs[e].slice.buffer # gs[g].slice.buffer
OfGroupIn(gs, rs, g, h) ==
  \/ h \in Range(gs[g].declared)
  \/ \E i \in DOMAIN rs : rs[i].group = g /\ h \in Range(rs[i].registered)
KeptIn(gs, rs, r, j, h) ==
  \/ h = r.registered[j]
  \/ r.group # 0 /\ j > r.front /\ h.id > Last(r.registered).id /\ OfGroupIn(gs, rs, r.group, h)
RouteOf(gs, rs, b, m, r) ==
  /\ HoldsIn(b, r.slice) /\ r.slice.length = Len(r.registered) /\ \A j \in DOMAIN r.registered : r.registered[j].id <= m
  /\ r.group # 0 => r.group \in DOMAIN gs /\ r.front <= Len(gs[r.group].declared)
  /\ \A j \in DOMAIN r.registered : KeptIn(gs, rs, r, j, b[r.slice.buffer][j])
  /\ \A g \in DOMAIN gs : r.slice.buffer # 0 /\ gs[g].slice.buffer = r.slice.buffer => r.group = g

LEMMA KeptIs == \A r, j, h : Kept(r, j, h) <=> KeptIn(groups, routes, r, j, h)
BY DEF Kept, KeptIn, OfGroup, OfGroupIn

LEMMA GroupTyped ==
  ScriptTyped => \A g \in DOMAIN groups : /\ g \in 1 .. Len(groups) /\ groups[g].prefix \in Path
                                          /\ groups[g].declared \in Seq(Handler) /\ groups[g].slice \in Slice
<1> SUFFICES ASSUME ScriptTyped, NEW g \in DOMAIN groups
             PROVE  /\ g \in 1 .. Len(groups) /\ groups[g].prefix \in Path
                    /\ groups[g].declared \in Seq(Handler) /\ groups[g].slice \in Slice
  OBVIOUS
<1>1. PICK T, H : T = [prefix : Path, declared : H, slice : Slice] /\ H = Seq(Handler)
  OBVIOUS
<1>2. groups \in Seq(T)
  BY <1>1 DEF ScriptTyped
<1>3. g \in 1 .. Len(groups) /\ groups[g] \in T
  BY <1>2
<1>4. groups[g].prefix \in Path /\ groups[g].declared \in H /\ groups[g].slice \in Slice
  BY <1>1, <1>3
<1>5. QED
  BY <1>1, <1>3, <1>4

LEMMA GroupsAre ==
  ASSUME ScriptTyped
  PROVE  GroupsInv <=> \A g \in DOMAIN groups : GroupOf(groups, buffers, made, g)
<1>1. \A g \in DOMAIN groups : groups[g].declared \in Seq(Handler)
  BY GroupTyped
<1>2. QED
  BY <1>1 DEF GroupsInv, GroupOf, Listed, Holds, HoldsIn, Made

LEMMA RoutesAre == RoutesInv <=> \A i \in DOMAIN routes : RouteOf(groups, routes, buffers, made, routes[i])
BY KeptIs DEF RoutesInv, RouteOf, Holds, HoldsIn, Made

(* What one action of the script does: it appends hs to the slice s of     *)
(* group g, or to none; the slice t it makes is that of the group, of a    *)
(* new group or of a new route.                                            *)
Grows ==
  /\ \A e \in DOMAIN groups : e \in DOMAIN groups' /\ Range(groups[e].declared) \subseteq Range(groups'[e].declared)
  /\ \A i \in DOMAIN routes : i \in DOMAIN routes' /\ routes'[i] = routes[i]
Source(g, s, front) ==
  \/ g = 0 /\ s = NoSlice /\ front = <<>>
  \/ g \in DOMAIN groups /\ s = groups[g].slice /\ front = groups[g].declared
Appends(g, s, front, hs, t) ==
  /\ Source(g, s, front) /\ Stored(buffers, s, hs, t, buffers') /\ Grows
  /\ hs \in Seq(Handler) /\ (\A i \in DOMAIN hs : hs[i].id = made + i) /\ made' = made + Len(hs)
  /\ \A e \in DOMAIN groups' :
       \/ e \in DOMAIN groups /\ groups'[e].slice = groups[e].slice /\ groups'[e].declared = groups[e].declared
       \/ /\ groups'[e].slice = t /\ groups'[e].declared = front \o hs
          /\ e = g \/ (g = 0 /\ e = Len(groups) + 1)
  /\ \A i \in DOMAIN routes' \ DOMAIN routes :
       /\ routes'[i].slice = t /\ routes'[i].registered = front \o hs
       /\ routes'[i].front = Len(front) /\ routes'[i].group = g /\ groups' = groups
  /\ g # 0 => \A i \in DOMAIN hs : OfGroupIn(groups', routes', g, hs[i])

LEMMA KeptStays ==
  ASSUME NEW r, NEW j, NEW h, KeptIn(groups, routes, r, j, h), r.group # 0 => r.group \in DOMAIN groups, Grows
  PROVE  KeptIn(groups', routes', r, j, h)
<1>1. ASSUME NEW g \in DOMAIN groups, OfGroupIn(groups, routes, g, h) PROVE OfGroupIn(groups', routes', g, h)
  BY <1>1 DEF OfGroupIn, Grows
<1>2. QED
  BY <1>1 DEF KeptIn

LEMMA ListStored ==
  ASSUME ScriptTyped, GroupsInv, NEW g, NEW s, NEW front, NEW hs, NEW t, Appends(g, s, front, hs, t)
  PROVE  /\ Listed(front \o hs, t, buffers', made') /\ s.length = Len(front) /\ front \in Seq(Handler)
         /\ made \in Nat /\ made <= made' /\ g \in Nat
<1>1. PICK n, m, c, list : n = Len(front) /\ m = Len(hs) /\ c = buffers' /\ list = front \o hs
  OBVIOUS
<1>2. made \in Nat /\ hs \in Seq(Handler) /\ m \in Nat /\ made <= made' /\ DOMAIN hs = 1 .. m /\ made' = made + m
  BY <1>1 DEF Appends, ScriptTyped
<1>3. /\ front \in Seq(Handler) /\ s.length = n /\ g \in Nat
      /\ \A j \in 1 .. n : buffers[s.buffer][j] = front[j] /\ front[j].id <= made
  <2>1. CASE g = 0 /\ s = NoSlice /\ front = <<>>
    BY <1>1, <2>1 DEF NoSlice
  <2>2. CASE g \in DOMAIN groups /\ s = groups[g].slice /\ front = groups[g].declared
    <3>1. GroupOf(groups, buffers, made, g)
      BY <2>2, GroupsAre
    <3>2. g \in Nat
      BY <2>2 DEF ScriptTyped
    <3>3. QED
      BY <1>1, <2>2, <3>1, <3>2 DEF GroupOf, Listed
  <2>3. QED
    BY <2>1, <2>2 DEF Appends, Source
<1>4. /\ list \in Seq(Handler) /\ Len(list) = n + m /\ n \in Nat /\ DOMAIN list = 1 .. n + m
      /\ \A j \in 1 .. n : list[j] = front[j]
      /\ \A i \in 1 .. m : list[n + i] = hs[i]
  BY <1>1, <1>2, <1>3
<1>5. Stored(buffers, s, hs, t, c)
  BY <1>1 DEF Appends
<1>6. \A j \in 1 .. n : c[t.buffer][j] = list[j] /\ list[j].id <= made'
  <2>1. \A j \in 1 .. n : c[t.buffer][j] = list[j]
    BY <1>3, <1>4, <1>5 DEF Stored
  <2>2. \A j \in 1 .. n : front[j] \in Handler
    BY <1>1, <1>3, <1>4
  <2>3. \A j \in 1 .. n : front[j].id \in Nat /\ front[j].id <= made
    BY <1>3, <2>2 DEF Handler
  <2>4. \A j \in 1 .. n : front[j].id <= made'
    BY <1>2, <2>3
  <2>5. QED
    BY <1>4, <2>1, <2>4
<1>7. \A i \in 1 .. m : c[t.buffer][n + i] = list[n + i] /\ list[n + i].id <= made'
  <2>1. \A i \in 1 .. m : c[t.buffer][n + i] = hs[i]
    BY <1>2, <1>3, <1>5 DEF Stored
  <2>2. \A i \in 1 .. m : hs[i].id <= made'
    BY <1>2 DEF Appends
  <2>3. QED
    BY <1>4, <2>1, <2>2
<1>8. ASSUME NEW j \in 1 .. n + m PROVE c[t.buffer][j] = list[j] /\ list[j].id <= made'
  <2>1. CASE j \in 1 .. n
    BY <1>6, <2>1
  <2>2. CASE j \notin 1 .. n
    <3>1. PICK i : i = j - n
      OBVIOUS
    <3>2. i \in 1 .. m /\ j = n + i
      BY <1>2, <1>4, <2>2, <3>1
    <3>3. QED
      BY <1>7, <3>2
  <2>3. QED
    BY <2>1, <2>2
<1>9. HoldsIn(c, t) /\ t.length = n + m
  BY <1>1, <1>3, <1>5 DEF Stored
<1>10. Listed(list, t, c, made')
  BY <1>4, <1>8, <1>9 DEF Listed
<1>11. QED
  BY <1>1, <1>2, <1>3, <1>10

LEMMA GroupsStay ==
  ASSUME ScriptTyped, GroupsInv, NEW g, NEW s, NEW front, NEW hs, NEW t, Appends(g, s, front, hs, t), ScriptTyped'
  PROVE  GroupsInv'
<1>1. PICK b, c, m, n : b = buffers /\ c = buffers' /\ m = made /\ n = made'
  OBVIOUS
<1>2. Listed(front \o hs, t, c, n) /\ s.length = Len(front) /\ m \in Nat /\ m <= n /\ g \in Nat /\ n \in Nat
  BY <1>1, ListStored DEF ScriptTyped
<1>3. Stored(b, s, hs, t, c) /\ b \in Seq(Seq(Handler))
  BY <1>1 DEF Appends, ScriptTyped
<1>4. \A e \in DOMAIN groups : GroupOf(groups, b, m, e) /\ groups[e].slice \in Slice /\ e \in 1 .. Len(groups)
  BY <1>1, GroupsAre, GroupTyped
<1>5. \A e \in DOMAIN groups : groups[e].slice.buffer # 0 /\ groups[e].slice.buffer = s.buffer => s = groups[e].slice /\ e = g
  <2>1. CASE g = 0 /\ s = NoSlice
    BY <2>1 DEF NoSlice
  <2>2. CASE g \in DOMAIN groups /\ s = groups[g].slice
    BY <1>4, <2>2 DEF GroupOf
  <2>3. QED
    BY <2>1, <2>2 DEF Appends, Source
<1>6. ASSUME NEW e \in DOMAIN groups PROVE Listed(groups[e].declared, groups[e].slice, c, n)
  <2>1. PICK list, u : list = groups[e].declared /\ u = groups[e].slice
    OBVIOUS
  <2>2. Listed(list, u, b, m) /\ list \in Seq(Handler) /\ DOMAIN list = 1 .. u.length /\ u \in Slice
    BY <1>4, <2>1 DEF GroupOf, Listed
  <2>3. HoldsIn(c, u)
    BY <1>3, <2>2 DEF HoldsIn, Stored, Listed
  <2>4. ASSUME NEW j \in DOMAIN list PROVE c[u.buffer][j] = list[j]
    <3>1. j \in 1 .. u.length /\ u.length \in Nat /\ u.buffer # 0 /\ u.buffer \in DOMAIN b /\ u.length <= Len(b[u.buffer])
      BY <2>2 DEF Listed, HoldsIn, Slice
    <3>2. b[u.buffer] \in Seq(Handler) /\ j \in DOMAIN b[u.buffer]
      BY <1>3, <3>1
    <3>3. u.buffer = s.buffer => ~(j > s.length)
      BY <1>5, <2>1, <3>1
    <3>4. c[u.buffer][j] = b[u.buffer][j]
      BY <1>3, <3>1, <3>2, <3>3 DEF Stored
    <3>5. QED
      BY <2>2, <3>4 DEF Listed
  <2>5. \A j \in DOMAIN list : list[j].id <= n
    <3>1. list \in Seq(Handler) => \A j \in DOMAIN list : list[j] \in Handler
      OBVIOUS
    <3>2. \A j \in DOMAIN list : list[j].id \in Nat /\ list[j].id <= m
      BY <2>2, <3>1 DEF Listed, Handler
    <3>3. QED
      BY <1>2, <3>2
  <2>6. QED
    BY <2>1, <2>2, <2>3, <2>4, <2>5 DEF Listed
<1>7. ASSUME NEW e \in DOMAIN groups' PROVE Listed(groups'[e].declared, groups'[e].slice, c, n)
  <2>1. CASE e \in DOMAIN groups /\ groups'[e].slice = groups[e].slice /\ groups'[e].declared = groups[e].declared
    BY <1>6, <2>1
  <2>2. CASE groups'[e].slice = t /\ groups'[e].declared = front \o hs
    BY <1>2, <2>2
  <2>3. QED
    BY <1>7, <2>1, <2>2 DEF Appends
<1>8. ASSUME NEW e \in DOMAIN groups', NEW f \in DOMAIN groups', f # e
      PROVE  groups'[e].slice.buffer = 0 \/ groups'[f].slice.buffer # groups'[e].slice.buffer
  <2>1. PICK L : L = Len(groups)
    OBVIOUS
  <2>2. L \in Nat /\ L + 1 \notin DOMAIN groups
    BY <2>1 DEF ScriptTyped
  <2> DEFINE old(i) == i \in DOMAIN groups /\ groups'[i].slice = groups[i].slice
  <2> DEFINE new(i) == groups'[i].slice = t /\ (i = g \/ (g = 0 /\ i = L + 1))
  <2>3. (old(e) \/ new(e)) /\ (old(f) \/ new(f))
    BY <1>8, <2>1 DEF Appends
  <2>4. \A i \in DOMAIN groups : groups[i].slice.buffer = 0 \/ groups[i].slice.buffer \in DOMAIN b
    BY <1>4 DEF GroupOf, Listed, HoldsIn
  <2>5. Len(b) + 1 \notin DOMAIN b /\ Len(b) + 1 # 0
    BY <1>3
  <2>6. t.buffer = s.buffer \/ t.buffer = Len(b) + 1
    BY <1>3 DEF Stored
  <2>7. CASE old(e) /\ old(f)
    BY <1>4, <1>8, <2>7 DEF GroupOf
  <2>8. CASE new(e) /\ new(f)
    <3>1. FALSE
      <4>1. g \in DOMAIN groups \/ g = 0
        BY DEF Appends, Source
      <4>2. 0 \notin DOMAIN groups'
        BY DEF ScriptTyped
      <4>3. QED
        BY <1>8, <2>8, <4>1, <4>2
    <3>2. QED
      BY <3>1
  <2>9. ASSUME NEW i, NEW k, old(i), new(k), i # k
        PROVE  groups[i].slice.buffer = 0 \/ t.buffer # groups[i].slice.buffer
    <3>1. CASE t.buffer = Len(b) + 1
      BY <2>4, <2>5, <2>9, <3>1
    <3>2. CASE t.buffer = s.buffer
      <4>1. SUFFICES ASSUME groups[i].slice.buffer # 0, groups[i].slice.buffer = s.buffer PROVE FALSE
        BY <3>2
      <4>2. i = g /\ g # 0
        <5>1. i = g
          BY <1>5, <2>9, <4>1
        <5>2. 0 \notin DOMAIN groups
          BY DEF ScriptTyped
        <5>3. QED
          BY <2>9, <5>1, <5>2
      <4>3. QED
        BY <2>9, <4>2
    <3>3. QED
      BY <2>6, <3>1, <3>2
  <2>10. CASE old(e) /\ new(f)
    BY <1>8, <2>9, <2>10
  <2>11. CASE new(e) /\ old(f)
    BY <1>8, <2>9, <2>11
  <2>12. QED
    BY <2>3, <2>7, <2>8, <2>10, <2>11
<1>9. \A e \in DOMAIN groups' : GroupOf(groups', c, n, e)
  BY <1>7, <1>8 DEF GroupOf
<1>10. QED
  BY <1>1, <1>9 DEF GroupsInv, GroupOf, Listed, Holds, HoldsIn, Made

LEMMA RouteTyped ==
  ScriptTyped => \A i \in DOMAIN routes :
    /\ i \in 1 .. Len(routes) /\ routes[i].method \in Methods /\ routes[i].path \in Path /\ routes[i].slice \in Slice
    /\ routes[i].registered \in Seq(Handler) /\ routes[i].front \in Nat /\ routes[i].group \in Nat
<1> SUFFICES ASSUME ScriptTyped, NEW i \in DOMAIN routes
             PROVE  /\ i \in 1 .. Len(routes) /\ routes[i].method \in Methods
                    /\ routes[i].path \in Path /\ routes[i].slice \in Slice
                    /\ routes[i].registered \in Seq(Handler) /\ routes[i].front \in Nat /\ routes[i].group \in Nat
  OBVIOUS
<1>1. PICK T, H : /\ T = [method : Methods, path : Path, slice : Slice, registered : H, front : Nat, group : Nat]
                  /\ H = Seq(Handler)
  OBVIOUS
<1>2. routes \in Seq(T)
  BY <1>1 DEF ScriptTyped
<1>3. i \in 1 .. Len(routes) /\ routes[i] \in T
  BY <1>2
<1>4. /\ routes[i].method \in Methods /\ routes[i].path \in Path /\ routes[i].slice \in Slice
      /\ routes[i].registered \in H /\ routes[i].front \in Nat /\ routes[i].group \in Nat
  BY <1>1, <1>3
<1>5. QED
  BY <1>1, <1>3, <1>4

LEMMA RoutesStay ==
  ASSUME ScriptTyped, GroupsInv, RoutesInv, NEW g, NEW s, NEW front, NEW hs, NEW t,
         Appends(g, s, front, hs, t), ScriptTyped'
  PROVE  RoutesInv'
<1>1. PICK b, c, m, n : b = buffers /\ c = buffers' /\ m = made /\ n = made'
  OBVIOUS
<1>2. /\ Listed(front \o hs, t, c, n) /\ s.length = Len(front) /\ front \in Seq(Handler)
      /\ m \in Nat /\ m <= n /\ g \in Nat /\ n \in Nat
  BY <1>1, ListStored DEF ScriptTyped
<1>3. /\ Stored(b, s, hs, t, c) /\ b \in Seq(Seq(Handler)) /\ hs \in Seq(Handler)
      /\ \A i \in DOMAIN hs : hs[i].id = m + i
  BY <1>1 DEF Appends, ScriptTyped
<1>4. \A e \in DOMAIN groups : GroupOf(groups, b, m, e) /\ groups[e].slice \in Slice /\ e \in 1 .. Len(groups)
  BY <1>1, GroupsAre, GroupTyped
<1>5. \A i \in DOMAIN routes : RouteOf(groups, routes, b, m, routes[i])
  BY <1>1, RoutesAre
<1>6. t.buffer = s.buffer \/ t.buffer = Len(b) + 1
  BY <1>3 DEF Stored
<1>7. Len(b) + 1 \notin DOMAIN b /\ Len(b) + 1 # 0
  BY <1>3
<1>8. s.buffer # 0 => g \in DOMAIN groups /\ s = groups[g].slice /\ front = groups[g].declared /\ g # 0
  <2>1. CASE g = 0 /\ s = NoSlice
    BY <2>1 DEF NoSlice
  <2>2. CASE g \in DOMAIN groups /\ s = groups[g].slice /\ front = groups[g].declared
    BY <1>4, <2>2
  <2>3. QED
    BY <2>1, <2>2 DEF Appends, Source
<1>9. \A e \in DOMAIN groups' :
        \/ e \in DOMAIN groups /\ groups'[e].slice = groups[e].slice /\ groups'[e].declared = groups[e].declared
        \/ /\ groups'[e].slice = t /\ groups'[e].declared = front \o hs
           /\ e = g \/ (g = 0 /\ e = Len(groups) + 1)
  BY DEF Appends
<1>10. ASSUME NEW r, r.slice \in Slice, r.registered \in Seq(Handler), r.front \in Nat,
              RouteOf(groups, routes, b, m, r)
       PROVE  RouteOf(groups', routes', c, n, r)
  <2>1. PICK u, list : u = r.slice /\ list = r.registered
    OBVIOUS
  <2>2. /\ HoldsIn(b, u) /\ u \in Slice /\ u.length \in Nat /\ u.length = Len(list) /\ list \in Seq(Handler)
        /\ DOMAIN list = 1 .. u.length
    BY <1>10, <2>1 DEF RouteOf, Slice
  <2>3. HoldsIn(c, u)
    BY <1>3, <2>2 DEF HoldsIn, Stored
  <2>4. \A j \in DOMAIN list : list[j].id \in Nat /\ list[j].id <= m
    <3>1. list \in Seq(Handler) => \A j \in DOMAIN list : list[j] \in Handler
      OBVIOUS
    <3>2. \A j \in DOMAIN list : list[j].id \in Nat
      BY <2>2, <3>1 DEF Handler
    <3>3. QED
      BY <1>10, <2>1, <3>2 DEF RouteOf
  <2>5. \A j \in DOMAIN list : list[j].id <= n
    BY <1>2, <2>4
  <2>6. ASSUME r.group # 0 PROVE r.group \in DOMAIN groups' /\ r.front <= Len(groups'[r.group].declared)
    <3>1. r.group \in DOMAIN groups /\ r.front <= Len(groups[r.group].declared)
      BY <1>10, <2>6 DEF RouteOf
    <3>2. r.group \in DOMAIN groups'
      BY <3>1 DEF Appends, Grows
    <3>3. CASE groups'[r.group].declared = groups[r.group].declared
      BY <3>1, <3>2, <3>3
    <3>4. CASE groups'[r.group].declared = front \o hs /\ (r.group = g \/ r.group = Len(groups) + 1)
      <4>1. r.group = g
        <5>1. Len(groups) \in Nat /\ r.group \in 1 .. Len(groups)
          BY <1>4, <3>1 DEF ScriptTyped
        <5>2. QED
          BY <3>4, <5>1
      <4>2. front = groups[g].declared
        <5>1. 0 \notin DOMAIN groups
          BY <1>4
        <5>2. QED
          BY <3>1, <4>1, <5>1 DEF Appends, Source
      <4>3. Len(front \o hs) = Len(front) + Len(hs) /\ Len(hs) \in Nat /\ Len(front) \in Nat
        BY <1>2, <1>3
      <4>4. r.front <= Len(front)
        BY <3>1, <4>1, <4>2
      <4>5. QED
        BY <1>10, <3>2, <3>4, <4>3, <4>4
    <3>5. QED
      BY <1>9, <3>2, <3>3, <3>4
  <2>7. ASSUME NEW j \in DOMAIN list PROVE KeptIn(groups', routes', r, j, c[u.buffer][j])
    <3>1. j \in 1 .. u.length /\ u.buffer # 0 /\ u.buffer \in DOMAIN b /\ u.length <= Len(b[u.buffer])
      BY <2>2 DEF HoldsIn
    <3>2. j \in DOMAIN b[u.buffer]
      <4>1. b[u.buffer] \in Seq(Handler)
        BY <1>3, <3>1
      <4>2. QED
        BY <2>2, <3>1, <4>1
    <3>3. CASE c[u.buffer][j] = b[u.buffer][j]
      <4>1. PICK h : h = b[u.buffer][j]
        OBVIOUS
      <4>2. KeptIn(groups, routes, r, j, h) /\ (r.group # 0 => r.group \in DOMAIN groups)
        BY <1>10, <2>1, <4>1 DEF RouteOf
      <4>3. Grows
        BY DEF Appends
      <4>4. KeptIn(groups', routes', r, j, h)
        BY <4>2, <4>3, KeptStays
      <4>5. QED
        BY <3>3, <4>1, <4>4
    <3>4. CASE u.buffer = s.buffer /\ j > s.length /\ \E i \in DOMAIN hs : c[u.buffer][j] = hs[i]
      <4>1. PICK i \in DOMAIN hs : c[u.buffer][j] = hs[i]
        BY <3>4
      <4>2. g \in DOMAIN groups /\ s = groups[g].slice /\ front = groups[g].declared /\ g # 0
        BY <1>8, <3>1, <3>4
      <4>3. r.group = g
        BY <1>10, <2>1, <3>1, <3>4, <4>2 DEF RouteOf
      <4>4. r.front <= Len(front)
        BY <1>10, <4>2, <4>3 DEF RouteOf
      <4>5. j > r.front
        BY <1>2, <1>10, <2>2, <3>1, <3>4, <4>4
      <4>6. OfGroupIn(groups', routes', g, hs[i])
        BY <4>1, <4>2 DEF Appends
      <4>7. hs[i].id > Last(list).id
        <5>1. Last(list) = list[u.length] /\ u.length \in DOMAIN list
          BY <2>2, <3>1 DEF Last
        <5>2. list[u.length].id \in Nat /\ list[u.length].id <= m
          BY <2>4, <5>1
        <5>3. i \in Nat /\ i > 0 /\ hs[i].id = m + i
          BY <1>3, <4>1
        <5>4. QED
          BY <1>2, <5>1, <5>2, <5>3
      <4>8. QED
        BY <2>1, <4>1, <4>2, <4>3, <4>5, <4>6, <4>7 DEF KeptIn
    <3>5. QED
      BY <1>3, <3>1, <3>2, <3>3, <3>4 DEF Stored
  <2>8. ASSUME NEW e \in DOMAIN groups', u.buffer # 0, groups'[e].slice.buffer = u.buffer PROVE r.group = e
    <3>1. u.buffer \in DOMAIN b
      BY <2>2, <2>8 DEF HoldsIn
    <3>2. CASE e \in DOMAIN groups /\ groups'[e].slice = groups[e].slice
      BY <1>10, <2>1, <2>8, <3>2 DEF RouteOf
    <3>3. CASE groups'[e].slice = t /\ (e = g \/ (g = 0 /\ e = Len(groups) + 1))
      <4>1. t.buffer = s.buffer
        BY <1>6, <1>7, <2>8, <3>1, <3>3
      <4>2. g \in DOMAIN groups /\ s = groups[g].slice /\ g # 0
        BY <1>8, <2>8, <3>3, <4>1
      <4>3. e = g
        BY <3>3, <4>2
      <4>4. QED
        BY <1>10, <2>1, <2>8, <3>3, <4>1, <4>2, <4>3 DEF RouteOf
    <3>4. QED
      BY <1>9, <2>8, <3>2, <3>3
  <2>9. QED
    BY <2>1, <2>2, <2>3, <2>5, <2>6, <2>7, <2>8 DEF RouteOf
<1>11. ASSUME NEW i \in DOMAIN routes', i \notin DOMAIN routes PROVE RouteOf(groups', routes', c, n, routes'[i])
  <2>1. PICK r, list : r = routes'[i] /\ list = front \o hs
    OBVIOUS
  <2>2. r.slice = t /\ r.registered = list /\ r.front = Len(front) /\ r.group = g /\ groups' = groups
    BY <1>11, <2>1 DEF Appends
  <2>3. /\ HoldsIn(c, t) /\ t.length = Len(list) /\ \A j \in DOMAIN list : list[j].id <= n
        /\ \A j \in DOMAIN list : c[t.buffer][j] = list[j]
    BY <1>2, <2>1 DEF Listed
  <2>4. g # 0 => g \in DOMAIN groups /\ front = groups[g].declared /\ Len(front) <= Len(groups[g].declared)
    <3>1. g # 0 => g \in DOMAIN groups /\ front = groups[g].declared
      BY DEF Appends, Source
    <3>2. Len(front) \in Nat
      BY <1>2
    <3>3. QED
      BY <3>1, <3>2
  <2>5. \A j \in DOMAIN list : KeptIn(groups', routes', r, j, c[t.buffer][j])
    BY <2>2, <2>3 DEF KeptIn
  <2>6. ASSUME NEW e \in DOMAIN groups, t.buffer # 0, groups[e].slice.buffer = t.buffer PROVE g = e
    <3>1. groups[e].slice.buffer \in DOMAIN b
      BY <1>4, <2>6 DEF GroupOf, Listed, HoldsIn
    <3>2. t.buffer = s.buffer
      BY <1>6, <1>7, <2>6, <3>1
    <3>3. g \in DOMAIN groups /\ s = groups[g].slice
      BY <1>8, <2>6, <3>2
    <3>4. QED
      BY <1>4, <2>6, <3>2, <3>3 DEF GroupOf
  <2>7. QED
    BY <2>1, <2>2, <2>3, <2>4, <2>5, <2>6 DEF RouteOf
<1>12. ASSUME NEW i \in DOMAIN routes' PROVE RouteOf(groups', routes', c, n, routes'[i])
  <2>1. CASE i \in DOMAIN routes
    <3>1. PICK r : r = routes[i]
      OBVIOUS
    <3>2. routes'[i] = r
      BY <2>1, <3>1 DEF Appends, Grows
    <3>3. r.slice \in Slice /\ r.registered \in Seq(Handler) /\ r.front \in Nat /\ RouteOf(groups, routes, b, m, r)
      BY <1>5, <2>1, <3>1, RouteTyped
    <3>4. QED
      BY <1>10, <3>2, <3>3
  <2>2. QED
    BY <1>11, <1>12, <2>1
<1>13. QED
  BY <1>1, <1>12 DEF RoutesInv, RouteOf, Holds, HoldsIn, Made, Kept, KeptIn, OfGroup, OfGroupIn

-----------------------------------------------------------------------------
(* The actions of the script.                                              *)
Extends(x, e, y) == y = Append(x, e)

LEMMA ExtendsIs ==
  ASSUME NEW T, NEW x \in Seq(T), NEW e \in T, NEW y, Extends(x, e, y)
  PROVE  /\ y \in Seq(T) /\ Len(y) = Len(x) + 1 /\ DOMAIN x = 1 .. Len(x) /\ DOMAIN y = 1 .. Len(x) + 1
         /\ \A i \in DOMAIN x : i \in DOMAIN y /\ y[i] = x[i]
         /\ \A i \in DOMAIN y \ DOMAIN x : i = Len(x) + 1
         /\ y[Len(x) + 1] = e
<1>1. PICK n, z : n = Len(x) /\ z = Append(x, e)
  OBVIOUS
<1>2. n \in Nat /\ DOMAIN x = 1 .. n
  BY <1>1
<1>3. z \in Seq(T) /\ Len(z) = n + 1 /\ z[n + 1] = e /\ \A i \in 1 .. n : z[i] = x[i]
  BY <1>1, <1>2, AppendProperties
<1>4. y = z
  BY <1>1 DEF Extends
<1>5. DOMAIN z = 1 .. n + 1 /\ \A i \in 1 .. n : i \in 1 .. n + 1
  BY <1>2, <1>3
<1>6. \A i \in 1 .. n + 1 : i \notin 1 .. n => i = n + 1
  BY <1>2
<1>7. QED
  BY <1>1, <1>2, <1>3, <1>4, <1>5, <1>6

LEMMA JoinIs ==
  ASSUME NEW T, NEW x \in Seq(T), NEW y \in Seq(T)
  PROVE  /\ x \o y \in Seq(T) /\ Len(x \o y) = Len(x) + Len(y) /\ Len(x) \in Nat /\ Len(y) \in Nat
         /\ \A i \in DOMAIN x : i \in DOMAIN (x \o y) /\ (x \o y)[i] = x[i]
         /\ \A i \in DOMAIN y : Len(x) + i \in DOMAIN (x \o y) /\ (x \o y)[Len(x) + i] = y[i]
<1>1. x \o y \in Seq(T) /\ Len(x \o y) = Len(x) + Len(y) /\ Len(x) \in Nat /\ Len(y) \in Nat
  OBVIOUS
<1>2. \A i \in DOMAIN x : i \in DOMAIN (x \o y) /\ (x \o y)[i] = x[i]
  OBVIOUS
<1>3. \A i \in DOMAIN y : Len(x) + i \in DOMAIN (x \o y) /\ (x \o y)[Len(x) + i] = y[i]
  OBVIOUS
<1>4. QED
  BY <1>1, <1>2, <1>3

LEMMA HandlersTyped ==
  ASSUME made \in Nat, NEW lists, lists \subseteq Seq(Doing), NEW hs \in Handlers(lists)
  PROVE  /\ hs \in Seq(Handler) /\ \A i \in DOMAIN hs : hs[i].id = made + i /\ hs[i].does \in Doing
         /\ \E l \in lists : Len(hs) = Len(l)
<1>1. PICK l \in lists : hs = [i \in DOMAIN l |-> [id |-> made + i, does |-> l[i]]]
  BY DEF Handlers
<1>2. PICK n : n = Len(l)
  OBVIOUS
<1>3. l \in Seq(Doing) /\ n \in Nat /\ DOMAIN l = 1 .. n /\ \A i \in 1 .. n : l[i] \in Doing
  <2>1. l \in Seq(Doing)
    OBVIOUS
  <2>2. QED
    BY <1>2, <2>1
<1>4. \A i \in 1 .. n : hs[i] = [id |-> made + i, does |-> l[i]] /\ hs[i] \in Handler
  BY <1>1, <1>3 DEF Handler
<1>5. hs = [i \in 1 .. n |-> hs[i]]
  BY <1>1, <1>3
<1>6. hs \in Seq(Handler) /\ Len(hs) = n /\ DOMAIN hs = 1 .. n
  <2>1. hs \in [1 .. n -> Handler]
    BY <1>4, <1>5
  <2>2. QED
    BY <1>3, <2>1
<1>7. QED
  BY <1>2, <1>3, <1>4, <1>6

LEMMA SetupIs ==
  SetupsTyped /\ setup \in Setups =>
    /\ \A d \in setup.guards : d \in Doing
    /\ {<<d>> : d \in setup.guards} \subseteq Seq(Doing) /\ setup.lists \subseteq Seq(Doing)
    /\ setup.asks \subseteq Ask /\ setup.prefixes \subseteq Path /\ setup.stacks \subseteq Seq(Doing)
    /\ \A l \in setup.stacks : Len(l) <= 32
    /\ \A r \in setup.routes : r.method \in Methods /\ r.path \in Path
<1> SUFFICES ASSUME SetupsTyped, setup \in Setups
             PROVE  /\ \A d \in setup.guards : d \in Doing
                    /\ {<<d>> : d \in setup.guards} \subseteq Seq(Doing) /\ setup.lists \subseteq Seq(Doing)
                    /\ setup.asks \subseteq Ask /\ setup.prefixes \subseteq Path /\ setup.stacks \subseteq Seq(Doing)
                    /\ \A l \in setup.stacks : Len(l) <= 32
                    /\ \A r \in setup.routes : r.method \in Methods /\ r.path \in Path
  OBVIOUS
<1>1. /\ setup.guards \subseteq Doing /\ setup.lists \subseteq Seq(Doing)
      /\ setup.asks \subseteq Ask /\ setup.routes \subseteq Ask
      /\ setup.prefixes \subseteq Path /\ setup.stacks \subseteq Seq(Doing)
      /\ \A l \in setup.stacks : Len(l) <= 32
  BY DEF SetupsTyped
<1>2. \A d \in Doing : <<d>> \in Seq(Doing)
  OBVIOUS
<1>3. \A d \in setup.guards : d \in Doing /\ <<d>> \in Seq(Doing)
  BY <1>1, <1>2
<1>4. \A r \in setup.routes : r.method \in Methods /\ r.path \in Path
  BY <1>1 DEF Ask
<1>5. QED
  BY <1>1, <1>3, <1>4

Appended == \E g, s, front, hs, t : Appends(g, s, front, hs, t)

LEMMA NothingStored == NoSlice \in Slice /\ Holds(NoSlice) /\ \A b : HoldsIn(b, NoSlice)
BY DEF NoSlice, Slice, Holds, HoldsIn

(* A route behind all others, with the handlers of list.                   *)
LEMMA RouteAppended ==
  ASSUME ScriptTyped, GroupsInv, NEW g, NEW s, NEW front, NEW hs, NEW t, NEW path \in Path, NEW method \in Methods,
         Source(g, s, front), Stored(buffers, s, hs, t, buffers'), hs \in Seq(Handler), front \in Seq(Handler),
         \A i \in DOMAIN hs : hs[i].id = made + i,
         made' = made + Len(hs), groups' = groups, g \in Nat, calls' \in Nat,
         Register(method, path, t, [list |-> front \o hs, front |-> Len(front)], g),
         UNCHANGED <<middleware, pending>>
  PROVE  Appends(g, s, front, hs, t) /\ ScriptTyped'
<1>1. PICK T, list, new, rs : /\ T = [method : Methods, path : Path, slice : Slice,
                                      registered : Seq(Handler), front : Nat, group : Nat]
                              /\ list = front \o hs /\ rs = routes
                              /\ new = [method |-> method, path |-> path, slice |-> t, registered |-> list,
                                        front |-> Len(front), group |-> g]
  OBVIOUS
<1>2. list \in Seq(Handler) /\ Len(front) \in Nat /\ Len(hs) \in Nat /\ Len(list) = Len(front) + Len(hs)
      /\ \A i \in DOMAIN hs : Len(front) + i \in DOMAIN list /\ list[Len(front) + i] = hs[i]
  <2>1. list \in Seq(Handler) /\ Len(front) \in Nat /\ Len(hs) \in Nat /\ Len(list) = Len(front) + Len(hs)
    BY <1>1
  <2>2. \A i \in DOMAIN hs : Len(front) + i \in DOMAIN list /\ list[Len(front) + i] = hs[i]
    BY <1>1
  <2>3. QED
    BY <2>1, <2>2
<1>3. t \in Slice /\ buffers' \in Seq(Seq(Handler))
  BY DEF Stored
<1>4. new \in T
  BY <1>1, <1>2, <1>3
<1>5. Extends(rs, new, routes') /\ rs \in Seq(T)
  BY <1>1 DEF Register, Extends, ScriptTyped
<1>6. PICK n : n = Len(rs)
  OBVIOUS
<1>7. /\ routes' \in Seq(T) /\ DOMAIN rs = 1 .. n /\ DOMAIN routes' = 1 .. n + 1
      /\ \A i \in DOMAIN rs : i \in DOMAIN routes' /\ routes'[i] = rs[i]
      /\ \A i \in DOMAIN routes' \ DOMAIN rs : i = n + 1
      /\ routes'[n + 1] = new
  BY <1>4, <1>5, <1>6, ExtendsIs
<1>8. ScriptTyped'
  <2>1. groups' \in Seq([prefix : Path, declared : Seq(Handler), slice : Slice])
    BY DEF ScriptTyped
  <2>2. middleware' \in Seq(Handler) /\ pending' \in Seq(Handler) /\ made' \in Nat
    BY <1>2 DEF ScriptTyped
  <2>3. QED
    BY <1>1, <1>3, <1>7, <2>1, <2>2 DEF ScriptTyped
<1>9. Grows
  BY <1>1, <1>7 DEF Grows
<1>10. /\ new.slice = t /\ new.registered = list /\ new.front = Len(front) /\ new.group = g
  BY <1>1
<1>11. n \in Nat
  BY <1>5, <1>6
<1>12. n + 1 \in DOMAIN routes'
  BY <1>7, <1>11
<1>13. ASSUME NEW i \in DOMAIN hs PROVE OfGroupIn(groups', routes', g, hs[i])
  <2>1. hs[i] \in Range(list)
    BY <1>2 DEF Range
  <2>2. QED
    BY <1>7, <1>10, <1>12, <2>1 DEF OfGroupIn
<1>14. \A i \in DOMAIN routes' \ DOMAIN routes :
       /\ routes'[i].slice = t /\ routes'[i].registered = front \o hs
       /\ routes'[i].front = Len(front) /\ routes'[i].group = g /\ groups' = groups
  BY <1>1, <1>7, <1>10
<1>15. \A e \in DOMAIN groups' :
         e \in DOMAIN groups /\ groups'[e].slice = groups[e].slice /\ groups'[e].declared = groups[e].declared
  OBVIOUS
<1>16. Appends(g, s, front, hs, t)
  BY <1>9, <1>13, <1>14, <1>15 DEF Appends
<1>17. QED
  BY <1>8, <1>16

LEMMA HandleAppends ==
  ASSUME SetupsTyped, setup \in Setups, ScriptTyped, GroupsInv, Handle
  PROVE  Appended /\ ScriptTyped'
<1>1. PICK r \in setup.routes, hs \in Handlers(setup.lists) :
        /\ Register(r.method, r.path, AppendedSlice(NoSlice, hs), [list |-> hs, front |-> 0], 0)
        /\ buffers' = AppendedBuffers(NoSlice, hs)
        /\ made' = made + Len(hs)
  BY DEF Handle
<1>2. made \in Nat /\ buffers \in Seq(Seq(Handler)) /\ calls \in Nat
  BY DEF ScriptTyped
<1>3. hs \in Seq(Handler) /\ \A i \in DOMAIN hs : hs[i].id = made + i
  <2>1. setup.lists \subseteq Seq(Doing)
    BY SetupIs
  <2>2. QED
    BY <1>2, <2>1, HandlersTyped
<1>4. PICK t : t = AppendedSlice(NoSlice, hs)
  OBVIOUS
<1>5. Stored(buffers, NoSlice, hs, t, buffers')
  <2>1. Stored(buffers, NoSlice, hs, AppendedSlice(NoSlice, hs), AppendedBuffers(NoSlice, hs))
    BY <1>2, <1>3, NothingStored, StoredIs
  <2>2. QED
    BY <1>1, <1>4, <2>1
<1>6. r.method \in Methods /\ r.path \in Path
  BY SetupIs
<1>7. PICK path, method, front : path = r.path /\ method = r.method /\ front = <<>>
  OBVIOUS
<1>8. Register(method, path, t, [list |-> front \o hs, front |-> Len(front)], 0)
  <2>1. front \o hs = hs /\ Len(front) = 0
    BY <1>3, <1>7
  <2>2. QED
    BY <1>1, <1>4, <1>7, <2>1
<1>9. Source(0, NoSlice, front) /\ front \in Seq(Handler) /\ 0 \in Nat
  BY <1>7 DEF Source
<1>10. groups' = groups /\ UNCHANGED <<middleware, pending>> /\ calls' \in Nat
  BY <1>2 DEF Handle, ScriptCalls
<1>11. path \in Path /\ method \in Methods /\ made' = made + Len(hs)
  BY <1>1, <1>6, <1>7
<1>12. Appends(0, NoSlice, front, hs, t) /\ ScriptTyped'
  BY <1>3, <1>5, <1>8, <1>9, <1>10, <1>11, RouteAppended
<1>13. QED
  BY <1>12 DEF Appended

LEMMA JoinedTyped == \A prefix, path \in Path : Joined(prefix, path) \in Path
<1> SUFFICES ASSUME NEW prefix \in Path, NEW path \in Path PROVE Joined(prefix, path) \in Path
  OBVIOUS
<1>1. prefix \in Seq(Parts) /\ prefix # <<>> /\ path \in Seq(Parts) /\ path # <<>>
  BY DEF Path
<1>2. PICK x, y, z : /\ x = Front(prefix) /\ z = Tail(path)
                     /\ y = IF Last(prefix) = NoText THEN Head(path) ELSE Last(prefix)
  OBVIOUS
<1>3. x \in Seq(Parts)
  BY <1>1, <1>2 DEF Front
<1>4. y \in Parts
  BY <1>1, <1>2 DEF Last
<1>5. z \in Seq(Parts)
  BY <1>1, <1>2
<1>6. PICK w : w = <<y>>
  OBVIOUS
<1>7. w \in Seq(Parts) /\ Len(w) = 1
  BY <1>4, <1>6
<1>8. PICK v : v = x \o w
  OBVIOUS
<1>9. v \in Seq(Parts) /\ Len(v) = Len(x) + 1 /\ Len(x) \in Nat
  <2>1. x \o w \in Seq(Parts) /\ Len(x \o w) = Len(x) + Len(w) /\ Len(x) \in Nat
    BY <1>3, <1>7, JoinIs
  <2>2. QED
    BY <1>7, <1>8, <2>1
<1>10. v \o z \in Seq(Parts) /\ Len(v \o z) = Len(x) + 1 + Len(z) /\ Len(z) \in Nat
  <2>1. v \o z \in Seq(Parts) /\ Len(v \o z) = Len(v) + Len(z) /\ Len(z) \in Nat
    BY <1>5, <1>9, JoinIs
  <2>2. QED
    BY <1>9, <2>1
<1>11. v \o z # <<>>
  BY <1>9, <1>10
<1>12. Joined(prefix, path) = v \o z
  BY <1>2, <1>6, <1>8 DEF Joined
<1>13. QED
  BY <1>10, <1>11, <1>12 DEF Path

LEMMA GroupSlice ==
  ASSUME ScriptTyped, GroupsInv, NEW g \in DOMAIN groups
  PROVE  /\ groups[g].slice \in Slice /\ Holds(groups[g].slice) /\ groups[g].declared \in Seq(Handler)
         /\ g \in Nat /\ g # 0 /\ Source(g, groups[g].slice, groups[g].declared)
<1>1. groups[g].slice \in Slice /\ groups[g].declared \in Seq(Handler) /\ g \in 1 .. Len(groups)
  BY GroupTyped
<1>2. Holds(groups[g].slice)
  BY DEF GroupsInv
<1>3. Len(groups) \in Nat
  BY DEF ScriptTyped
<1>4. g \in Nat /\ g # 0
  BY <1>1, <1>3
<1>5. QED
  BY <1>1, <1>2, <1>4 DEF Source

LEMMA GroupHandleAppends ==
  ASSUME SetupsTyped, setup \in Setups, ScriptTyped, GroupsInv, GroupHandle
  PROVE  Appended /\ ScriptTyped'
<1>1. PICK g \in DOMAIN groups, r \in setup.routes, hs \in Handlers(setup.lists) :
       /\ Register(r.method, Joined(groups[g].prefix, r.path), AppendedSlice(groups[g].slice, hs),
                   [list |-> groups[g].declared \o hs, front |-> Len(groups[g].declared)], g)
       /\ buffers' = AppendedBuffers(groups[g].slice, hs)
       /\ made' = made + Len(hs)
  BY DEF GroupHandle
<1>2. made \in Nat /\ buffers \in Seq(Seq(Handler)) /\ calls \in Nat
  BY DEF ScriptTyped
<1>3. hs \in Seq(Handler) /\ \A i \in DOMAIN hs : hs[i].id = made + i
  <2>1. setup.lists \subseteq Seq(Doing)
    BY SetupIs
  <2>2. QED
    BY <1>2, <2>1, HandlersTyped
<1>4. PICK s, front : s = groups[g].slice /\ front = groups[g].declared
  OBVIOUS
<1>5. s \in Slice /\ Holds(s) /\ front \in Seq(Handler) /\ g \in Nat /\ Source(g, s, front)
  BY <1>4, GroupSlice
<1>6. PICK t : t = AppendedSlice(s, hs)
  OBVIOUS
<1>7. Stored(buffers, s, hs, t, buffers')
  <2>1. Stored(buffers, s, hs, AppendedSlice(s, hs), AppendedBuffers(s, hs))
    BY <1>2, <1>3, <1>5, StoredIs
  <2>2. QED
    BY <1>1, <1>4, <1>6, <2>1
<1>8. PICK path, method : path = Joined(groups[g].prefix, r.path) /\ method = r.method
  OBVIOUS
<1>9. path \in Path /\ method \in Methods
  <2>1. groups[g].prefix \in Path
    BY GroupTyped
  <2>2. r.method \in Methods /\ r.path \in Path
    BY SetupIs
  <2>3. QED
    BY <1>8, <2>1, <2>2, JoinedTyped
<1>10. Register(method, path, t, [list |-> front \o hs, front |-> Len(front)], g)
  BY <1>1, <1>4, <1>6, <1>8
<1>11. groups' = groups /\ UNCHANGED <<middleware, pending>> /\ calls' \in Nat /\ made' = made + Len(hs)
  BY <1>1, <1>2 DEF GroupHandle, ScriptCalls
<1>12. Appends(g, s, front, hs, t) /\ ScriptTyped'
  BY <1>3, <1>5, <1>7, <1>9, <1>10, <1>11, RouteAppended
<1>13. QED
  BY <1>12 DEF Appended

LEMMA GroupUseAppends ==
  ASSUME SetupsTyped, setup \in Setups, ScriptTyped, GroupsInv, GroupUse
  PROVE  Appended /\ ScriptTyped'
<1>1. PICK g \in DOMAIN groups, hs \in Handlers({<<d>> : d \in setup.guards}) :
        /\ groups' = [groups EXCEPT ![g].slice = AppendedSlice(@, hs), ![g].declared = @ \o hs]
        /\ buffers' = AppendedBuffers(groups[g].slice, hs)
        /\ made' = made + 1
  BY DEF GroupUse
<1>2. made \in Nat /\ buffers \in Seq(Seq(Handler)) /\ calls \in Nat
  BY DEF ScriptTyped
<1>3. hs \in Seq(Handler) /\ (\A i \in DOMAIN hs : hs[i].id = made + i) /\ Len(hs) = 1
  <2>1. PICK lists : lists = {<<d>> : d \in setup.guards}
    OBVIOUS
  <2>2. lists \subseteq Seq(Doing) /\ hs \in Handlers(lists) /\ \A l \in lists : Len(l) = 1
    BY <2>1, SetupIs
  <2>3. QED
    BY <1>2, <2>2, HandlersTyped
<1>4. PICK s, front, entry : s = groups[g].slice /\ front = groups[g].declared /\ entry = groups[g]
  OBVIOUS
<1>5. s \in Slice /\ Holds(s) /\ front \in Seq(Handler) /\ g \in Nat /\ g # 0 /\ Source(g, s, front)
  BY <1>4, GroupSlice
<1>6. PICK t, list : t = AppendedSlice(s, hs) /\ list = front \o hs
  OBVIOUS
<1>7. Stored(buffers, s, hs, t, buffers')
  <2>1. Stored(buffers, s, hs, AppendedSlice(s, hs), AppendedBuffers(s, hs))
    BY <1>2, <1>3, <1>5, StoredIs
  <2>2. QED
    BY <1>1, <1>4, <1>6, <2>1
<1>8. PICK T, gs, new : /\ T = [prefix : Path, declared : Seq(Handler), slice : Slice]
                        /\ gs = groups /\ new = [entry EXCEPT !.slice = t, !.declared = list]
  OBVIOUS
<1>9. gs \in Seq(T) /\ entry \in T
  <2>1. gs \in Seq(T) /\ g \in DOMAIN gs
    BY <1>8 DEF ScriptTyped
  <2>2. gs[g] \in T
    BY <2>1
  <2>3. QED
    BY <1>4, <1>8, <2>1, <2>2
<1>10. t \in Slice /\ list \in Seq(Handler) /\ buffers' \in Seq(Seq(Handler))
  BY <1>3, <1>5, <1>6, <1>7 DEF Stored
<1>11. new \in T /\ new.slice = t /\ new.declared = list
  BY <1>8, <1>9, <1>10
<1>12. groups' = [gs EXCEPT ![g] = new]
  BY <1>1, <1>4, <1>6, <1>8
<1>13. PICK hg : hg = [gs EXCEPT ![g] = new]
  OBVIOUS
<1>14. /\ hg \in Seq(T) /\ DOMAIN hg = DOMAIN gs /\ hg[g] = new /\ \A e \in DOMAIN gs : e # g => hg[e] = gs[e]
  <2>1. g \in 1 .. Len(gs) /\ g \in DOMAIN gs
    BY <1>8, <1>9
  <2>2. QED
    BY <1>9, <1>11, <1>13, <2>1, ExceptSeq
<1>15. ScriptTyped'
  <2>1. groups' \in Seq(T)
    BY <1>12, <1>13, <1>14
  <2>2. UNCHANGED <<middleware, pending, routes>> /\ calls' \in Nat /\ made' \in Nat
    BY <1>1, <1>2 DEF GroupUse, ScriptCalls
  <2>3. QED
    BY <1>8, <1>10, <2>1, <2>2 DEF ScriptTyped
<1>16. /\ Len(list) = Len(front) + Len(hs) /\ Len(front) \in Nat /\ Len(hs) \in Nat
       /\ \A i \in DOMAIN front : i \in DOMAIN list /\ list[i] = front[i]
       /\ \A i \in DOMAIN hs : Len(front) + i \in DOMAIN list /\ list[Len(front) + i] = hs[i]
  <2>1. hs \in Seq(Handler) /\ front \in Seq(Handler)
    BY <1>3, <1>5
  <2>2. /\ Len(front \o hs) = Len(front) + Len(hs) /\ Len(front) \in Nat /\ Len(hs) \in Nat
        /\ \A i \in DOMAIN front : i \in DOMAIN (front \o hs) /\ (front \o hs)[i] = front[i]
        /\ \A i \in DOMAIN hs : Len(front) + i \in DOMAIN (front \o hs) /\ (front \o hs)[Len(front) + i] = hs[i]
    BY <2>1, JoinIs
  <2>3. QED
    BY <1>6, <2>2
<1>17. Grows
  <2>1. ASSUME NEW e \in DOMAIN groups
        PROVE  e \in DOMAIN groups' /\ Range(groups[e].declared) \subseteq Range(groups'[e].declared)
    <3>1. e \in DOMAIN groups'
      BY <1>8, <1>12, <1>13, <1>14
    <3>2. CASE e = g
      <4>1. Range(front) \subseteq Range(list)
        BY <1>16 DEF Range
      <4>2. groups'[e].declared = list /\ groups[e].declared = front
        BY <1>4, <1>11, <1>12, <1>13, <1>14, <3>2
      <4>3. QED
        BY <3>1, <4>1, <4>2
    <3>3. CASE e # g
      BY <1>8, <1>12, <1>13, <1>14, <3>1, <3>3
    <3>4. QED
      BY <3>2, <3>3
  <2>2. routes' = routes
    BY DEF GroupUse
  <2>3. QED
    BY <2>1, <2>2 DEF Grows
<1>18. ASSUME NEW i \in DOMAIN hs PROVE OfGroupIn(groups', routes', g, hs[i])
  <2>1. hs[i] \in Range(list)
    BY <1>16 DEF Range
  <2>2. groups'[g].declared = list
    BY <1>11, <1>12, <1>13, <1>14
  <2>3. QED
    BY <2>1, <2>2 DEF OfGroupIn
<1>19. ASSUME NEW e \in DOMAIN groups'
       PROVE  \/ e \in DOMAIN groups /\ groups'[e].slice = groups[e].slice /\ groups'[e].declared = groups[e].declared
              \/ groups'[e].slice = t /\ groups'[e].declared = front \o hs /\ e = g
  <2>1. e \in DOMAIN groups
    BY <1>8, <1>12, <1>13, <1>14
  <2>2. CASE e = g
    BY <1>6, <1>11, <1>12, <1>13, <1>14, <2>2
  <2>3. CASE e # g
    BY <1>8, <1>12, <1>13, <1>14, <2>1, <2>3
  <2>4. QED
    BY <2>2, <2>3
<1>20. DOMAIN routes' \ DOMAIN routes = {}
  BY DEF GroupUse
<1>21. made' = made + Len(hs)
  BY <1>1, <1>3
<1>22. Appends(g, s, front, hs, t)
  BY <1>3, <1>5, <1>7, <1>17, <1>18, <1>19, <1>20, <1>21 DEF Appends
<1>23. QED
  BY <1>15, <1>22 DEF Appended

LEMMA GroupAppends ==
  ASSUME SetupsTyped, setup \in Setups, ScriptTyped, GroupsInv, Group
  PROVE  Appended /\ ScriptTyped'
<1>0. PICK prefix \in setup.prefixes : \E hs \in Handlers(setup.stacks) :
         /\ groups' = Append(groups, [prefix |-> prefix, declared |-> hs, slice |-> Collected(Len(hs))])
         /\ buffers' = IF Len(hs) = 0 THEN buffers
                       ELSE Append(buffers, [i \in 1 .. RoomOneByOne(Len(hs)) |-> IF i <= Len(hs) THEN hs[i] ELSE Nobody])
         /\ made' = made + Len(hs)
  BY DEF Group
<1>1. PICK hs \in Handlers(setup.stacks) :
         /\ groups' = Append(groups, [prefix |-> prefix, declared |-> hs, slice |-> Collected(Len(hs))])
         /\ buffers' = IF Len(hs) = 0 THEN buffers
                       ELSE Append(buffers, [i \in 1 .. RoomOneByOne(Len(hs)) |-> IF i <= Len(hs) THEN hs[i] ELSE Nobody])
         /\ made' = made + Len(hs)
  BY <1>0
<1>2. PICK b : b = buffers
  OBVIOUS
<1>3. made \in Nat /\ b \in Seq(Seq(Handler)) /\ calls \in Nat
  BY <1>2 DEF ScriptTyped
<1>4. PICK n : n = Len(hs)
  OBVIOUS
<1>5. prefix \in Path /\ n \in 0 .. 32 /\ hs \in Seq(Handler) /\ (\A i \in DOMAIN hs : hs[i].id = made + i) /\ DOMAIN hs = 1 .. n
  <2>1. PICK lists : lists = setup.stacks
    OBVIOUS
  <2>2. lists \subseteq Seq(Doing) /\ hs \in Handlers(lists) /\ \A l \in lists : Len(l) <= 32
    BY <2>1, SetupIs
  <2>3. hs \in Seq(Handler) /\ (\A i \in DOMAIN hs : hs[i].id = made + i) /\ \E l \in lists : Len(hs) = Len(l)
    BY <1>3, <2>2, HandlersTyped
  <2>4. n \in Nat /\ n <= 32 /\ DOMAIN hs = 1 .. n
    BY <1>4, <2>2, <2>3
  <2>5. QED
    BY <2>3, <2>4, SetupIs
<1>6. PICK t : t = IF n = 0 THEN NoSlice ELSE [buffer |-> Len(b) + 1, length |-> n]
  OBVIOUS
<1>6a. /\ groups' = Append(groups, [prefix |-> prefix, declared |-> hs, slice |-> t])
       /\ buffers' = IF n = 0 THEN b ELSE Append(b, [i \in 1 .. RoomOneByOne(n) |-> IF i <= n THEN hs[i] ELSE Nobody])
  BY <1>1, <1>2, <1>4, <1>6 DEF Collected
<1>7. Stored(b, NoSlice, hs, t, buffers')
  <2>1. NoSlice \in Slice /\ HoldsIn(b, NoSlice) /\ NoSlice.length = 0 /\ NoSlice.buffer = 0
    BY NothingStored DEF NoSlice
  <2>2. CASE n = 0
    <3>1. buffers' = b /\ t = NoSlice /\ DOMAIN hs = {} /\ 0 = 0 + Len(hs)
      BY <1>4, <1>5, <1>6, <1>6a, <2>2
    <3>2. Stored(b, NoSlice, hs, NoSlice, b)
      BY <1>3, <2>1, <3>1 DEF Stored
    <3>3. QED
      BY <3>1, <3>2
  <2>3. CASE n # 0
    <3>1. PICK room : room = RoomOneByOne(n)
      OBVIOUS
    <3>2. room \in Nat /\ n <= room
      <4>1. n \in 1 .. 32
        BY <1>5, <2>3
      <4>2. QED
        BY <3>1, <4>1, RoomIs
    <3>3. PICK f : f = [i \in 1 .. room |-> IF i <= n THEN hs[i] ELSE Nobody]
      OBVIOUS
    <3>4. \A i \in 1 .. room : f[i] \in Handler
      <4>1. \A i \in 1 .. room : i <= n => i \in 1 .. n
        BY <1>4
      <4>2. \A i \in 1 .. n : hs[i] \in Handler
        BY <1>5
      <4>3. QED
        BY <3>3, <4>1, <4>2, NobodyTyped
    <3>5. f \in Seq(Handler) /\ Len(f) = room
      <4>1. f \in [1 .. room -> Handler]
        BY <3>3, <3>4
      <4>2. QED
        BY <3>2, <3>3, <4>1
    <3>6. ASSUME NEW i \in DOMAIN hs PROVE f[NoSlice.length + i] = hs[i]
      <4>1. i \in 1 .. room /\ i <= n /\ 0 + i = i
        BY <1>4, <1>5, <3>2
      <4>2. QED
        BY <2>1, <3>3, <4>1
    <3>7. NoSlice.length + Len(hs) = n /\ 1 .. NoSlice.length = {}
      BY <1>4, <1>5, <2>1
    <3>8. Fresh(f, room, b, NoSlice, hs)
      BY <3>2, <3>5, <3>6, <3>7 DEF Fresh
    <3>9. Stored(b, NoSlice, hs, [buffer |-> Len(b) + 1, length |-> NoSlice.length + Len(hs)], Append(b, f))
      BY <1>3, <1>5, <2>1, <3>8, StoredFresh
    <3>10. buffers' = Append(b, f)
      BY <1>6a, <2>3, <3>1, <3>3
    <3>11. t = [buffer |-> Len(b) + 1, length |-> NoSlice.length + Len(hs)]
      BY <1>6, <2>3, <3>7
    <3>12. QED
      BY <3>9, <3>10, <3>11
  <2>4. QED
    BY <2>2, <2>3
<1>8. t \in Slice /\ buffers' \in Seq(Seq(Handler))
  BY <1>7 DEF Stored
<1>9. PICK T, gs, new : /\ T = [prefix : Path, declared : Seq(Handler), slice : Slice] /\ gs = groups
                        /\ new = [prefix |-> prefix, declared |-> hs, slice |-> t]
  OBVIOUS
<1>10. new \in T /\ gs \in Seq(T) /\ new.declared = hs /\ new.slice = t
  BY <1>5, <1>8, <1>9 DEF ScriptTyped
<1>11. Extends(gs, new, groups')
  BY <1>6a, <1>9 DEF Extends
<1>12. PICK L : L = Len(gs)
  OBVIOUS
<1>13. /\ groups' \in Seq(T) /\ DOMAIN gs = 1 .. L /\ DOMAIN groups' = 1 .. L + 1
       /\ \A i \in DOMAIN gs : i \in DOMAIN groups' /\ groups'[i] = gs[i]
       /\ \A i \in DOMAIN groups' \ DOMAIN gs : i = L + 1
       /\ groups'[L + 1] = new
  BY <1>10, <1>11, <1>12, ExtendsIs
<1>14. made' = made + Len(hs) /\ made' \in Nat /\ calls' \in Nat /\ UNCHANGED <<middleware, pending, routes>>
  BY <1>1, <1>3, <1>4, <1>5 DEF Group, ScriptCalls
<1>15. ScriptTyped'
  BY <1>8, <1>9, <1>13, <1>14 DEF ScriptTyped
<1>16. Grows
  <2>1. \A e \in DOMAIN groups : e \in DOMAIN groups' /\ groups'[e] = groups[e]
    BY <1>9, <1>13
  <2>2. QED
    BY <1>14, <2>1 DEF Grows
<1>17. <<>> \o hs = hs
  BY <1>5
<1>18. ASSUME NEW e \in DOMAIN groups'
       PROVE  \/ e \in DOMAIN groups /\ groups'[e].slice = groups[e].slice /\ groups'[e].declared = groups[e].declared
              \/ groups'[e].slice = t /\ groups'[e].declared = hs /\ e = Len(groups) + 1
  BY <1>9, <1>10, <1>12, <1>13
<1>19. DOMAIN routes' \ DOMAIN routes = {}
  BY <1>14
<1>20. Source(0, NoSlice, <<>>)
  BY DEF Source
<1>21. PICK front : front = <<>>
  OBVIOUS
<1>22. front \o hs = hs /\ Source(0, NoSlice, front)
  BY <1>17, <1>20, <1>21
<1>23. Appends(0, NoSlice, front, hs, t)
  BY <1>2, <1>5, <1>7, <1>14, <1>16, <1>18, <1>19, <1>22 DEF Appends
<1>24. QED
  BY <1>15, <1>23 DEF Appended

-----------------------------------------------------------------------------
(* What an action of the script leaves to the requests: the lists they     *)
(* read only grow.                                                         *)
Continues == Len(Known) <= Len(Known') /\ \A j \in 1 .. Len(Known) : Known'[j] = Known[j]
ScriptMoves ==
  /\ ScriptTyped' /\ GroupsInv' /\ RoutesInv' /\ MiddlewareInv' /\ Grows /\ Continues
  /\ UNCHANGED <<setup, wants, requestVars>>

LEMMA KnownTyped == ScriptTyped => Known \in Seq(Handler) /\ Len(Known) \in Nat /\ DOMAIN Known = 1 .. Len(Known)
<1> SUFFICES ASSUME ScriptTyped PROVE Known \in Seq(Handler) /\ Len(Known) \in Nat /\ DOMAIN Known = 1 .. Len(Known)
  OBVIOUS
<1>1. PICK k : k = Known
  OBVIOUS
<1>2. k \in Seq(Handler)
  BY <1>1 DEF ScriptTyped, Known
<1>3. QED
  BY <1>1, <1>2

LEMMA ListsMove ==
  ASSUME ScriptTyped, MiddlewareInv, UNCHANGED <<middleware, pending>>
  PROVE  Continues /\ MiddlewareInv'
<1>1. Known' = Known
  BY DEF Known
<1>2. Len(Known) \in Nat
  BY KnownTyped
<1>3. Continues
  BY <1>1, <1>2 DEF Continues
<1>4. QED
  BY <1>1, <1>3 DEF MiddlewareInv

LEMMA AppendedMoves ==
  ASSUME ScriptTyped, GroupsInv, RoutesInv, MiddlewareInv, Appended, ScriptTyped',
         UNCHANGED <<middleware, pending>>, UNCHANGED <<setup, wants, requestVars>>
  PROVE  ScriptMoves
<1>1. PICK g, s, front, hs, t : Appends(g, s, front, hs, t)
  BY DEF Appended
<1>2. GroupsInv'
  BY <1>1, GroupsStay
<1>3. RoutesInv'
  BY <1>1, RoutesStay
<1>4. Grows
  BY <1>1 DEF Appends
<1>5. Continues /\ MiddlewareInv'
  BY ListsMove
<1>6. QED
  BY <1>2, <1>3, <1>4, <1>5 DEF ScriptMoves

LEMMA UseMoves ==
  ASSUME SetupsTyped, setup \in Setups, ScriptTyped, GroupsInv, RoutesInv, MiddlewareInv, Use
  PROVE  ScriptMoves
<1>1. PICK hs \in Handlers({<<d>> : d \in setup.guards}) : pending' = middleware \o hs /\ made' = made + 1
  BY DEF Use
<1>2. /\ UNCHANGED <<middleware, groups, routes, buffers>> /\ UNCHANGED <<setup, wants, requestVars>>
      /\ pending = <<>> /\ calls' = calls + 1
  BY DEF Use, ScriptCalls
<1>3. PICK m, list : m = middleware /\ list = middleware \o hs
  OBVIOUS
<1>4. made \in Nat /\ m \in Seq(Handler) /\ calls \in Nat
  BY <1>3 DEF ScriptTyped
<1>5. hs \in Seq(Handler) /\ (\A i \in DOMAIN hs : hs[i].id = made + i) /\ Len(hs) = 1
  <2>1. PICK lists : lists = {<<d>> : d \in setup.guards}
    OBVIOUS
  <2>2. lists \subseteq Seq(Doing) /\ hs \in Handlers(lists) /\ \A l \in lists : Len(l) = 1
    BY <2>1, SetupIs
  <2>3. QED
    BY <1>4, <2>2, HandlersTyped
<1>6. PICK n : n = Len(m)
  OBVIOUS
<1>7. /\ list \in Seq(Handler) /\ Len(list) = n + 1 /\ n \in Nat
      /\ DOMAIN m = 1 .. n /\ DOMAIN list = 1 .. n + 1
      /\ (\A i \in 1 .. n : list[i] = m[i]) /\ list[n + 1] = hs[1]
  <2>0. m \in Seq(Handler) /\ hs \in Seq(Handler)
    BY <1>4, <1>5
  <2>1. /\ m \o hs \in Seq(Handler) /\ Len(m \o hs) = Len(m) + Len(hs) /\ Len(m) \in Nat
        /\ \A i \in DOMAIN m : i \in DOMAIN (m \o hs) /\ (m \o hs)[i] = m[i]
        /\ \A i \in DOMAIN hs : Len(m) + i \in DOMAIN (m \o hs) /\ (m \o hs)[Len(m) + i] = hs[i]
    BY <2>0, JoinIs
  <2>2. DOMAIN m = 1 .. n /\ 1 \in DOMAIN hs
    BY <1>4, <1>5, <1>6
  <2>3. list = m \o hs
    BY <1>3
  <2>4. Len(list) = n + 1 /\ list \in Seq(Handler) /\ n \in Nat
    BY <1>5, <1>6, <2>1, <2>3
  <2>5. DOMAIN list = 1 .. n + 1
    BY <2>4
  <2>6. QED
    BY <1>6, <2>1, <2>2, <2>3, <2>4, <2>5
<1>8. Known = m /\ Known' = list
  <2>1. list # <<>>
    BY <1>7
  <2>2. QED
    BY <1>1, <1>2, <1>3, <2>1 DEF Known
<1>9. Continues
  BY <1>6, <1>7, <1>8 DEF Continues
<1>10. hs[1] # Nobody
  <2>1. hs[1].id = made + 1
    BY <1>5
  <2>2. hs[1].id # 0
    BY <1>4, <2>1
  <2>3. QED
    BY <2>2 DEF Nobody
<1>11. MiddlewareInv'
  <2>1. \A j \in DOMAIN m : m[j] # Nobody
    BY <1>8 DEF MiddlewareInv
  <2>2. \A j \in DOMAIN list : j \in DOMAIN m \/ j = n + 1
    BY <1>7
  <2>3. \A j \in DOMAIN list : list[j] # Nobody
    BY <1>7, <1>10, <2>1, <2>2
  <2>4. middleware' = m /\ Len(m) <= Len(list)
    BY <1>2, <1>3, <1>6, <1>7
  <2>5. QED
    BY <1>7, <1>8, <2>3, <2>4 DEF MiddlewareInv
<1>12. ScriptTyped'
  <2>1. pending' \in Seq(Handler) /\ made' \in Nat /\ calls' \in Nat
    BY <1>1, <1>2, <1>3, <1>4, <1>7
  <2>2. QED
    BY <1>2, <2>1 DEF ScriptTyped
<1>13. Grows
  BY <1>2 DEF Grows
<1>14. made <= made'
  BY <1>1, <1>4
<1>15. \A l \in Seq(Handler) : (\A j \in DOMAIN l : l[j].id <= made) => \A j \in DOMAIN l : l[j].id <= made'
  <2> SUFFICES ASSUME NEW l \in Seq(Handler), NEW j \in DOMAIN l, l[j].id <= made PROVE l[j].id <= made'
    OBVIOUS
  <2>1. l[j] \in Handler
    OBVIOUS
  <2>2. l[j].id \in Nat
    BY <2>1 DEF Handler
  <2>3. QED
    BY <1>1, <1>4, <2>2
<1>16. GroupsInv'
  <2>1. ASSUME NEW g \in DOMAIN groups PROVE Made(groups[g].declared)'
    <3>1. groups[g].declared \in Seq(Handler) /\ Made(groups[g].declared)
      BY GroupTyped DEF GroupsInv
    <3>2. groups'[g].declared = groups[g].declared
      BY <1>2
    <3>3. QED
      BY <1>15, <3>1, <3>2 DEF Made
  <2>2. QED
    BY <1>2, <2>1 DEF GroupsInv, Holds
<1>17. RoutesInv'
  <2>1. ASSUME NEW i \in DOMAIN routes PROVE Made(routes[i].registered)'
    <3>1. routes[i].registered \in Seq(Handler) /\ Made(routes[i].registered)
      BY RouteTyped DEF RoutesInv
    <3>2. routes'[i].registered = routes[i].registered
      BY <1>2
    <3>3. QED
      BY <1>15, <3>1, <3>2 DEF Made
  <2>2. QED
    BY <1>2, <2>1 DEF RoutesInv, Holds, Kept, OfGroup
<1>18. QED
  BY <1>2, <1>9, <1>11, <1>12, <1>13, <1>16, <1>17 DEF ScriptMoves

LEMMA UseReturnsMoves ==
  ASSUME ScriptTyped, GroupsInv, RoutesInv, MiddlewareInv, UseReturns
  PROVE  ScriptMoves
<1>1. /\ pending # <<>> /\ middleware' = pending /\ pending' = <<>>
      /\ UNCHANGED <<setup, wants, groups, routes, buffers, made, calls, requestVars>>
  BY DEF UseReturns
<1>2. Known' = Known /\ middleware' = Known
  BY <1>1 DEF Known
<1>3. Known \in Seq(Handler) /\ Len(Known) \in Nat /\ DOMAIN Known = 1 .. Len(Known)
  BY KnownTyped
<1>4. Continues
  BY <1>2, <1>3 DEF Continues
<1>5. MiddlewareInv'
  BY <1>2, <1>3 DEF MiddlewareInv
<1>6. ScriptTyped'
  <2>1. middleware' \in Seq(Handler) /\ pending' \in Seq(Handler)
    BY <1>1 DEF ScriptTyped
  <2>2. QED
    BY <1>1, <2>1 DEF ScriptTyped
<1>7. Grows
  BY <1>1 DEF Grows
<1>8. GroupsInv' /\ RoutesInv'
  BY <1>1 DEF GroupsInv, RoutesInv, Holds, Made, Kept, OfGroup
<1>9. QED
  BY <1>1, <1>4, <1>5, <1>6, <1>7, <1>8 DEF ScriptMoves

LEMMA ScriptStep ==
  ASSUME SetupsTyped, TypeOK, GroupsInv, RoutesInv, MiddlewareInv,
         Use \/ UseReturns \/ Handle \/ Group \/ GroupUse \/ GroupHandle
  PROVE  ScriptMoves
<1>1. setup \in Setups /\ ScriptTyped
  BY DEF TypeOK
<1>2. CASE Use
  BY <1>1, <1>2, UseMoves
<1>3. CASE UseReturns
  BY <1>1, <1>3, UseReturnsMoves
<1>4. CASE Handle
  <2>1. Appended /\ ScriptTyped'
    BY <1>1, <1>4, HandleAppends
  <2>2. UNCHANGED <<middleware, pending>> /\ UNCHANGED <<setup, wants, requestVars>>
    BY <1>4 DEF Handle, ScriptCalls
  <2>3. QED
    BY <1>1, <2>1, <2>2, AppendedMoves
<1>5. CASE Group
  <2>1. Appended /\ ScriptTyped'
    BY <1>1, <1>5, GroupAppends
  <2>2. UNCHANGED <<middleware, pending>> /\ UNCHANGED <<setup, wants, requestVars>>
    BY <1>5 DEF Group, ScriptCalls
  <2>3. QED
    BY <1>1, <2>1, <2>2, AppendedMoves
<1>6. CASE GroupUse
  <2>1. Appended /\ ScriptTyped'
    BY <1>1, <1>6, GroupUseAppends
  <2>2. UNCHANGED <<middleware, pending>> /\ UNCHANGED <<setup, wants, requestVars>>
    BY <1>6 DEF GroupUse, ScriptCalls
  <2>3. QED
    BY <1>1, <2>1, <2>2, AppendedMoves
<1>7. CASE GroupHandle
  <2>1. Appended /\ ScriptTyped'
    BY <1>1, <1>7, GroupHandleAppends
  <2>2. UNCHANGED <<middleware, pending>> /\ UNCHANGED <<setup, wants, requestVars>>
    BY <1>7 DEF GroupHandle, ScriptCalls
  <2>3. QED
    BY <1>1, <2>1, <2>2, AppendedMoves
<1>8. QED
  BY <1>2, <1>3, <1>4, <1>5, <1>6, <1>7

LEMMA RequestTyped ==
  RequestsTyped => \A q \in setup.clients :
    /\ at[q] \in {"idle", "global", "route", "done"} /\ chain[q] \in Seq(Handler) /\ installed[q] \in Seq(Handler)
    /\ routed[q] \in Nat /\ knew[q] \in Nat /\ answer[q] \in Answer
    /\ log[q].global \in Seq(Handler) /\ log[q].route \in Seq(Handler)
<1> SUFFICES ASSUME RequestsTyped, NEW q \in setup.clients
             PROVE  /\ at[q] \in {"idle", "global", "route", "done"} /\ chain[q] \in Seq(Handler)
                    /\ installed[q] \in Seq(Handler) /\ routed[q] \in Nat /\ knew[q] \in Nat /\ answer[q] \in Answer
                    /\ log[q].global \in Seq(Handler) /\ log[q].route \in Seq(Handler)
  OBVIOUS
<1>1. PICK H : H = Seq(Handler)
  OBVIOUS
<1>2. /\ at[q] \in {"idle", "global", "route", "done"} /\ chain[q] \in H /\ installed[q] \in H
      /\ routed[q] \in Nat /\ knew[q] \in Nat /\ answer[q] \in Answer
  BY <1>1 DEF RequestsTyped
<1>3. log[q] \in [global : H, route : H]
  BY <1>1 DEF RequestsTyped
<1>4. log[q].global \in H /\ log[q].route \in H
  BY <1>3
<1>5. QED
  BY <1>1, <1>2, <1>4

LEMMA ScriptKeepsRequests ==
  ASSUME TypeOK, RoutesInv, ScriptMoves, NEW q \in setup.clients, RequestInv(q)
  PROVE  RequestInv(q)'
<1>1. /\ UNCHANGED <<setup, wants>>
      /\ UNCHANGED <<at, chain, routed, params, answer, crashed, log, installed, knew>>
      /\ Grows /\ Continues /\ ScriptTyped /\ ScriptTyped'
  BY DEF ScriptMoves, requestVars, TypeOK
<1>2. PICK l, list, ch, ran : l = Len(routes) /\ list = log[q].route /\ ch = chain[q] /\ ran = log[q].global
  OBVIOUS
<1>3. /\ l \in Nat /\ DOMAIN routes = 1 .. l /\ Len(routes') \in Nat /\ DOMAIN routes' = 1 .. Len(routes')
      /\ routed[q] \in Nat /\ knew[q] \in Nat /\ ch \in Seq(Handler) /\ ran \in Seq(Handler)
  <2>1. RequestsTyped
    BY DEF TypeOK
  <2>2. QED
    BY <1>1, <1>2, <2>1, RequestTyped DEF ScriptTyped
<1>4. \A i \in 1 .. l : routes'[i] = routes[i]
  BY <1>1, <1>3 DEF Grows
<1>5. l <= Len(routes')
  <2>1. l = 0 \/ l \in 1 .. Len(routes')
    BY <1>1, <1>3 DEF Grows
  <2>2. QED
    BY <1>3, <2>1
<1>6. ListInv(q)'
  <2>1. PICK s, n : s = ran \o ch /\ n = Len(s)
    OBVIOUS
  <2>2. s \in Seq(Handler) /\ n \in Nat /\ DOMAIN s = 1 .. n
    BY <1>3, <2>1
  <2>3. Seen(q) = s /\ Seen(q)' = s
    BY <1>1, <1>2, <2>1 DEF Seen
  <2>4. PICK k, m : k = Len(Known) /\ m = Len(Known')
    OBVIOUS
  <2>5. k \in Nat /\ m \in Nat /\ k <= m
    <3>1. k \in Nat
      BY <1>1, <2>4, KnownTyped
    <3>2. ScriptTyped' => Known' \in Seq(Handler)
      BY DEF ScriptTyped, Known
    <3>3. QED
      BY <1>1, <2>4, <3>1, <3>2 DEF Continues
  <2>6. n <= k /\ IsPrefix(installed[q], s) /\ \A j \in 1 .. n : s[j] = Known[j] \/ (s[j] = Nobody /\ j = n)
    BY <2>1, <2>2, <2>3, <2>4 DEF RequestInv, ListInv
  <2>7. \A j \in 1 .. n : Known'[j] = Known[j]
    <3>1. \A j \in 1 .. n : j \in 1 .. k
      BY <2>2, <2>5, <2>6
    <3>2. QED
      BY <1>1, <2>4, <3>1 DEF Continues
  <2>8. n <= m
    BY <2>2, <2>5, <2>6
  <2>9. QED
    BY <1>1, <2>1, <2>2, <2>3, <2>4, <2>6, <2>7, <2>8 DEF ListInv
<1>7. routed[q] <= l /\ knew[q] <= l
  BY <1>2 DEF RequestInv, RouteInv
<1>8. routed[q] # 0 => routed[q] \in 1 .. l /\ routes'[routed[q]] = routes[routed[q]]
  BY <1>3, <1>4, <1>7
<1>9. RouteInv(q)'
  <2>1. /\ at[q] \in {"idle", "global"} => list = <<>> /\ routed[q] = 0 /\ knew[q] = 0
        /\ list # <<>> \/ at[q] = "route" => ch = <<>> /\ routed[q] # 0
        /\ at[q] = "route" => Len(list) < Len(routes[routed[q]].registered)
        /\ \A j \in DOMAIN list : Kept(routes[routed[q]], j, list[j])
    BY <1>2 DEF RequestInv, RouteInv
  <2>2. ASSUME NEW j \in DOMAIN list PROVE Kept(routes[routed[q]], j, list[j])'
    <3>1. list # <<>>
      BY <2>2
    <3>2. PICK r, h : r = routes[routed[q]] /\ h = list[j]
      OBVIOUS
    <3>3. routed[q] \in DOMAIN routes /\ routes'[routed[q]] = r
      BY <1>3, <1>8, <2>1, <3>1, <3>2
    <3>4. r.group # 0 => r.group \in DOMAIN groups
      BY <3>2, <3>3 DEF RoutesInv
    <3>5. KeptIn(groups, routes, r, j, h)
      BY <2>1, <2>2, <3>2, KeptIs
    <3>6. KeptIn(groups', routes', r, j, h)
      BY <1>1, <3>4, <3>5, KeptStays
    <3>7. (routes[routed[q]])' = r
      BY <1>1, <3>3
    <3>8. Kept(r, j, h)'
      BY <3>6 DEF Kept, KeptIn, OfGroup, OfGroupIn
    <3>9. QED
      BY <3>2, <3>7, <3>8 DEF Kept, OfGroup
  <2>3. at[q] = "route" => Len(list) < Len(routes'[routed[q]].registered)
    BY <1>8, <2>1
  <2>4. routed[q] <= Len(routes') /\ knew[q] <= Len(routes')
    BY <1>3, <1>5, <1>7
  <2>5. QED
    BY <1>1, <1>2, <2>1, <2>2, <2>3, <2>4 DEF RouteInv
<1>10. RoutedRight(q)'
  <2>1. \A k \in 1 .. (IF routed[q] = 0 THEN knew[q] ELSE routed[q] - 1) : k \in 1 .. l
    BY <1>3, <1>7
  <2>2. \A k \in 1 .. (IF routed[q] = 0 THEN knew[q] ELSE routed[q] - 1) : routes'[k] = routes[k]
    BY <1>4, <2>1
  <2>3. RoutedRight(q)
    BY DEF RequestInv
  <2>4. QED
    BY <1>1, <1>8, <2>2, <2>3 DEF RoutedRight
<1>11. AnswerInv(q)'
  <2>1. AnswerInv(q)
    BY DEF RequestInv
  <2>2. QED
    BY <1>1, <2>1 DEF AnswerInv, AnsweredRight, Said, Ran
<1>12. QED
  BY <1>6, <1>9, <1>10, <1>11 DEF RequestInv

-----------------------------------------------------------------------------
(* The requests.  Those of others stay as they are.                        *)
Stays(p) ==
  /\ at'[p] = at[p] /\ chain'[p] = chain[p] /\ routed'[p] = routed[p] /\ params'[p] = params[p]
  /\ answer'[p] = answer[p] /\ log'[p] = log[p] /\ installed'[p] = installed[p] /\ knew'[p] = knew[p]
RequestMoves(q) ==
  /\ RequestsTyped' /\ RequestInv(q)' /\ UNCHANGED <<setup, wants, scriptVars>>
  /\ \A p \in setup.clients : p # q => Stays(p)

(* AnswerInv behind a step.                                                *)
AnswerNow(q, a, ran, method, here, to) ==
  /\ answer'[q] = a /\ Ran(q)' = ran /\ wants'[q].method = method /\ at'[q] = here /\ routed'[q] = to
  /\ here = "idle" => log'[q].global = <<>>

LEMMA AnswerNext ==
  ASSUME NEW q, NEW a, NEW ran, NEW method, NEW here, NEW to,
         AnswerNow(q, a, ran, method, here, to), AnswerOf(a, ran, method, here, to)
  PROVE  AnswerInv(q)'
<1>1. /\ answer'[q] = a /\ Ran(q)' = ran /\ wants'[q].method = method /\ at'[q] = here /\ routed'[q] = to
      /\ here = "idle" => log'[q].global = <<>>
  BY DEF AnswerNow
<1>2. PICK T : T = {j \in DOMAIN ran : Voices(ran[j], method) # {}}
  OBVIOUS
<1>3. T # {} <=> ~Quiet(ran, method)
  BY <1>2 DEF Quiet
<1>4. Spoken(ran, method) = Says(ran[Min(T)].does[Min(Voices(ran[Min(T)], method))])
  BY <1>2 DEF Spoken
<1>5. Said(q)' = IF T # {} THEN Says(ran[Min(T)].does[Min(Voices(ran[Min(T)], method))])
                 ELSE IF here = "done" /\ to = 0 /\ (\A j \in DOMAIN ran : ~Ends(ran[j], method))
                      THEN 404 ELSE 0
  BY <1>1, <1>2 DEF Said
<1>6. Said(q)' = SaidOf(ran, method, here, to)
  BY <1>3, <1>4, <1>5 DEF SaidOf
<1>7. AnsweredRight(q)'
  BY <1>1, <1>6 DEF AnsweredRight, AnswerOf
<1>8. QED
  BY <1>1, <1>7 DEF AnswerInv, AnswerOf

LEMMA OthersStay ==
  ASSUME NEW p, Stays(p), RequestInv(p), UNCHANGED <<setup, wants, scriptVars>>
  PROVE  RequestInv(p)'
<1>1. UNCHANGED <<setup, wants, middleware, pending, groups, routes, buffers, made, calls>>
  BY DEF scriptVars
<1>2. ListInv(p)'
  BY <1>1 DEF RequestInv, ListInv, Seen, Known, Stays
<1>3. RouteInv(p)'
  <2>1. PICK list, r : list = log[p].route /\ r = routes[routed[p]]
    OBVIOUS
  <2>2. log'[p].route = list /\ (routes[routed[p]])' = r /\ Len(routes') = Len(routes)
    BY <1>1, <2>1 DEF Stays
  <2>3. ASSUME NEW j \in DOMAIN list PROVE Kept(routes[routed[p]], j, log[p].route[j])'
    <3>1. PICK h : h = list[j]
      OBVIOUS
    <3>2. Kept(r, j, h)
      BY <2>1, <2>3, <3>1 DEF RequestInv, RouteInv
    <3>3. Kept(r, j, h)'
      BY <1>1, <3>2 DEF Kept, OfGroup
    <3>4. (log[p].route[j])' = h
      BY <2>2, <3>1
    <3>5. QED
      BY <2>2, <3>3, <3>4 DEF Kept, OfGroup
  <2>4. /\ at[p] \in {"idle", "global"} => list = <<>> /\ routed[p] = 0 /\ knew[p] = 0
        /\ list # <<>> \/ at[p] = "route" => chain[p] = <<>> /\ routed[p] # 0
        /\ at[p] = "route" => Len(list) < Len(r.registered)
        /\ routed[p] <= Len(routes) /\ knew[p] <= Len(routes)
    BY <2>1 DEF RequestInv, RouteInv
  <2>5. \A j \in DOMAIN log'[p].route : Kept(routes[routed[p]], j, log[p].route[j])'
    BY <2>2, <2>3
  <2>6. /\ at'[p] \in {"idle", "global"} => log'[p].route = <<>> /\ routed'[p] = 0 /\ knew'[p] = 0
        /\ log'[p].route # <<>> \/ at'[p] = "route" => chain'[p] = <<>> /\ routed'[p] # 0
        /\ at'[p] = "route" => Len(log'[p].route) < Len((routes[routed[p]])'.registered)
        /\ routed'[p] <= Len(routes') /\ knew'[p] <= Len(routes')
    BY <2>2, <2>4 DEF Stays
  <2>7. QED
    BY <2>5, <2>6 DEF RouteInv
<1>4. RoutedRight(p)'
  BY <1>1 DEF RequestInv, RoutedRight, Stays
<1>5. AnswerInv(p)'
  <2>1. PICK a, ran, method, here, to :
          a = answer[p] /\ ran = Ran(p) /\ method = wants[p].method /\ here = at[p] /\ to = routed[p]
    OBVIOUS
  <2>2. AnswerOf(a, ran, method, here, to) /\ (here = "idle" => log[p].global = <<>>)
    BY <2>1, AnswerIs DEF RequestInv
  <2>3. AnswerNow(p, a, ran, method, here, to)
    BY <1>1, <2>1, <2>2 DEF AnswerNow, Ran, Stays
  <2>4. QED
    BY <2>2, <2>3, AnswerNext
<1>6. QED
  BY <1>2, <1>3, <1>4, <1>5 DEF RequestInv

LEMMA PrefixIs ==
  ASSUME NEW T, NEW x \in Seq(T), NEW y \in Seq(T)
  PROVE  IsPrefix(x, y) <=> Len(x) <= Len(y) /\ \A j \in 1 .. Len(x) : x[j] = y[j]
<1>1. PICK n : n = Len(x)
  OBVIOUS
<1>2. n \in Nat /\ Len(y) \in Nat
  BY <1>1
<1>3. ASSUME n <= Len(y) PROVE SubSeq(x, 1, n) = SubSeq(y, 1, n) <=> \A j \in 1 .. n : x[j] = y[j]
  <2>1. PICK u, v : u = SubSeq(x, 1, n) /\ v = SubSeq(y, 1, n)
    OBVIOUS
  <2>2. u \in Seq(T) /\ Len(u) = n /\ \A j \in 1 .. n : u[j] = x[j]
    BY <1>1, <1>2, <2>1
  <2>3. v \in Seq(T) /\ Len(v) = n /\ \A j \in 1 .. n : v[j] = y[j]
    BY <1>2, <1>3, <2>1
  <2>4. (\A j \in 1 .. n : u[j] = v[j]) => u = v
    BY <2>2, <2>3
  <2>5. QED
    BY <2>1, <2>2, <2>3, <2>4
<1>4. QED
  BY <1>1, <1>3 DEF IsPrefix

LEMMA ReadableIs ==
  ASSUME ScriptTyped, MiddlewareInv, NEW seen \in Readable
  PROVE  /\ seen \in Seq(Handler) /\ IsPrefix(middleware, seen) /\ Len(seen) <= Len(Known)
         /\ \A j \in DOMAIN seen : seen[j] = Known[j] \/ (seen[j] = Nobody /\ j = Len(seen))
<1>1. PICK m, k, n : m = middleware /\ k = Known /\ n = Len(m)
  OBVIOUS
<1>2. /\ m \in Seq(Handler) /\ k \in Seq(Handler) /\ Len(k) \in Nat /\ n \in Nat /\ DOMAIN m = 1 .. n
      /\ n <= Len(k) /\ \A j \in 1 .. n : m[j] = k[j]
  <2>1. m \in Seq(Handler) /\ k \in Seq(Handler) /\ Len(k) \in Nat
    BY <1>1, KnownTyped DEF ScriptTyped
  <2>2. n \in Nat /\ DOMAIN m = 1 .. n
    BY <1>1, <2>1
  <2>3. QED
    BY <1>1, <2>1, <2>2 DEF MiddlewareInv
<1>3. CASE seen = m
  <2>1. IsPrefix(m, m)
    BY <1>1, <1>2, PrefixIs
  <2>2. QED
    BY <1>1, <1>2, <1>3, <2>1
<1>4. CASE seen = k
  <2>1. IsPrefix(m, k)
    BY <1>1, <1>2, PrefixIs
  <2>2. QED
    BY <1>1, <1>2, <1>4, <2>1
<1>5. CASE Torn /\ seen = Append(m, Nobody)
  <2>1. k = pending
    BY <1>1, <1>5 DEF Torn, Known
  <2>2. Len(k) # n
    BY <1>1, <1>5, <2>1 DEF Torn
  <2>3. n + 1 <= Len(k)
    BY <1>2, <2>2
  <2>4. /\ seen \in Seq(Handler) /\ Len(seen) = n + 1 /\ DOMAIN seen = 1 .. n + 1
        /\ (\A j \in 1 .. n : seen[j] = m[j]) /\ seen[n + 1] = Nobody
    <3>1. Nobody \in Handler /\ m \in Seq(Handler) /\ Extends(m, Nobody, seen)
      BY <1>2, <1>5, NobodyTyped DEF Extends
    <3>2. /\ seen \in Seq(Handler) /\ Len(seen) = Len(m) + 1 /\ DOMAIN m = 1 .. Len(m) /\ DOMAIN seen = 1 .. Len(m) + 1
          /\ \A i \in DOMAIN m : i \in DOMAIN seen /\ seen[i] = m[i]
          /\ seen[Len(m) + 1] = Nobody
      BY <3>1, ExtendsIs
    <3>3. QED
      BY <1>1, <3>2
  <2>5. IsPrefix(m, seen)
    <3>1. Len(m) <= Len(seen) /\ \A j \in 1 .. Len(m) : m[j] = seen[j]
      BY <1>1, <1>2, <2>4
    <3>2. QED
      BY <1>2, <2>4, <3>1, PrefixIs
  <2>6. \A j \in DOMAIN seen : j \in 1 .. n \/ j = n + 1
    BY <1>2, <2>4
  <2>7. QED
    BY <1>1, <1>2, <2>3, <2>4, <2>5, <2>6
<1>6. seen = m \/ (pending # <<>> /\ seen = pending) \/ (Torn /\ seen = Append(m, Nobody))
  BY <1>1 DEF Readable
<1>7. QED
  BY <1>1, <1>3, <1>4, <1>5, <1>6 DEF Known

LEMMA ArriveMoves ==
  ASSUME TypeOK, MiddlewareInv, NEW q \in setup.clients, RequestInv(q), Arrive(q)
  PROVE  RequestMoves(q)
<1>1. PICK seen \in Readable : chain' = [chain EXCEPT ![q] = seen]
  BY DEF Arrive
<1>2. /\ at[q] = "idle" /\ at' = [at EXCEPT ![q] = "global"]
      /\ installed' = [installed EXCEPT ![q] = middleware]
      /\ UNCHANGED <<setup, wants, scriptVars, routed, params, answer, crashed, log, knew>>
      /\ UNCHANGED <<middleware, pending, groups, routes, buffers, made, calls>>
  BY DEF Arrive, scriptVars
<1>3. ScriptTyped /\ RequestsTyped
  BY DEF TypeOK
<1>4. /\ seen \in Seq(Handler) /\ IsPrefix(middleware, seen) /\ Len(seen) <= Len(Known)
      /\ \A j \in DOMAIN seen : seen[j] = Known[j] \/ (seen[j] = Nobody /\ j = Len(seen))
  BY <1>3, ReadableIs
<1>5. /\ at'[q] = "global" /\ chain'[q] = seen /\ installed'[q] = middleware
      /\ \A p \in setup.clients : p # q => Stays(p)
  BY <1>1, <1>2, <1>3 DEF RequestsTyped, Stays
<1>6. log[q].global = <<>> /\ log[q].route = <<>> /\ routed[q] = 0 /\ knew[q] = 0
  BY <1>2 DEF RequestInv, RouteInv, AnswerInv
<1>7. ListInv(q)'
  <2>1. <<>> \o seen = seen
    BY <1>4
  <2>2. Seen(q)' = seen
    BY <1>2, <1>5, <1>6, <2>1 DEF Seen
  <2>3. Known' = Known
    BY <1>2 DEF Known
  <2>4. QED
    BY <1>4, <1>5, <2>2, <2>3 DEF ListInv
<1>8. RouteInv(q)'
  <2>1. /\ at'[q] = "global" /\ log'[q].route = <<>> /\ routed'[q] = 0 /\ knew'[q] = 0
        /\ routes' = routes /\ 0 <= Len(routes) /\ DOMAIN log'[q].route = {}
    BY <1>2, <1>3, <1>5, <1>6 DEF ScriptTyped
  <2>2. QED
    BY <2>1 DEF RouteInv
<1>9. RoutedRight(q)'
  BY <1>2 DEF RequestInv, RoutedRight
<1>10. AnswerInv(q)'
  <2>1. /\ Ran(q)' = Ran(q) /\ wants' = wants /\ answer' = answer /\ routed' = routed /\ at'[q] = "global"
    BY <1>2, <1>5 DEF Ran
  <2>2. AnswerInv(q)
    BY DEF RequestInv
  <2>3. QED
    BY <1>2, <2>1, <2>2 DEF AnswerInv, AnsweredRight, Said
<1>11. RequestsTyped'
  <2>1. chain' \in [setup.clients -> Seq(Handler)]
    BY <1>1, <1>3, <1>4 DEF RequestsTyped
  <2>2. installed' \in [setup.clients -> Seq(Handler)]
    BY <1>2, <1>3 DEF RequestsTyped, ScriptTyped
  <2>3. at' \in [setup.clients -> {"idle", "global", "route", "done"}]
    BY <1>2, <1>3 DEF RequestsTyped
  <2>4. QED
    BY <1>2, <1>3, <2>1, <2>2, <2>3 DEF RequestsTyped
<1>12. RequestInv(q)'
  BY <1>7, <1>8, <1>9, <1>10 DEF RequestInv
<1>13. QED
  BY <1>2, <1>5, <1>11, <1>12 DEF RequestMoves

LEMMA CallNobodyMoves ==
  ASSUME TypeOK, NEW q \in setup.clients, RequestInv(q), CallNobody(q)
  PROVE  RequestMoves(q)
<1>1. /\ crashed' = TRUE
      /\ UNCHANGED <<setup, wants, scriptVars, at, chain, routed, params, answer, log, installed, knew>>
  BY DEF CallNobody
<1>2. \A p \in setup.clients : Stays(p)
  BY <1>1 DEF Stays
<1>3. RequestInv(q)'
  BY <1>1, <1>2, OthersStay
<1>4. RequestsTyped'
  BY <1>1 DEF TypeOK, RequestsTyped
<1>5. QED
  BY <1>1, <1>2, <1>3, <1>4 DEF RequestMoves

(* An element goes from the head of one list to the end of another.        *)
LEMMA HeadGoes ==
  ASSUME NEW T, NEW x \in Seq(T), NEW y \in Seq(T), y # <<>>
  PROVE  /\ Head(y) \in T /\ Tail(y) \in Seq(T)
         /\ Append(x, Head(y)) \in Seq(T) /\ Append(x, Head(y)) \o Tail(y) = x \o y
<1>1. PICK h, r : h = Head(y) /\ r = Tail(y)
  OBVIOUS
<1>2. h \in T /\ r \in Seq(T)
  BY <1>1, HeadTailProperties
<1>3. y = <<h>> \o r /\ <<h>> \in Seq(T)
  BY <1>1, <1>2, HeadTailAppend
<1>4. Append(x, h) = x \o <<h>> /\ Append(x, h) \in Seq(T)
  BY <1>2, AppendIsConcat, AppendProperties
<1>5. (x \o <<h>>) \o r = x \o (<<h>> \o r)
  BY <1>2, <1>3, ConcatAssociative
<1>6. QED
  BY <1>1, <1>2, <1>3, <1>4, <1>5

LEMMA EndGoes ==
  ASSUME NEW T, NEW x \in Seq(T), NEW y \in Seq(T), NEW e \in T
  PROVE  x \o Append(y, e) = Append(x \o y, e)
<1>1. x \o y \in Seq(T) /\ <<e>> \in Seq(T)
  BY ConcatProperties
<1>2. Append(y, e) = y \o <<e>> /\ Append(x \o y, e) = (x \o y) \o <<e>>
  BY <1>1, AppendIsConcat
<1>3. (x \o y) \o <<e>> = x \o (y \o <<e>>)
  BY <1>1, ConcatAssociative
<1>4. QED
  BY <1>2, <1>3

(* One handler runs, and answers with c.                                   *)
RanTo(q, c, h, part, rest) ==
  /\ Replied(answer[q], c, h, wants[q].method)
  /\ answer' = [answer EXCEPT ![q] = c]
  /\ at' = [at EXCEPT ![q] = IF Ends(h, wants[q].method) THEN "done" ELSE rest]
  /\ log' = [log EXCEPT ![q][part] = Append(@, h)]

LEMMA RunIs ==
  ASSUME RequestsTyped, NEW q \in setup.clients, AnswerInv(q), at[q] # "done", NEW h \in Handler,
         NEW part, NEW rest, Run(q, h, part, rest)
  PROVE  /\ Running(answer[q]) /\ AnswerOf(answer[q], Ran(q), wants[q].method, at[q], routed[q])
         /\ \E c : RanTo(q, c, h, part, rest)
<1>1. AnswerOf(answer[q], Ran(q), wants[q].method, at[q], routed[q])
  BY AnswerIs
<1>2. answer[q] \in Answer
  BY RequestTyped
<1>3. Running(answer[q])
  BY <1>1, <1>2 DEF Running, AnswerOf
<1>4. PICK b : b = Handled(q, h)
  OBVIOUS
<1>5. PICK c : c = IF b.panicked THEN Recovered(b) ELSE b
  OBVIOUS
<1>6. (b.aborted \/ b.panicked <=> Ends(h, wants[q].method)) /\ Replied(answer[q], c, h, wants[q].method)
  BY <1>3, <1>4, <1>5, HandlerReplies
<1>7. /\ answer' = [answer EXCEPT ![q] = c]
      /\ at' = [at EXCEPT ![q] = IF b.panicked \/ b.aborted THEN "done" ELSE rest]
      /\ log' = [log EXCEPT ![q][part] = Append(@, h)]
  BY <1>4, <1>5 DEF Run
<1>8. at' = [at EXCEPT ![q] = IF Ends(h, wants[q].method) THEN "done" ELSE rest]
  BY <1>6, <1>7
<1>9. RanTo(q, c, h, part, rest)
  BY <1>6, <1>7, <1>8 DEF RanTo
<1>10. QED
  BY <1>1, <1>3, <1>9

(* What is left to the requests of others, and the types.                  *)
RanTyped(q, c, h, part, rest) ==
  /\ answer' \in [setup.clients -> Answer]
  /\ at' \in [setup.clients -> {"idle", "global", "route", "done"}]
  /\ log' \in [setup.clients -> [global : Seq(Handler), route : Seq(Handler)]]
  /\ answer'[q] = c /\ at'[q] = IF Ends(h, wants[q].method) THEN "done" ELSE rest
  /\ log'[q] = [log[q] EXCEPT ![part] = Append(@, h)]
  /\ \A p \in setup.clients : p # q => answer'[p] = answer[p] /\ at'[p] = at[p] /\ log'[p] = log[p]

LEMMA RunTyped ==
  ASSUME RequestsTyped, NEW q \in setup.clients, NEW h \in Handler, NEW c, NEW part \in {"global", "route"},
         NEW rest \in {"global", "route", "done"}, RanTo(q, c, h, part, rest)
  PROVE  RanTyped(q, c, h, part, rest)
<1>1. /\ answer' = [answer EXCEPT ![q] = c]
      /\ at' = [at EXCEPT ![q] = IF Ends(h, wants[q].method) THEN "done" ELSE rest]
      /\ log' = [log EXCEPT ![q][part] = Append(@, h)]
  BY DEF RanTo
<1>2. /\ answer \in [setup.clients -> Answer] /\ at \in [setup.clients -> {"idle", "global", "route", "done"}]
  BY DEF RequestsTyped
<1>3. c \in Answer
  BY DEF RanTo, Replied
<1>4. PICK H, L : H = Seq(Handler) /\ L = [global : H, route : H]
  OBVIOUS
<1>5. log \in [setup.clients -> L]
  BY <1>4 DEF RequestsTyped
<1>6. PICK l, new : l = log[q] /\ new = [l EXCEPT ![part] = Append(@, h)]
  OBVIOUS
<1>7. l \in L
  BY <1>5, <1>6
<1>8. l.global \in H /\ l.route \in H
  BY <1>4, <1>7
<1>9. Append(l.global, h) \in H /\ Append(l.route, h) \in H
  <2>1. l.global \in Seq(Handler) /\ l.route \in Seq(Handler)
    BY <1>4, <1>8
  <2>2. QED
    BY <1>4, <2>1, AppendProperties
<1>10. new \in L
  BY <1>4, <1>6, <1>7, <1>8, <1>9
<1>11. log' = [log EXCEPT ![q] = new]
  BY <1>1, <1>6
<1>12. log' \in [setup.clients -> L] /\ log'[q] = new /\ \A p \in setup.clients : p # q => log'[p] = log[p]
  BY <1>5, <1>10, <1>11
<1>13. QED
  BY <1>1, <1>2, <1>3, <1>4, <1>6, <1>12 DEF RanTyped

LEMMA RunGlobalMoves ==
  ASSUME TypeOK, NEW q \in setup.clients, RequestInv(q), RunGlobal(q)
  PROVE  RequestMoves(q)
<1>1. PICK h, rest, g, r, ch :
        h = Head(chain[q]) /\ rest = Tail(chain[q]) /\ g = log[q].global /\ r = log[q].route /\ ch = chain[q]
  OBVIOUS
<1>2. /\ at[q] = "global" /\ ch # <<>> /\ Run(q, h, "global", "global")
      /\ chain' = [chain EXCEPT ![q] = Tail(@)]
      /\ UNCHANGED <<setup, wants, scriptVars, routed, params, crashed, installed, knew>>
      /\ UNCHANGED <<middleware, pending, groups, routes, buffers, made, calls>>
  BY <1>1 DEF RunGlobal, scriptVars
<1>3. RequestsTyped /\ g \in Seq(Handler) /\ ch \in Seq(Handler)
  BY <1>1, RequestTyped DEF TypeOK
<1>4. /\ h \in Handler /\ rest \in Seq(Handler) /\ Append(g, h) \in Seq(Handler)
      /\ Append(g, h) \o rest = g \o ch
  <2>1. g \in Seq(Handler) /\ ch \in Seq(Handler) /\ ch # <<>>
    BY <1>2, <1>3
  <2>2. /\ Head(ch) \in Handler /\ Tail(ch) \in Seq(Handler)
        /\ Append(g, Head(ch)) \in Seq(Handler) /\ Append(g, Head(ch)) \o Tail(ch) = g \o ch
    BY <2>1, HeadGoes
  <2>3. h = Head(ch) /\ rest = Tail(ch)
    BY <1>1
  <2>4. QED
    BY <2>2, <2>3
<1>5. r = <<>> /\ routed[q] = 0 /\ knew[q] = 0
  BY <1>1, <1>2 DEF RequestInv, RouteInv
<1>6. /\ Running(answer[q]) /\ AnswerOf(answer[q], Ran(q), wants[q].method, at[q], routed[q])
      /\ \E c : RanTo(q, c, h, "global", "global")
  <2>1. AnswerInv(q) /\ at[q] # "done" /\ Run(q, h, "global", "global")
    BY <1>2 DEF RequestInv
  <2>2. QED
    BY <1>3, <1>4, <2>1, RunIs
<1>7. PICK c : RanTo(q, c, h, "global", "global")
  BY <1>6
<1>8. /\ answer' \in [setup.clients -> Answer]
      /\ at' \in [setup.clients -> {"idle", "global", "route", "done"}]
      /\ log' \in [setup.clients -> [global : Seq(Handler), route : Seq(Handler)]]
      /\ answer'[q] = c /\ at'[q] = IF Ends(h, wants[q].method) THEN "done" ELSE "global"
      /\ log'[q] = [log[q] EXCEPT !["global"] = Append(@, h)]
      /\ \A p \in setup.clients : p # q => answer'[p] = answer[p] /\ at'[p] = at[p] /\ log'[p] = log[p]
  <2>1. "global" \in {"global", "route"} /\ "global" \in {"global", "route", "done"}
    OBVIOUS
  <2>2. QED
    BY <1>3, <1>4, <1>7, <2>1, RunTyped DEF RanTyped
<1>9. log'[q].global = Append(g, h) /\ log'[q].route = <<>>
  <2>1. log[q] \in [global : Seq(Handler), route : Seq(Handler)]
    BY <1>3 DEF RequestsTyped
  <2>2. QED
    BY <1>1, <1>5, <1>8, <2>1
<1>10. chain'[q] = rest /\ chain' \in [setup.clients -> Seq(Handler)]
       /\ \A p \in setup.clients : p # q => chain'[p] = chain[p]
  <2>1. chain \in [setup.clients -> Seq(Handler)]
    BY <1>3 DEF RequestsTyped
  <2>2. chain' = [chain EXCEPT ![q] = rest]
    BY <1>1, <1>2
  <2>3. QED
    BY <1>4, <2>1, <2>2
<1>11. \A p \in setup.clients : p # q => Stays(p)
  BY <1>2, <1>8, <1>10 DEF Stays
<1>12. ListInv(q)'
  <2>1. Seen(q)' = Seen(q)
    BY <1>1, <1>4, <1>9, <1>10 DEF Seen
  <2>2. Known' = Known /\ installed' = installed
    BY <1>2 DEF Known
  <2>3. ListInv(q)
    BY DEF RequestInv
  <2>4. QED
    BY <2>1, <2>2, <2>3 DEF ListInv
<1>13. RouteInv(q)'
  <2>1. /\ at'[q] # "route" /\ log'[q].route = <<>> /\ routed'[q] = 0 /\ knew'[q] = 0
        /\ routes' = routes /\ 0 <= Len(routes) /\ DOMAIN log'[q].route = {}
    BY <1>2, <1>5, <1>8, <1>9 DEF TypeOK, ScriptTyped
  <2>2. QED
    BY <2>1 DEF RouteInv
<1>14. RoutedRight(q)'
  BY <1>2 DEF RequestInv, RoutedRight
<1>15. AnswerInv(q)'
  <2>1. PICK a, ran, method, here : /\ a = answer[q] /\ ran = Ran(q) /\ method = wants[q].method
                                    /\ here = IF Ends(h, method) THEN "done" ELSE "global"
    OBVIOUS
  <2>2. /\ ran = g /\ Ran(q)' = Append(ran, h)
    <3>1. g \o <<>> = g /\ Append(g, h) \o <<>> = Append(g, h)
      BY <1>3, <1>4
    <3>2. QED
      BY <1>1, <1>5, <1>9, <2>1, <3>1 DEF Ran
  <2>3. ran \in Seq(Handler) /\ Running(a) /\ AnswerOf(a, ran, method, "global", 0) /\ Replied(a, c, h, method)
    BY <1>2, <1>3, <1>5, <1>6, <1>7, <2>1, <2>2 DEF RanTo
  <2>4. "global" # "done" /\ ("global" = "done" => 0 # 0)
    OBVIOUS
  <2>5. AnswerOf(c, Append(ran, h), method, IF Ends(h, method) THEN "done" ELSE "global", 0)
    BY <1>4, <2>3, <2>4, AnswerRuns
  <2>6. PICK more : more = Append(ran, h)
    OBVIOUS
  <2>7. AnswerOf(c, more, method, here, 0)
    BY <2>1, <2>5, <2>6
  <2>8. AnswerNow(q, c, more, method, here, 0)
    BY <1>2, <1>5, <1>8, <2>1, <2>2, <2>6 DEF AnswerNow
  <2>9. QED
    BY <2>7, <2>8, AnswerNext
<1>16. RequestsTyped'
  BY <1>2, <1>3, <1>8, <1>10 DEF RequestsTyped
<1>17. RequestInv(q)'
  BY <1>12, <1>13, <1>14, <1>15 DEF RequestInv
<1>18. QED
  BY <1>2, <1>11, <1>16, <1>17 DEF RequestMoves

LEMMA RunRouteMoves ==
  ASSUME TypeOK, RoutesInv, NEW q \in setup.clients, RequestInv(q), RunRoute(q)
  PROVE  RequestMoves(q)
<1>1. PICK list, k, h, rest, g, r, i : /\ list = Elements(routes[routed[q]].slice) /\ k = Len(log[q].route) + 1
                                       /\ h = list[k] /\ rest = IF k = Len(list) THEN "done" ELSE "route"
                                       /\ g = log[q].global /\ r = log[q].route /\ i = routed[q]
  OBVIOUS
<1>2. /\ at[q] = "route" /\ Run(q, h, "route", rest)
      /\ UNCHANGED <<setup, wants, scriptVars, chain, routed, params, crashed, installed, knew>>
      /\ UNCHANGED <<middleware, pending, groups, routes, buffers, made, calls>>
  BY <1>1 DEF RunRoute, scriptVars
<1>3. RequestsTyped /\ ScriptTyped /\ g \in Seq(Handler) /\ r \in Seq(Handler) /\ i \in Nat /\ Len(r) \in Nat
  BY <1>1, RequestTyped DEF TypeOK
<1>4. /\ chain[q] = <<>> /\ i # 0 /\ Len(r) < Len(routes[i].registered) /\ i <= Len(routes)
      /\ \A j \in DOMAIN r : Kept(routes[i], j, r[j])
  BY <1>1, <1>2 DEF RequestInv, RouteInv
<1>5. i \in DOMAIN routes
  BY <1>3, <1>4 DEF ScriptTyped
<1>6. PICK s, own, b : s = routes[i].slice /\ own = routes[i].registered /\ b = buffers[s.buffer]
  OBVIOUS
<1>7. /\ own \in Seq(Handler) /\ s \in Slice /\ s.length \in Nat /\ Len(own) \in Nat /\ s.length = Len(own)
      /\ s.buffer # 0 /\ s.buffer \in DOMAIN buffers /\ s.length <= Len(b)
      /\ \A j \in DOMAIN own : Kept(routes[i], j, b[j])
  <2>1. own \in Seq(Handler) /\ s \in Slice
    BY <1>3, <1>5, <1>6, RouteTyped
  <2>2. s.length \in Nat /\ Len(own) \in Nat
    BY <2>1 DEF Slice
  <2>3. Holds(s) /\ s.length = Len(own) /\ \A j \in DOMAIN own : Kept(routes[i], j, b[j])
    BY <1>5, <1>6 DEF RoutesInv
  <2>4. s.length # 0
    BY <1>3, <1>4, <1>6, <2>2, <2>3
  <2>5. QED
    BY <1>6, <2>1, <2>2, <2>3, <2>4 DEF Holds
<1>8. b \in Seq(Handler)
  <2>1. buffers \in Seq(Seq(Handler))
    BY <1>3 DEF ScriptTyped
  <2>2. QED
    BY <1>6, <1>7, <2>1
<1>9. /\ k \in 1 .. Len(own) /\ k \in DOMAIN own /\ h \in Handler /\ h = b[k] /\ Len(list) = Len(own) /\ k = Len(r) + 1
  <2>1. k = Len(r) + 1 /\ k \in 1 .. s.length /\ k \in 1 .. Len(own)
    BY <1>1, <1>3, <1>4, <1>6, <1>7
  <2>2. list = SubSeq(b, 1, s.length)
    BY <1>1, <1>6, <1>7, <2>1 DEF Elements
  <2>3. Len(list) = s.length /\ list[k] = b[k] /\ k \in 1 .. Len(b)
    BY <1>7, <1>8, <2>1, <2>2
  <2>4. b[k] \in Handler
    BY <1>8, <2>3
  <2>5. QED
    BY <1>1, <1>7, <2>1, <2>3, <2>4
<1>10. /\ Running(answer[q]) /\ AnswerOf(answer[q], Ran(q), wants[q].method, at[q], routed[q])
       /\ \E c : RanTo(q, c, h, "route", rest)
  <2>1. AnswerInv(q) /\ at[q] # "done" /\ Run(q, h, "route", rest) /\ RequestsTyped /\ h \in Handler
    BY <1>2, <1>3, <1>9 DEF RequestInv
  <2>2. QED
    BY <2>1, RunIs
<1>11. PICK c : RanTo(q, c, h, "route", rest)
  BY <1>10
<1>12. /\ answer' \in [setup.clients -> Answer]
       /\ at' \in [setup.clients -> {"idle", "global", "route", "done"}]
       /\ log' \in [setup.clients -> [global : Seq(Handler), route : Seq(Handler)]]
       /\ answer'[q] = c /\ at'[q] = IF Ends(h, wants[q].method) THEN "done" ELSE rest
       /\ log'[q] = [log[q] EXCEPT !["route"] = Append(@, h)]
       /\ \A p \in setup.clients : p # q => answer'[p] = answer[p] /\ at'[p] = at[p] /\ log'[p] = log[p]
  <2>1. "route" \in {"global", "route"} /\ rest \in {"global", "route", "done"}
    BY <1>1
  <2>2. RequestsTyped /\ h \in Handler /\ RanTo(q, c, h, "route", rest)
    BY <1>3, <1>9, <1>11
  <2>3. RanTyped(q, c, h, "route", rest)
    BY <2>1, <2>2, RunTyped
  <2>4. QED
    BY <2>3 DEF RanTyped
<1>13. log'[q].global = g /\ log'[q].route = Append(r, h)
  <2>1. log[q] \in [global : Seq(Handler), route : Seq(Handler)]
    BY <1>3 DEF RequestsTyped
  <2>2. QED
    BY <1>1, <1>12, <2>1
<1>14. \A p \in setup.clients : p # q => Stays(p)
  BY <1>2, <1>12 DEF Stays
<1>15. ListInv(q)'
  <2>1. Seen(q)' = Seen(q)
    BY <1>1, <1>2, <1>13 DEF Seen
  <2>2. Known' = Known /\ installed' = installed
    BY <1>2 DEF Known
  <2>3. ListInv(q)
    BY DEF RequestInv
  <2>4. QED
    BY <2>1, <2>2, <2>3 DEF ListInv
<1>16. PICK more : more = Append(r, h)
  OBVIOUS
<1>17. Len(more) = k /\ DOMAIN more = 1 .. k /\ more[k] = h /\ \A j \in 1 .. k - 1 : j \in DOMAIN r /\ more[j] = r[j]
  <2>1. r \in Seq(Handler) /\ h \in Handler /\ Extends(r, h, more)
    BY <1>3, <1>9, <1>16 DEF Extends
  <2>2. /\ Len(more) = Len(r) + 1 /\ DOMAIN r = 1 .. Len(r) /\ DOMAIN more = 1 .. Len(r) + 1
        /\ \A j \in DOMAIN r : j \in DOMAIN more /\ more[j] = r[j]
        /\ more[Len(r) + 1] = h
    BY <2>1, ExtendsIs
  <2>3. k - 1 = Len(r)
    BY <1>3, <1>9
  <2>4. QED
    BY <1>9, <2>2, <2>3
<1>18. RouteInv(q)'
  <2>1. \A j \in DOMAIN more : Kept(routes[i], j, more[j])
    <3>1. \A j \in 1 .. k : j = k \/ j \in 1 .. k - 1
      BY <1>3, <1>9
    <3>2. QED
      BY <1>4, <1>7, <1>9, <1>17, <3>1
  <2>2. ASSUME NEW j \in DOMAIN more PROVE Kept(routes[routed[q]], j, log[q].route[j])'
    <3>1. PICK t, e : t = routes[i] /\ e = more[j]
      OBVIOUS
    <3>2. Kept(t, j, e)
      BY <2>1, <2>2, <3>1
    <3>3. Kept(t, j, e)'
      BY <1>2, <3>2 DEF Kept, OfGroup
    <3>4. (log[q].route[j])' = e /\ (routes[routed[q]])' = t
      BY <1>1, <1>2, <1>13, <1>16, <3>1
    <3>5. QED
      BY <3>3, <3>4 DEF Kept, OfGroup
  <2>3. \A j \in DOMAIN log'[q].route : Kept(routes[routed[q]], j, log[q].route[j])'
    BY <1>13, <1>16, <2>2
  <2>4. at'[q] = "route" => k < Len(own)
    BY <1>1, <1>9, <1>12
  <2>5. /\ at'[q] \in {"route", "done"} /\ chain'[q] = <<>> /\ routed'[q] = i /\ i # 0
        /\ Len(log'[q].route) = k /\ (routes[routed[q]])' = routes[i]
        /\ routed'[q] <= Len(routes') /\ knew'[q] <= Len(routes')
    <3>1. knew[q] <= Len(routes)
      BY DEF RequestInv, RouteInv
    <3>2. QED
      BY <1>1, <1>2, <1>4, <1>12, <1>13, <1>16, <1>17, <3>1
  <2>6. QED
    BY <1>6, <2>3, <2>4, <2>5 DEF RouteInv
<1>19. RoutedRight(q)'
  BY <1>2 DEF RequestInv, RoutedRight
<1>20. AnswerInv(q)'
  <2>1. PICK a, ran, method, here : /\ a = answer[q] /\ ran = Ran(q) /\ method = wants[q].method
                                    /\ here = IF Ends(h, method) THEN "done" ELSE rest
    OBVIOUS
  <2>2. PICK all : all = Append(ran, h)
    OBVIOUS
  <2>3. ran \in Seq(Handler) /\ Ran(q)' = all
    <3>1. g \o r \in Seq(Handler)
      BY <1>3, ConcatProperties
    <3>2. g \o Append(r, h) = Append(g \o r, h)
      BY <1>3, <1>9, EndGoes
    <3>3. QED
      BY <1>1, <1>13, <2>1, <2>2, <3>1, <3>2 DEF Ran
  <2>4. Running(a) /\ AnswerOf(a, ran, method, "route", i) /\ Replied(a, c, h, method)
    BY <1>1, <1>2, <1>10, <1>11, <2>1 DEF RanTo
  <2>5. "route" # "done" /\ (rest = "done" => i # 0)
    BY <1>4
  <2>6. AnswerOf(c, Append(ran, h), method, IF Ends(h, method) THEN "done" ELSE rest, i)
    <3>1. ran \in Seq(Handler) /\ h \in Handler
      BY <1>9, <2>3
    <3>2. QED
      BY <2>4, <2>5, <3>1, AnswerRuns
  <2>7. AnswerOf(c, all, method, here, i)
    BY <2>1, <2>2, <2>6
  <2>8. here # "idle"
    BY <1>1, <2>1
  <2>9. AnswerNow(q, c, all, method, here, i)
    BY <1>1, <1>2, <1>12, <2>1, <2>3, <2>8 DEF AnswerNow
  <2>10. QED
    BY <2>7, <2>9, AnswerNext
<1>21. RequestsTyped'
  BY <1>2, <1>3, <1>12 DEF RequestsTyped
<1>22. RequestInv(q)'
  BY <1>15, <1>18, <1>19, <1>20 DEF RequestInv
<1>23. QED
  BY <1>2, <1>14, <1>21, <1>22 DEF RequestMoves

LEMMA PathTyped == \A path \in Path : path \in Seq(Parts)
BY DEF Path

LEMMA MatchRouteMoves ==
  ASSUME SetupsTyped, TypeOK, RoutesInv, NEW q \in setup.clients, RequestInv(q), MatchRoute(q)
  PROVE  RequestMoves(q)
<1>1. PICK i, want, n, a, ran, vals :
        /\ i = Match(wants[q]) /\ want = wants[q] /\ n = Len(routes) /\ a = answer[q] /\ ran = Ran(q)
        /\ vals = Params(routes[i].path, wants[q].path)
  OBVIOUS
<1>2. /\ at[q] = "global" /\ chain[q] = <<>>
      /\ routed' = [routed EXCEPT ![q] = i]
      /\ params' = IF i = 0 THEN params ELSE [params EXCEPT ![q] = vals]
      /\ at' = [at EXCEPT ![q] = IF i = 0 \/ routes[i].slice.length = 0 THEN "done" ELSE "route"]
      /\ answer' = IF i # 0 THEN answer
                   ELSE [answer EXCEPT ![q] = NotFound(@)]
      /\ knew' = [knew EXCEPT ![q] = n]
      /\ UNCHANGED <<setup, wants, scriptVars, chain, crashed, log, installed>>
      /\ UNCHANGED <<middleware, pending, groups, routes, buffers, made, calls>>
  BY <1>1 DEF MatchRoute, scriptVars
<1>3. /\ RequestsTyped /\ ScriptTyped /\ want \in Ask /\ want.path \in Seq(Parts) /\ a \in Answer
      /\ n \in Nat /\ DOMAIN routes = 1 .. n
  <2>1. RequestsTyped /\ ScriptTyped
    BY DEF TypeOK
  <2>2. want \in Ask
    BY <1>1 DEF TypeOK
  <2>3. want.path \in Path
    BY <2>2 DEF Ask
  <2>4. a \in Answer
    BY <1>1, <2>1, RequestTyped
  <2>5. n \in Nat /\ DOMAIN routes = 1 .. n
    BY <1>1, <2>1 DEF ScriptTyped
  <2>6. QED
    BY <2>1, <2>2, <2>3, <2>4, <2>5, PathTyped
<1>4. \A k \in 1 .. n : routes[k].path \in Seq(Parts)
  <2>1. \A k \in 1 .. n : routes[k].path \in Path
    BY <1>3, RouteTyped
  <2>2. QED
    BY <2>1, PathTyped
<1>5. PICK C : C = Candidates(want)
  OBVIOUS
<1>6. C = {k \in 1 .. n : routes[k].method \in {want.method, "ANY"} /\ matchPath(routes[k].path, want.path)}
  BY <1>3, <1>5 DEF Candidates
<1>7. C \subseteq Nat /\ C \subseteq 1 .. n
  BY <1>6
<1>8. C # {} => Min(C) \in C /\ \A k \in C : Min(C) <= k
  BY <1>7, MinIs
<1>9. i = IF C = {} THEN 0 ELSE Min(C)
  BY <1>1, <1>5 DEF Match
<1>10. /\ i \in Nat /\ i <= n
       /\ i = 0 => C = {}
       /\ i # 0 => i \in C /\ i \in 1 .. n /\ \A k \in 1 .. i - 1 : k \notin C
  <2>1. CASE C = {}
    BY <1>3, <1>9, <2>1
  <2>2. CASE C # {}
    <3>1. i \in C /\ \A k \in C : i <= k
      BY <1>8, <1>9, <2>2
    <3>2. i \in 1 .. n
      BY <1>7, <3>1
    <3>3. ASSUME NEW k \in 1 .. i - 1 PROVE k \notin C
      <4>1. k < i
        BY <3>2
      <4>2. k \in C => i <= k
        BY <3>1
      <4>3. QED
        BY <1>3, <3>2, <4>1, <4>2
    <3>4. QED
      BY <1>3, <2>2, <3>1, <3>2, <3>3
  <2>3. QED
    BY <2>1, <2>2
<1>11. ran = Ran(q) /\ AnswerOf(a, ran, want.method, "global", 0) /\ Running(a) /\ ran \in Seq(Handler)
       /\ log[q].route = <<>>
  <2>1. log[q].route = <<>> /\ routed[q] = 0
    BY <1>2 DEF RequestInv, RouteInv
  <2>2. AnswerOf(a, ran, want.method, "global", 0)
    BY <1>1, <1>2, <2>1, AnswerIs DEF RequestInv
  <2>3. Running(a)
    BY <1>3, <2>2 DEF Running, AnswerOf
  <2>4. log[q].global \in Seq(Handler) /\ log[q].route \in Seq(Handler)
    BY <1>3, RequestTyped
  <2>5. ran \in Seq(Handler)
    BY <1>1, <2>4, ConcatProperties DEF Ran
  <2>6. QED
    BY <1>1, <2>1, <2>2, <2>3, <2>5
<1>12. PICK here : here = IF i = 0 \/ routes[i].slice.length = 0 THEN "done" ELSE "route"
  OBVIOUS
<1>13. /\ routed'[q] = i /\ at'[q] = here /\ knew'[q] = n
       /\ \A p \in setup.clients : p # q => routed'[p] = routed[p] /\ at'[p] = at[p] /\ knew'[p] = knew[p]
       /\ routed' \in [setup.clients -> Nat] /\ knew' \in [setup.clients -> Nat]
       /\ at' \in [setup.clients -> {"idle", "global", "route", "done"}]
  BY <1>2, <1>3, <1>10, <1>12 DEF RequestsTyped
<1>14. /\ \A p \in setup.clients : p # q => params'[p] = params[p]
       /\ i # 0 => params'[q] = vals
       /\ params' = [p \in setup.clients |-> params'[p]]
  <2>1. params = [p \in setup.clients |-> params[p]]
    BY <1>3 DEF RequestsTyped
  <2>2. CASE i = 0
    BY <1>2, <2>1, <2>2
  <2>3. CASE i # 0
    <3>1. params' = [params EXCEPT ![q] = vals]
      BY <1>2, <2>3
    <3>2. params' = [p \in setup.clients |-> IF p = q THEN vals ELSE params[p]]
      BY <2>1, <3>1
    <3>3. QED
      BY <3>2
  <2>4. QED
    BY <2>2, <2>3
<1>15. PICK c : c = IF i # 0 THEN a ELSE NotFound(a)
  OBVIOUS
<1>16. c \in Answer /\ AnswerOf(c, ran, want.method, here, i)
  <2>1. CASE i = 0
    <3>1. Missed(a, c) /\ here = "done"
      BY <1>12, <1>15, <2>1 DEF Missed
    <3>2. c \in Answer /\ AnswerOf(c, ran, want.method, "done", 0)
      BY <1>11, <3>1, AnswerMisses
    <3>3. QED
      BY <2>1, <3>1, <3>2
  <2>2. CASE i # 0
    <3>1. here \in {"route", "done"} /\ c = a
      BY <1>12, <1>15, <2>2
    <3>2. AnswerOf(a, ran, want.method, here, i)
      BY <1>11, <2>2, <3>1, AnswerStays
    <3>3. QED
      BY <1>3, <3>1, <3>2
  <2>3. QED
    BY <2>1, <2>2
<1>17. /\ answer' \in [setup.clients -> Answer] /\ answer'[q] = c
       /\ \A p \in setup.clients : p # q => answer'[p] = answer[p]
  <2>1. answer \in [setup.clients -> Answer]
    BY <1>3 DEF RequestsTyped
  <2>2. answer' = [answer EXCEPT ![q] = c]
    <3>1. CASE i # 0
      <4>1. answer' = answer /\ c = answer[q]
        BY <1>1, <1>2, <1>15, <3>1
      <4>2. answer = [answer EXCEPT ![q] = answer[q]]
        BY <2>1
      <4>3. QED
        BY <4>1, <4>2
    <3>2. CASE i = 0
      BY <1>1, <1>2, <1>15, <3>2
    <3>3. QED
      BY <3>1, <3>2
  <2>3. QED
    BY <1>16, <2>1, <2>2
<1>18. \A p \in setup.clients : p # q => Stays(p)
  BY <1>2, <1>13, <1>14, <1>17 DEF Stays
<1>19. ListInv(q)'
  <2>1. Seen(q)' = Seen(q) /\ Known' = Known /\ installed' = installed
    BY <1>2 DEF Seen, Known
  <2>2. ListInv(q)
    BY DEF RequestInv
  <2>3. QED
    BY <2>1, <2>2 DEF ListInv
<1>20. RouteInv(q)'
  <2>1. here = "route" => 0 < Len(routes[i].registered)
    <3>1. SUFFICES ASSUME here = "route" PROVE 0 < Len(routes[i].registered)
      OBVIOUS
    <3>2. i # 0 /\ routes[i].slice.length # 0
      BY <1>12, <3>1
    <3>3. i \in DOMAIN routes
      BY <1>3, <1>10, <3>2
    <3>4. routes[i].slice.length = Len(routes[i].registered)
      BY <3>3 DEF RoutesInv
    <3>5. routes[i].registered \in Seq(Handler)
      BY <1>3, <3>3, RouteTyped
    <3>6. Len(routes[i].registered) \in Nat
      BY <3>5
    <3>7. QED
      BY <3>2, <3>4, <3>6
  <2>2. here = "route" => i # 0
    BY <1>12
  <2>3. /\ at'[q] = here /\ here \in {"route", "done"} /\ log'[q].route = <<>> /\ chain'[q] = <<>>
        /\ routed'[q] = i /\ knew'[q] = n /\ routes' = routes /\ i <= n /\ n <= n /\ n = Len(routes)
        /\ DOMAIN log'[q].route = {} /\ Len(log'[q].route) = 0
    <3>1. log'[q].route = <<>> /\ chain'[q] = <<>> /\ routes' = routes
      BY <1>2, <1>11
    <3>2. DOMAIN log'[q].route = {} /\ Len(log'[q].route) = 0
      BY <3>1
    <3>3. here \in {"route", "done"} /\ i <= n /\ n <= n /\ n = Len(routes)
      BY <1>1, <1>3, <1>10, <1>12
    <3>4. QED
      BY <1>13, <3>1, <3>2, <3>3
  <2>4. QED
    BY <2>1, <2>2, <2>3 DEF RouteInv
<1>21. RoutedRight(q)'
  <2>1. ASSUME NEW k \in 1 .. n, k \notin C
        PROVE  ~(routes[k].method \in {want.method, "ANY"} /\ Fits(routes[k].path, want.path))
    <3>1. routes[k].path \in Seq(Parts) /\ want.path \in Seq(Parts)
      BY <1>3, <1>4
    <3>2. Fits(routes[k].path, want.path) => matchPath(routes[k].path, want.path)
      BY <3>1, FitsMatches
    <3>3. QED
      BY <1>6, <2>1, <3>2
  <2>2. \A k \in 1 .. (IF i = 0 THEN n ELSE i - 1) : k \in 1 .. n /\ k \notin C
    BY <1>3, <1>10
  <2>3. ASSUME i # 0, EndsInWild(routes[i].path)
        PROVE  /\ routes[i].method \in {want.method, "ANY"} /\ Fits(routes[i].path, want.path)
               /\ NamesDiffer(routes[i].path) => Fills(routes[i].path, vals, want.path)
    <3>1. i \in C /\ i \in 1 .. n
      BY <1>10, <2>3
    <3>2. routes[i].method \in {want.method, "ANY"} /\ matchPath(routes[i].path, want.path)
      BY <1>6, <3>1
    <3>3. PICK path, request : path = routes[i].path /\ request = want.path
      OBVIOUS
    <3>4. path \in Seq(Parts) /\ request \in Seq(Parts) /\ matchPath(path, request) /\ EndsInWild(path)
      BY <1>3, <1>4, <2>3, <3>1, <3>2, <3>3
    <3>5. Fits(path, request) /\ (NamesDiffer(path) => Fills(path, Params(path, request), request))
      BY <3>4, MatchFits
    <3>6. vals = Params(path, request)
      BY <1>1, <3>3
    <3>7. QED
      BY <3>2, <3>3, <3>5, <3>6
  <2>4. /\ routes' = routes /\ wants'[q] = want /\ routed'[q] = i /\ knew'[q] = n /\ (i # 0 => params'[q] = vals)
    BY <1>1, <1>2, <1>13, <1>14
  <2>5. QED
    BY <2>1, <2>2, <2>3, <2>4 DEF RoutedRight
<1>22. AnswerInv(q)'
  <2>1. Ran(q)' = ran /\ wants'[q].method = want.method
    BY <1>1, <1>2 DEF Ran
  <2>2. here # "idle"
    BY <1>12
  <2>3. PICK method : method = want.method
    OBVIOUS
  <2>4. AnswerNow(q, c, ran, method, here, i)
    BY <1>13, <1>17, <2>1, <2>2, <2>3 DEF AnswerNow
  <2>5. AnswerOf(c, ran, method, here, i)
    BY <1>16, <2>3
  <2>6. QED
    BY <2>4, <2>5, AnswerNext
<1>23. RequestsTyped'
  BY <1>2, <1>3, <1>13, <1>14, <1>17 DEF RequestsTyped
<1>24. RequestInv(q)'
  BY <1>19, <1>20, <1>21, <1>22 DEF RequestInv
<1>25. QED
  BY <1>2, <1>18, <1>23, <1>24 DEF RequestMoves

-----------------------------------------------------------------------------
(* The invariant of the router.                                            *)
RouterHolds == TypeOK /\ RouterInv

LEMMA RoutesKeptIs ==
  ASSUME ScriptTyped, RoutesInv
  PROVE  RoutesKept
<1> SUFFICES ASSUME NEW i \in DOMAIN routes
             PROVE  /\ Len(Elements(routes[i].slice)) = Len(routes[i].registered)
                    /\ \A j \in DOMAIN Elements(routes[i].slice) : Kept(routes[i], j, Elements(routes[i].slice)[j])
  BY DEF RoutesKept
<1>1. PICK r, s, own, list, n, b : /\ r = routes[i] /\ s = r.slice /\ own = r.registered /\ list = Elements(s)
                                   /\ n = Len(own) /\ b = buffers[s.buffer]
  OBVIOUS
<1>2. own \in Seq(Handler) /\ s \in Slice
  BY <1>1, RouteTyped
<1>3. /\ n \in Nat /\ s.length = n /\ DOMAIN own = 1 .. n
      /\ Holds(s) /\ \A j \in DOMAIN own : Kept(r, j, b[j])
  <2>1. n \in Nat /\ DOMAIN own = 1 .. n
    BY <1>1, <1>2
  <2>2. Holds(s) /\ s.length = n /\ \A j \in DOMAIN own : Kept(r, j, b[j])
    BY <1>1 DEF RoutesInv
  <2>3. QED
    BY <2>1, <2>2
<1>4. CASE n = 0
  <2>1. list = <<>>
    BY <1>1, <1>3, <1>4 DEF Elements
  <2>2. Len(list) = 0 /\ DOMAIN list = {}
    BY <2>1
  <2>3. QED
    BY <1>1, <1>4, <2>2
<1>5. CASE n # 0
  <2>1. s.buffer \in DOMAIN buffers /\ n <= Len(b)
    BY <1>1, <1>3, <1>5 DEF Holds
  <2>2. b \in Seq(Handler)
    <3>1. buffers \in Seq(Seq(Handler))
      BY DEF ScriptTyped
    <3>2. QED
      BY <1>1, <2>1, <3>1
  <2>3. list = SubSeq(b, 1, n)
    BY <1>1, <1>3, <1>5 DEF Elements
  <2>4. Len(list) = n /\ DOMAIN list = 1 .. n /\ \A j \in 1 .. n : list[j] = b[j]
    BY <1>3, <2>1, <2>2, <2>3
  <2>5. QED
    BY <1>1, <1>3, <2>4
<1>6. QED
  BY <1>4, <1>5

LEMMA GuardedIs ==
  ASSUME TypeOK, NEW q \in setup.clients, RequestInv(q)
  PROVE  Guarded(q)
<1>1. PICK ran, own, ch, m, n, k : /\ ran = log[q].global /\ own = log[q].route /\ ch = chain[q]
                                   /\ m = Len(ran) /\ n = Len(Seen(q)) /\ k = Len(Known)
  OBVIOUS
<1>2. ran \in Seq(Handler) /\ own \in Seq(Handler) /\ ch \in Seq(Handler) /\ k \in Nat
  BY <1>1, RequestTyped, KnownTyped DEF TypeOK
<1>3. PICK s : s = ran \o ch
  OBVIOUS
<1>4. /\ Seen(q) = s /\ m \in Nat /\ n \in Nat /\ n = m + Len(ch) /\ Len(ch) \in Nat
      /\ DOMAIN ran = 1 .. m /\ DOMAIN s = 1 .. n
      /\ \A j \in 1 .. m : s[j] = ran[j] /\ j \in 1 .. n
  <2>1. Seen(q) = s
    BY <1>1, <1>3 DEF Seen
  <2>2. /\ ran \o ch \in Seq(Handler) /\ Len(ran \o ch) = Len(ran) + Len(ch) /\ Len(ran) \in Nat /\ Len(ch) \in Nat
        /\ \A i \in DOMAIN ran : i \in DOMAIN (ran \o ch) /\ (ran \o ch)[i] = ran[i]
    BY <1>2, JoinIs
  <2>3. DOMAIN ran = 1 .. m
    BY <1>1, <1>2
  <2>4. DOMAIN s = 1 .. n /\ n = Len(s)
    BY <1>1, <1>3, <2>1, <2>2
  <2>5. Seen(q) = s /\ m \in Nat /\ Len(ch) \in Nat /\ n = m + Len(ch) /\ n \in Nat
    <3>1. Len(s) = Len(ran) + Len(ch) /\ Len(ran) \in Nat /\ Len(ch) \in Nat
      BY <1>3, <2>2
    <3>2. n = Len(s) /\ m = Len(ran)
      BY <1>1, <2>4
    <3>3. QED
      BY <2>1, <3>1, <3>2
  <2>6. \A j \in 1 .. m : s[j] = ran[j] /\ j \in 1 .. n
    BY <1>3, <2>2, <2>3, <2>4
  <2>7. QED
    BY <2>3, <2>4, <2>5, <2>6
<1>5. IsPrefix(installed[q], s) /\ n <= k /\ \A j \in 1 .. n : s[j] = Known[j] \/ (s[j] = Nobody /\ j = n)
  BY <1>1, <1>4 DEF RequestInv, ListInv
<1>6. own # <<>> => IsPrefix(installed[q], ran)
  <2>1. own # <<>> => ch = <<>>
    BY <1>1 DEF RequestInv, RouteInv
  <2>2. ran \o <<>> = ran
    BY <1>2
  <2>3. QED
    BY <1>3, <1>5, <2>1, <2>2
<1>7. m <= k
  BY <1>2, <1>4, <1>5
<1>8. \A j \in DOMAIN ran : ran[j] = Known[j] \/ (ran[j] = Nobody /\ j = m)
  <2> SUFFICES ASSUME NEW j \in 1 .. m PROVE ran[j] = Known[j] \/ (ran[j] = Nobody /\ j = m)
    BY <1>4
  <2>1. j = n => j = m
    BY <1>4
  <2>2. QED
    BY <1>4, <1>5, <2>1
<1>9. \A j \in DOMAIN own : Kept(routes[routed[q]], j, own[j])
  BY <1>1 DEF RequestInv, RouteInv
<1>10. \A j \in 1 .. Len(Ran(q)) - 1 : ~Ends(Ran(q)[j], wants[q].method)
  <2>1. PICK all, l : all = Ran(q) /\ l = Len(all)
    OBVIOUS
  <2>2. ran \o own \in Seq(Handler)
    BY <1>2, ConcatProperties
  <2>3. all \in Seq(Handler)
    BY <1>1, <2>1, <2>2 DEF Ran
  <2>4. \A j \in 1 .. l - 1 : j \in DOMAIN all /\ j # l
    BY <2>1, <2>3
  <2>5. \A j \in DOMAIN all : Ends(all[j], wants[q].method) => j = l
    BY <2>1 DEF RequestInv, AnswerInv
  <2>6. QED
    BY <2>1, <2>4, <2>5
<1>11. QED
  BY <1>1, <1>6, <1>7, <1>8, <1>9, <1>10 DEF Guarded

LEMMA RouterServes == RouterHolds => Served
<1> SUFFICES ASSUME TypeOK, RouterInv PROVE Served
  BY DEF RouterHolds
<1>1. RoutesKept
  BY RoutesKeptIs DEF TypeOK, RouterInv
<1>2. ASSUME NEW q \in setup.clients PROVE Guarded(q) /\ RoutedRight(q) /\ AnsweredRight(q)
  <2>1. RequestInv(q)
    BY DEF RouterInv
  <2>2. Guarded(q)
    BY <2>1, GuardedIs
  <2>3. QED
    BY <2>1, <2>2 DEF RequestInv, AnswerInv
<1>3. QED
  BY <1>1, <1>2 DEF Served

LEMMA RouterTyped == RouterHolds => TypeOK
BY DEF RouterHolds

LEMMA RouterStarts == SetupsTyped /\ Init => RouterHolds
<1> SUFFICES ASSUME SetupsTyped, Init PROVE RouterHolds
  OBVIOUS
<1>1. /\ setup \in Setups /\ wants \in [setup.clients -> setup.asks]
      /\ middleware = <<>> /\ pending = <<>> /\ groups = <<>> /\ routes = <<>> /\ buffers = <<>>
      /\ made = 0 /\ calls = 0 /\ crashed = FALSE
      /\ at = [q \in setup.clients |-> "idle"]
      /\ chain = [q \in setup.clients |-> <<>>]
      /\ routed = [q \in setup.clients |-> 0]
      /\ params = [q \in setup.clients |-> [n \in {} |-> <<>>]]
      /\ answer = [q \in setup.clients |-> Unanswered]
      /\ log = [q \in setup.clients |-> [global |-> <<>>, route |-> <<>>]]
      /\ installed = [q \in setup.clients |-> <<>>]
      /\ knew = [q \in setup.clients |-> 0]
  BY DEF Init, Empty
<1>2. wants \in [setup.clients -> Ask]
  <2>1. setup.asks \subseteq Ask
    BY <1>1, SetupIs
  <2>2. QED
    BY <1>1, <2>1
<1>3. ScriptTyped
  BY <1>1 DEF ScriptTyped
<1>4. Unanswered \in Answer
  BY DEF Unanswered, Answer
<1>5. RequestsTyped
  <2>1. /\ at \in [setup.clients -> {"idle", "global", "route", "done"}]
        /\ chain \in [setup.clients -> Seq(Handler)] /\ installed \in [setup.clients -> Seq(Handler)]
        /\ routed \in [setup.clients -> Nat] /\ knew \in [setup.clients -> Nat]
        /\ crashed \in BOOLEAN
    <3>1. <<>> \in Seq(Handler) /\ 0 \in Nat
      OBVIOUS
    <3>2. at \in [setup.clients -> {"idle", "global", "route", "done"}]
      BY <1>1
    <3>3. chain \in [setup.clients -> Seq(Handler)]
      BY <1>1, <3>1, Zenon
    <3>4. installed \in [setup.clients -> Seq(Handler)]
      BY <1>1, <3>1, Zenon
    <3>5. routed \in [setup.clients -> Nat] /\ knew \in [setup.clients -> Nat]
      BY <1>1, <3>1
    <3>6. crashed \in BOOLEAN
      BY <1>1, Zenon
    <3>7. QED
      BY <3>2, <3>3, <3>4, <3>5, <3>6
  <2>2. params = [q \in setup.clients |-> params[q]]
    BY <1>1
  <2>3. answer \in [setup.clients -> Answer]
    BY <1>1, <1>4
  <2>4. log \in [setup.clients -> [global : Seq(Handler), route : Seq(Handler)]]
    BY <1>1
  <2>5. QED
    BY <2>1, <2>2, <2>3, <2>4 DEF RequestsTyped
<1>6. GroupsInv /\ RoutesInv /\ MiddlewareInv
  <2>1. DOMAIN groups = {} /\ DOMAIN routes = {}
    BY <1>1
  <2>2. GroupsInv /\ RoutesInv
    BY <2>1 DEF GroupsInv, RoutesInv
  <2>3. Known = <<>> /\ middleware = <<>>
    BY <1>1 DEF Known
  <2>4. MiddlewareInv
    BY <2>3 DEF MiddlewareInv
  <2>5. QED
    BY <2>2, <2>4
<1>7. ASSUME NEW q \in setup.clients PROVE RequestInv(q)
  <2>1. /\ at[q] = "idle" /\ chain[q] = <<>> /\ routed[q] = 0 /\ answer[q] = Unanswered
        /\ log[q].global = <<>> /\ log[q].route = <<>> /\ installed[q] = <<>> /\ knew[q] = 0
    BY <1>1
  <2>2. <<>> \o <<>> = <<>>
    OBVIOUS
  <2>3. Seen(q) = <<>> /\ Ran(q) = <<>> /\ Known = <<>> /\ routes = <<>>
    BY <1>1, <2>1, <2>2 DEF Seen, Ran, Known
  <2>4. ListInv(q)
    <3>1. Len(<<>>) = 0 /\ DOMAIN <<>> = {} /\ 0 <= 0
      OBVIOUS
    <3>2. IsPrefix(installed[q], Seen(q))
      BY <2>1, <2>3, <3>1 DEF IsPrefix
    <3>3. QED
      BY <2>3, <3>1, <3>2 DEF ListInv
  <2>5. RouteInv(q)
    <3>1. Len(routes) = 0 /\ DOMAIN log[q].route = {} /\ 0 <= 0
      BY <2>1, <2>3
    <3>2. QED
      BY <2>1, <3>1 DEF RouteInv
  <2>6. RoutedRight(q)
    BY <2>1 DEF RoutedRight
  <2>7. AnswerInv(q)
    <3>1. PICK a, ran : a = Unanswered /\ ran = <<>>
      OBVIOUS
    <3>2. /\ a.status = 0 /\ ~a.written /\ a.bodies = <<>> /\ ~a.aborted /\ ~a.panicked
          /\ DOMAIN ran = {} /\ DOMAIN a.bodies = {} /\ Range(a.bodies) = {}
      BY <3>1 DEF Unanswered, Range
    <3>3. \A method : SaidOf(ran, method, "idle", 0) = 0
      BY <3>2 DEF SaidOf, Quiet
    <3>4. \A method : AnswerOf(a, ran, method, "idle", 0)
      BY <3>2, <3>3 DEF AnswerOf
    <3>5. QED
      BY <2>1, <2>3, <3>1, <3>4, AnswerIs
  <2>8. QED
    BY <2>4, <2>5, <2>6, <2>7 DEF RequestInv
<1>8. QED
  BY <1>1, <1>2, <1>3, <1>5, <1>6, <1>7 DEF RouterHolds, TypeOK, RouterInv

ScriptQuiet == UNCHANGED <<middleware, pending, groups, routes, buffers, made, calls>>
LEMMA ScriptStays ==
  ScriptTyped /\ GroupsInv /\ RoutesInv /\ MiddlewareInv /\ ScriptQuiet =>
    ScriptTyped' /\ GroupsInv' /\ RoutesInv' /\ MiddlewareInv'
<1> SUFFICES ASSUME ScriptTyped, GroupsInv, RoutesInv, MiddlewareInv, ScriptQuiet
             PROVE  ScriptTyped' /\ GroupsInv' /\ RoutesInv' /\ MiddlewareInv'
  OBVIOUS
<1> USE DEF ScriptQuiet
<1>1. ScriptTyped'
  BY DEF ScriptTyped
<1>2. GroupsInv'
  BY DEF GroupsInv, Holds, Made
<1>3. RoutesInv'
  BY DEF RoutesInv, Holds, Made, Kept, OfGroup
<1>4. MiddlewareInv'
  BY DEF MiddlewareInv, Known
<1>5. QED
  BY <1>1, <1>2, <1>3, <1>4

LEMMA RouterSteps == SetupsTyped /\ RouterHolds /\ [Next]_vars => RouterHolds'
<1> SUFFICES ASSUME SetupsTyped, TypeOK, RouterInv, [Next]_vars PROVE RouterHolds'
  BY DEF RouterHolds
<1>1. /\ setup \in Setups /\ wants \in [setup.clients -> Ask] /\ ScriptTyped /\ RequestsTyped
      /\ GroupsInv /\ RoutesInv /\ MiddlewareInv /\ \A q \in setup.clients : RequestInv(q)
  BY DEF TypeOK, RouterInv
<1>2. CASE Use \/ UseReturns \/ Handle \/ Group \/ GroupUse \/ GroupHandle
  <2>1. ScriptMoves
    BY <1>1, <1>2, ScriptStep
  <2>2. UNCHANGED <<setup, wants>> /\ UNCHANGED <<at, chain, routed, params, answer, crashed, log, installed, knew>>
    BY <2>1 DEF ScriptMoves, requestVars
  <2>3. RequestsTyped'
    BY <1>1, <2>2 DEF RequestsTyped
  <2>4. \A q \in setup.clients : RequestInv(q)'
    BY <1>1, <2>1, ScriptKeepsRequests
  <2>5. TypeOK'
    BY <1>1, <2>1, <2>2, <2>3 DEF TypeOK, ScriptMoves
  <2>6. QED
    BY <2>1, <2>2, <2>4, <2>5 DEF RouterHolds, RouterInv, ScriptMoves
<1>3. ASSUME NEW q \in setup.clients, ServeHTTP(q) PROVE RouterHolds'
  <2>1. RequestMoves(q)
    <3>1. RequestInv(q)
      BY <1>1
    <3>2. CASE Arrive(q)
      BY <1>1, <3>1, <3>2, ArriveMoves
    <3>3. CASE RunGlobal(q)
      BY <1>1, <3>1, <3>3, RunGlobalMoves
    <3>4. CASE CallNobody(q)
      BY <1>1, <3>1, <3>4, CallNobodyMoves
    <3>5. CASE MatchRoute(q)
      BY <1>1, <3>1, <3>5, MatchRouteMoves
    <3>6. CASE RunRoute(q)
      BY <1>1, <3>1, <3>6, RunRouteMoves
    <3>7. QED
      BY <1>3, <3>2, <3>3, <3>4, <3>5, <3>6 DEF ServeHTTP
  <2>2. /\ RequestsTyped' /\ RequestInv(q)' /\ UNCHANGED <<setup, wants, scriptVars>>
        /\ UNCHANGED <<middleware, pending, groups, routes, buffers, made, calls>>
        /\ \A p \in setup.clients : p # q => Stays(p)
    BY <2>1 DEF RequestMoves, scriptVars
  <2>3. ASSUME NEW p \in setup.clients PROVE RequestInv(p)'
    <3>1. CASE p = q
      BY <2>2, <3>1
    <3>2. CASE p # q
      <4>1. Stays(p) /\ RequestInv(p) /\ UNCHANGED <<setup, wants, scriptVars>>
        BY <1>1, <2>2, <3>2
      <4>2. QED
        BY <4>1, OthersStay
    <3>3. QED
      BY <3>1, <3>2
  <2>4. ScriptTyped' /\ GroupsInv' /\ RoutesInv' /\ MiddlewareInv'
    <3>1. ScriptTyped /\ GroupsInv /\ RoutesInv /\ MiddlewareInv
      BY <1>1
    <3>2. ScriptQuiet
      BY <2>2 DEF ScriptQuiet
    <3>3. QED
      BY <3>1, <3>2, ScriptStays
  <2>5. TypeOK'
    BY <1>1, <2>2, <2>4 DEF TypeOK
  <2>6. QED
    BY <2>2, <2>3, <2>4, <2>5 DEF RouterHolds, RouterInv
<1>4. CASE UNCHANGED vars
  <2>1. /\ UNCHANGED <<setup, wants, scriptVars>>
        /\ UNCHANGED <<middleware, pending, groups, routes, buffers, made, calls>>
        /\ UNCHANGED <<at, chain, routed, params, answer, crashed, log, installed, knew>>
    BY <1>4 DEF vars, scriptVars, requestVars
  <2>2. ScriptTyped' /\ GroupsInv' /\ RoutesInv' /\ MiddlewareInv'
    <3>1. ScriptTyped /\ GroupsInv /\ RoutesInv /\ MiddlewareInv
      BY <1>1
    <3>2. ScriptQuiet
      BY <2>1 DEF ScriptQuiet
    <3>3. QED
      BY <3>1, <3>2, ScriptStays
  <2>3. RequestsTyped'
    BY <1>1, <2>1 DEF RequestsTyped
  <2>4. ASSUME NEW p \in setup.clients PROVE RequestInv(p)'
    <3>1. Stays(p) /\ RequestInv(p) /\ UNCHANGED <<setup, wants, scriptVars>>
      BY <1>1, <2>1 DEF Stays
    <3>2. QED
      BY <3>1, OthersStay
  <2>5. QED
    BY <1>1, <2>1, <2>2, <2>3, <2>4 DEF RouterHolds, RouterInv, TypeOK
<1>5. QED
  BY <1>2, <1>3, <1>4 DEF Next

(* Whatever the script registers while requests run through the router     *)
(* (types.go, router.go), every value it keeps has its type.               *)
THEOREM TypeCorrect == SetupsTyped /\ Spec => []TypeOK
<1> SUFFICES ASSUME SetupsTyped PROVE Spec => []TypeOK
  OBVIOUS
<1>1. Init => RouterHolds
  BY RouterStarts
<1>2. RouterHolds /\ [Next]_vars => RouterHolds'
  BY RouterSteps
<1>3. RouterHolds => TypeOK
  BY RouterTyped
<1>4. QED
  BY <1>1, <1>2, <1>3, PTL DEF Spec

(* Served, of Router.ServeHTTP, Router.Match and Group (router.go): routes *)
(* keep their handlers, the middleware that was installed runs first and   *)
(* in order, the first route that fits gets the request with parameters    *)
(* that fill it, and the status is that of the first handler that speaks.  *)
THEOREM RequestsServed == SetupsTyped /\ Spec => []Served
<1> SUFFICES ASSUME SetupsTyped PROVE Spec => []Served
  OBVIOUS
<1>1. Init => RouterHolds
  BY RouterStarts
<1>2. RouterHolds /\ [Next]_vars => RouterHolds'
  BY RouterSteps
<1>3. RouterHolds => Served
  BY RouterServes
<1>4. QED
  BY <1>1, <1>2, <1>3, PTL DEF Spec
=============================================================================
