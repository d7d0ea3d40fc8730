----------------------------- MODULE IaxTopics -----------------------------
(***************************************************************************)
(* Which topics a subscription's pattern matches: iaxTopicMatch of         *)
(* src/ialang/pkg/lang/runtime/builtin/iax.go against the meaning of a     *)
(* wildcard, for every pattern and topic up to a length.                   *)
(***************************************************************************)
EXTENDS Integers, Sequences, SequencesExt

CONSTANTS Letters, Star, MaxPattern, MaxTopic

VARIABLES pattern, topic
vars == <<pattern, topic>>

Texts(alphabet, n) == UNION {[1 .. k -> alphabet] : k \in 0 .. n}

Init ==
  /\ pattern \in Texts(Letters \cup {Star}, MaxPattern)
  /\ topic \in Texts(Letters, MaxTopic)

Next == UNCHANGED vars
Spec == Init /\ [][Next]_vars

(* strings.Split(p, "*"), a letter at a time.                             *)
Scanned(parts, letter) ==
  IF letter = Star THEN Append(parts, <<>>) ELSE Append(Front(parts), Append(Last(parts), letter))
Parts(p) ==
  LET upTo[i \in 0 .. Len(p)] == IF i = 0 THEN << <<>> >> ELSE Scanned(upTo[i - 1], p[i])
  IN  upTo[Len(p)]

FoundBeyond(t, cursor, part) ==
  {k \in cursor + 1 .. Len(t) - Len(part) : SubSeq(t, k + 1, k + Len(part)) = part}
FoundAnywhere(t, cursor, part) ==
  {k \in 0 .. Len(t) - Len(part) : SubSeq(t, k + 1, k + Len(part)) = part}

(* Where part begins in t[cursor:], counted from the start of t.           *)
Found(t, cursor, part) ==
  {k \in cursor .. Len(t) - Len(part) : SubSeq(t, k + 1, k + Len(part)) = part}

Missing == -1

(* The cursor after part i, each part taken as early as it can be.         *)
Cursor(parts, t) ==
  LET after[i \in 0 .. Len(parts)] ==
        LET found == Found(t, after[i - 1], parts[i]) IN
        IF i = 0 THEN 0
        ELSE IF after[i - 1] = Missing THEN Missing
        ELSE IF parts[i] = <<>> THEN after[i - 1]
        ELSE IF found = {} \/ (i = 1 /\ ~IsPrefix(parts[1], t)) THEN Missing
        ELSE (CHOOSE k \in found : \A j \in found : k <= j) + Len(parts[i])
  IN  after[Len(parts)]

TopicMatch(p, t) ==
  LET parts == Parts(p) IN
  CASE p = <<Star>> -> TRUE
    [] Len(parts) = 1 -> p = t
    [] Len(parts) = 2 /\ p # <<Star>> -> IsPrefix(parts[1], t) /\ IsSuffix(parts[2], t)
    [] Len(parts) > 2 -> Cursor(parts, t) # Missing /\ IsSuffix(Last(parts), t)

(* What it should be: t can be cut so that a letter stands for itself and  *)
(* a star for any text.                                                    *)
Glob(p, t) ==
  \E end \in [0 .. Len(p) -> 0 .. Len(t)] :
    /\ end[0] = 0 /\ end[Len(p)] = Len(t)
    /\ \A i \in 1 .. Len(p) :
         IF p[i] = Star THEN end[i - 1] <= end[i]
                        ELSE end[i] = end[i - 1] + 1 /\ t[end[i]] = p[i]

(* No subscriber misses an event its pattern covers.                       *)
GlobMatched == Glob(pattern, topic) => TopicMatch(pattern, topic)

(* Nobody gets an event its pattern does not cover, but for one star whose *)
(* prefix and suffix overlap in the topic: ab*bc takes abc.                *)
MatchIsGlob ==
  TopicMatch(pattern, topic) =>
    \/ Glob(pattern, topic)
    \/ Len(Parts(pattern)) = 2 /\ Len(topic) < Len(pattern) - 1

(* A subscription gets the events its patterns cover.                      *)
TopicMatched == GlobMatched /\ MatchIsGlob
=============================================================================
