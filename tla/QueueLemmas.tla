----------------------------- MODULE QueueLemmas -----------------------------
(***************************************************************************)
(* Lemmas about the operators on queues and lists that the models are      *)
(* built from.                                                             *)
(***************************************************************************)
EXTENDS SequencesExt, SequenceTheorems, FiniteSetTheorems, TLAPS

(* Taking the head of a queue leaves a queue that is one shorter.          *)
LEMMA TailFacts ==
  ASSUME NEW S, NEW s \in Seq(S), s # <<>>
  PROVE  /\ Head(s) \in S
         /\ Tail(s) \in Seq(S)
         /\ Len(s) \in Nat \ {0}
         /\ Len(Tail(s)) = Len(s) - 1
         /\ ToSet(s) = {Head(s)} \cup ToSet(Tail(s))
<1>1. /\ Head(s) \in S
      /\ Tail(s) \in Seq(S)
      /\ Len(Tail(s)) = Len(s) - 1
      /\ \A i \in 1 .. Len(Tail(s)) : Tail(s)[i] = s[i + 1]
  BY HeadTailProperties
<1>2. Len(s) \in Nat \ {0}
  BY EmptySeq
<1>3. DOMAIN s = 1 .. Len(s) /\ DOMAIN Tail(s) = 1 .. Len(s) - 1
  BY <1>1, LenProperties
<1>4. Head(s) = s[1]
  OBVIOUS
<1>5. ToSet(s) \subseteq {Head(s)} \cup ToSet(Tail(s))
  <2> SUFFICES ASSUME NEW i \in 1 .. Len(s)
               PROVE  s[i] \in {Head(s)} \cup ToSet(Tail(s))
    BY <1>3 DEF ToSet
  <2>1. CASE i = 1
    BY <2>1, <1>4
  <2>2. CASE i # 1
    <3>1. i - 1 \in 1 .. Len(s) - 1
      BY <2>2, <1>2
    <3>2. Tail(s)[i - 1] = s[i]
      BY <3>1, <1>1, <1>2
    <3> QED BY <3>1, <3>2, <1>3 DEF ToSet
  <2> QED BY <2>1, <2>2
<1>6. {Head(s)} \cup ToSet(Tail(s)) \subseteq ToSet(s)
  <2>1. Head(s) \in ToSet(s)
    BY <1>2, <1>3, <1>4 DEF ToSet
  <2>2. ASSUME NEW i \in 1 .. Len(s) - 1
        PROVE  Tail(s)[i] \in ToSet(s)
    <3>1. i + 1 \in 1 .. Len(s)
      BY <1>2
    <3> QED BY <3>1, <1>1, <1>3 DEF ToSet
  <2> QED BY <2>1, <2>2, <1>3 DEF ToSet
<1> QED BY <1>1, <1>2, <1>5, <1>6

(* Putting a message on a queue adds this message and nothing else.        *)
LEMMA AppendFacts ==
  ASSUME NEW S, NEW s \in Seq(S), NEW e \in S
  PROVE  /\ Append(s, e) \in Seq(S)
         /\ Len(s) \in Nat
         /\ Len(Append(s, e)) = Len(s) + 1
         /\ ToSet(Append(s, e)) = ToSet(s) \cup {e}
<1>1. /\ Append(s, e) \in Seq(S)
      /\ Len(Append(s, e)) = Len(s) + 1
      /\ \A i \in 1 .. Len(s) : Append(s, e)[i] = s[i]
      /\ Append(s, e)[Len(s) + 1] = e
  BY AppendProperties
<1>2. /\ Len(s) \in Nat
      /\ DOMAIN s = 1 .. Len(s)
      /\ DOMAIN Append(s, e) = 1 .. Len(s) + 1
  BY <1>1, LenProperties
<1>3. 1 .. Len(s) + 1 = (1 .. Len(s)) \cup {Len(s) + 1}
  BY <1>2
<1>4. ToSet(Append(s, e)) = ToSet(s) \cup {e}
  BY <1>1, <1>2, <1>3 DEF ToSet
<1> QED BY <1>1, <1>2, <1>4

(* Popping an element leaves a list that is one shorter.                   *)
LEMMA RemoveAtFacts ==
  ASSUME NEW S, NEW s \in Seq(S), NEW i \in 1 .. Len(s)
  PROVE  /\ RemoveAt(s, i) \in Seq(S)
         /\ Len(s) \in Nat \ {0}
         /\ Len(RemoveAt(s, i)) = Len(s) - 1
<1>1. Len(s) \in Nat /\ \A j \in 1 .. Len(s) : s[j] \in S
  BY LenProperties, ElementOfSeq
<1>2. /\ SubSeq(s, 1, i - 1) \in Seq(S)
      /\ Len(SubSeq(s, 1, i - 1)) = i - 1
  <2>1. \A j \in 1 .. i - 1 : s[j] \in S
    BY <1>1
  <2> QED BY <1>1, <2>1, SubSeqProperties
<1>3. /\ SubSeq(s, i + 1, Len(s)) \in Seq(S)
      /\ Len(SubSeq(s, i + 1, Len(s))) = Len(s) - i
  <2>1. \A j \in i + 1 .. Len(s) : s[j] \in S
    BY <1>1
  <2> QED BY <1>1, <2>1, SubSeqProperties
<1> DEFINE before == SubSeq(s, 1, i - 1)
           behind == SubSeq(s, i + 1, Len(s))
<1>4. before \o behind \in Seq(S) /\ Len(before \o behind) = Len(before) + Len(behind)
  <2> HIDE DEF before, behind
  <2>1. before \in Seq(S) /\ behind \in Seq(S)
    BY <1>2, <1>3 DEF before, behind
  <2> QED BY <2>1, ConcatProperties
<1>5. RemoveAt(s, i) = before \o behind
  BY DEF RemoveAt
<1>6. Len(before) = i - 1 /\ Len(behind) = Len(s) - i
  BY <1>2, <1>3
<1> HIDE DEF before, behind
<1>7. Len(s) \in Nat \ {0} /\ i \in Int
  <2> i \in 1 .. Len(s)
    OBVIOUS
  <2> QED BY <1>1
<1>8. Len(before) + Len(behind) = Len(s) - 1
  BY <1>6, <1>7
<1>9. RemoveAt(s, i) \in Seq(S)
  BY <1>4, <1>5
<1>10. Len(RemoveAt(s, i)) = Len(s) - 1
  BY <1>4, <1>5, <1>8
<1> QED BY <1>7, <1>9, <1>10

(* Concatenating lists adds their lengths.                                 *)
LEMMA ConcatFacts ==
  ASSUME NEW S, NEW s \in Seq(S), NEW t \in Seq(S)
  PROVE  /\ s \o t \in Seq(S)
         /\ Len(s) \in Nat /\ Len(t) \in Nat
         /\ Len(s \o t) = Len(s) + Len(t)
BY ConcatProperties, LenProperties

(* Rewriting every element of a list keeps its length.                     *)
LEMMA MapFacts ==
  ASSUME NEW S, NEW s \in Seq(S), NEW f \in [DOMAIN s -> S]
  PROVE  f \in Seq(S) /\ Len(f) = Len(s) /\ Len(s) \in Nat
BY LenProperties

-----------------------------------------------------------------------------
(* Lists of messages and positions, each about one pair.                   *)

\* The pairs that the elements of a list are about.
PairsIn(s) == {s[i].pair : i \in DOMAIN s}

\* No two elements of the list are about the same pair.
Distinct(s) == \A i, j \in DOMAIN s : i # j => s[i].pair # s[j].pair

(* What is left of a list of distinct pairs when the head is taken.        *)
LEMMA TailPairs ==
  ASSUME NEW S, NEW s \in Seq(S), s # <<>>
  PROVE  /\ Head(s).pair \in PairsIn(s)
         /\ PairsIn(Tail(s)) \subseteq PairsIn(s)
         /\ Distinct(s) => /\ Distinct(Tail(s))
                           /\ Head(s).pair \notin PairsIn(Tail(s))
<1>1. /\ Len(s) \in Nat \ {0}
      /\ DOMAIN s = 1 .. Len(s)
      /\ DOMAIN Tail(s) = 1 .. Len(s) - 1
      /\ \A i \in 1 .. Len(s) - 1 : Tail(s)[i] = s[i + 1]
      /\ Head(s) = s[1]
  <2>1. /\ Tail(s) \in Seq(S)
        /\ Len(Tail(s)) = Len(s) - 1
        /\ \A i \in 1 .. Len(Tail(s)) : Tail(s)[i] = s[i + 1]
    BY HeadTailProperties
  <2>2. Len(s) \in Nat \ {0}
    BY EmptySeq
  <2>3. DOMAIN s = 1 .. Len(s) /\ DOMAIN Tail(s) = 1 .. Len(Tail(s))
    BY <2>1, LenProperties
  <2>4. Head(s) = s[1]
    OBVIOUS
  <2> QED BY <2>1, <2>2, <2>3, <2>4
<1>2. 1 \in DOMAIN s /\ \A i \in DOMAIN Tail(s) : i + 1 \in DOMAIN s /\ i + 1 # 1
  BY <1>1
<1>3. Head(s).pair \in PairsIn(s)
  BY <1>1, <1>2 DEF PairsIn
<1>4. PairsIn(Tail(s)) \subseteq PairsIn(s)
  BY <1>1, <1>2 DEF PairsIn
<1>5. ASSUME Distinct(s)
      PROVE  Distinct(Tail(s)) /\ Head(s).pair \notin PairsIn(Tail(s))
  <2>1. Distinct(Tail(s))
    <3> SUFFICES ASSUME NEW i \in DOMAIN Tail(s), NEW j \in DOMAIN Tail(s), i # j
                 PROVE  Tail(s)[i].pair # Tail(s)[j].pair
      BY DEF Distinct
    <3>1. i + 1 \in DOMAIN s /\ j + 1 \in DOMAIN s /\ i + 1 # j + 1
      BY <1>1
    <3>2. s[i + 1].pair # s[j + 1].pair
      BY <3>1, <1>5 DEF Distinct
    <3> QED BY <3>2, <1>1
  <2>2. \A i \in DOMAIN Tail(s) : Tail(s)[i].pair # Head(s).pair
    <3> SUFFICES ASSUME NEW i \in DOMAIN Tail(s)
                 PROVE  Tail(s)[i].pair # Head(s).pair
      OBVIOUS
    <3>1. s[i + 1].pair # s[1].pair
      BY <1>2, <1>5 DEF Distinct
    <3> QED BY <3>1, <1>1
  <2> QED BY <2>1, <2>2 DEF PairsIn
<1> QED BY <1>3, <1>4, <1>5

(* A message about a pair that is new to the list.                         *)
LEMMA AppendPairs ==
  ASSUME NEW S, NEW s \in Seq(S), NEW e \in S
  PROVE  /\ PairsIn(Append(s, e)) = PairsIn(s) \cup {e.pair}
         /\ Distinct(s) /\ e.pair \notin PairsIn(s) => Distinct(Append(s, e))
<1>1. /\ Len(s) \in Nat
      /\ DOMAIN s = 1 .. Len(s)
      /\ DOMAIN Append(s, e) = 1 .. Len(s) + 1
      /\ \A i \in 1 .. Len(s) : Append(s, e)[i] = s[i]
      /\ Append(s, e)[Len(s) + 1] = e
  <2>1. /\ Append(s, e) \in Seq(S)
        /\ Len(Append(s, e)) = Len(s) + 1
        /\ \A i \in 1 .. Len(s) : Append(s, e)[i] = s[i]
        /\ Append(s, e)[Len(s) + 1] = e
    BY AppendProperties
  <2> QED BY <2>1, LenProperties
<1>2. DOMAIN Append(s, e) = DOMAIN s \cup {Len(s) + 1} /\ Len(s) + 1 \notin DOMAIN s
  BY <1>1
<1>3. PairsIn(Append(s, e)) = PairsIn(s) \cup {e.pair}
  BY <1>1, <1>2 DEF PairsIn
<1>4. ASSUME Distinct(s), e.pair \notin PairsIn(s)
      PROVE  Distinct(Append(s, e))
  <2>1. \A i \in DOMAIN s : s[i].pair # e.pair
    BY <1>4 DEF PairsIn
  <2> QED BY <1>1, <1>2, <1>4, <2>1 DEF Distinct
<1> QED BY <1>3, <1>4

(* What stands where in a list after an element was popped.                *)
LEMMA RemoveAtElements ==
  ASSUME NEW S, NEW s \in Seq(S), NEW k \in 1 .. Len(s)
  PROVE  /\ RemoveAt(s, k) \in Seq(S)
         /\ Len(s) \in Nat \ {0}
         /\ DOMAIN s = 1 .. Len(s)
         /\ DOMAIN RemoveAt(s, k) = 1 .. Len(s) - 1
         /\ \A i \in 1 .. Len(s) - 1 :
               RemoveAt(s, k)[i] = s[IF i < k THEN i ELSE i + 1]
<1>1. /\ RemoveAt(s, k) \in Seq(S)
      /\ Len(s) \in Nat \ {0}
      /\ Len(RemoveAt(s, k)) = Len(s) - 1
  BY RemoveAtFacts
<1>2. \A j \in 1 .. Len(s) : s[j] \in S
  BY LenProperties, ElementOfSeq
<1> DEFINE before == SubSeq(s, 1, k - 1)
           behind == SubSeq(s, k + 1, Len(s))
<1>3. /\ before \in Seq(S)
      /\ Len(before) = k - 1
      /\ \A j \in 1 .. k - 1 : before[j] = s[j]
  <2>1. \A j \in 1 .. k - 1 : s[j] \in S
    BY <1>1, <1>2
  <2>2. \A j \in 1 .. k - 1 : 1 + j - 1 = j
    BY <1>1
  <2> QED BY <1>1, <2>1, <2>2, SubSeqProperties
<1>4. /\ behind \in Seq(S)
      /\ Len(behind) = Len(s) - k
      /\ \A j \in 1 .. Len(s) - k : behind[j] = s[k + j]
  <2>1. \A j \in k + 1 .. Len(s) : s[j] \in S
    BY <1>1, <1>2
  <2>2. k + 1 \in 1 .. Len(s) + 1 /\ Len(s) - (k + 1) + 1 = Len(s) - k
    BY <1>1
  <2>3. \A j \in 1 .. Len(s) - k : (k + 1) + j - 1 = k + j
    BY <1>1
  <2> QED BY <1>1, <2>1, <2>2, <2>3, SubSeqProperties
<1>5. RemoveAt(s, k) = before \o behind
  BY DEF RemoveAt
<1> HIDE DEF before, behind
<1>6. \A i \in 1 .. Len(before) + Len(behind) :
         (before \o behind)[i] = IF i <= Len(before) THEN before[i]
                                                     ELSE behind[i - Len(before)]
  BY <1>3, <1>4, ConcatProperties
<1>7. DOMAIN s = 1 .. Len(s) /\ DOMAIN RemoveAt(s, k) = 1 .. Len(s) - 1
  BY <1>1, LenProperties
<1>8. ASSUME NEW i \in 1 .. Len(s) - 1
      PROVE  RemoveAt(s, k)[i] = s[IF i < k THEN i ELSE i + 1]
  <2>1. i \in 1 .. Len(before) + Len(behind)
    BY <1>1, <1>3, <1>4
  <2>2. CASE i < k
    <3>1. i \in 1 .. k - 1 /\ i <= Len(before)
      BY <1>1, <1>3, <2>2
    <3> QED BY <1>3, <1>5, <1>6, <2>1, <2>2, <3>1
  <2>3. CASE ~ (i < k)
    <3>1. /\ ~ (i <= k - 1)
          /\ i - (k - 1) \in 1 .. Len(s) - k
          /\ k + (i - (k - 1)) = i + 1
      BY <1>1, <2>3
    <3>2. RemoveAt(s, k)[i] = behind[i - (k - 1)]
      BY <1>3, <1>5, <1>6, <2>1, <3>1
    <3>3. behind[i - (k - 1)] = s[i + 1]
      BY <1>4, <3>1
    <3> QED BY <2>3, <3>2, <3>3
  <2> QED BY <2>2, <2>3
<1> QED BY <1>1, <1>7, <1>8

(* What is left of a list of distinct pairs when one is popped; nothing    *)
(* that was not in the list is in it afterwards.                           *)
LEMMA RemoveAtPairs ==
  ASSUME NEW S, NEW s \in Seq(S), NEW k \in 1 .. Len(s)
  PROVE  /\ s[k].pair \in PairsIn(s)
         /\ PairsIn(RemoveAt(s, k)) \subseteq PairsIn(s)
         /\ ToSet(RemoveAt(s, k)) \subseteq ToSet(s)
         /\ \A e \in ToSet(s) : e # s[k] => e \in ToSet(RemoveAt(s, k))
         /\ Distinct(s) => /\ Distinct(RemoveAt(s, k))
                           /\ s[k].pair \notin PairsIn(RemoveAt(s, k))
<1> DEFINE r == RemoveAt(s, k)
           at(i) == IF i < k THEN i ELSE i + 1
<1>1. /\ Len(s) \in Nat \ {0}
      /\ DOMAIN s = 1 .. Len(s)
      /\ DOMAIN r = 1 .. Len(s) - 1
      /\ \A i \in DOMAIN r : r[i] = s[at(i)]
  BY RemoveAtElements
<1>2. k \in DOMAIN s /\ k \in Int
  BY <1>1
<1>3. /\ \A i \in DOMAIN r : at(i) \in DOMAIN s /\ at(i) # k
      /\ \A i, j \in DOMAIN r : i # j => at(i) # at(j)
  BY <1>1, <1>2
<1>4. \A j \in DOMAIN s : j # k => \E i \in DOMAIN r : at(i) = j
  <2> SUFFICES ASSUME NEW j \in DOMAIN s, j # k
               PROVE  \E i \in DOMAIN r : at(i) = j
    OBVIOUS
  <2>1. CASE j < k
    <3>1. j \in DOMAIN r /\ at(j) = j
      BY <1>1, <1>2, <2>1
    <3> QED BY <3>1
  <2>2. CASE j > k
    <3>1. j - 1 \in DOMAIN r /\ at(j - 1) = j
      BY <1>1, <1>2, <2>2
    <3> QED BY <3>1
  <2> QED BY <1>1, <1>2, <2>1, <2>2
<1> HIDE DEF r, at
<1>5. s[k].pair \in PairsIn(s) /\ PairsIn(r) \subseteq PairsIn(s)
  BY <1>1, <1>2, <1>3 DEF PairsIn
<1>6. ToSet(r) \subseteq ToSet(s)
  BY <1>1, <1>3 DEF ToSet
<1>7. \A e \in ToSet(s) : e # s[k] => e \in ToSet(r)
  BY <1>1, <1>4 DEF ToSet
<1>8. Distinct(s) => Distinct(r) /\ s[k].pair \notin PairsIn(r)
  BY <1>1, <1>2, <1>3 DEF Distinct, PairsIn
<1> QED BY <1>5, <1>6, <1>7, <1>8 DEF r

(* Two lists of distinct pairs that have no pair in common.                *)
LEMMA ConcatPairs ==
  ASSUME NEW S, NEW s \in Seq(S), NEW t \in Seq(S)
  PROVE  /\ PairsIn(s \o t) = PairsIn(s) \cup PairsIn(t)
         /\ ToSet(s \o t) = ToSet(s) \cup ToSet(t)
         /\ Distinct(s) /\ Distinct(t) /\ PairsIn(s) \cap PairsIn(t) = {}
               => Distinct(s \o t)
<1> DEFINE n == Len(s)
           m == Len(t)
           r == s \o t
<1>1. /\ n \in Nat /\ m \in Nat
      /\ DOMAIN s = 1 .. n /\ DOMAIN t = 1 .. m /\ DOMAIN r = 1 .. n + m
      /\ \A i \in 1 .. n + m : r[i] = IF i <= n THEN s[i] ELSE t[i - n]
  <2>1. /\ r \in Seq(S) /\ Len(r) = n + m
        /\ \A i \in 1 .. n + m : r[i] = IF i <= n THEN s[i] ELSE t[i - n]
    BY ConcatProperties
  <2> QED BY <2>1, LenProperties
<1> HIDE DEF n, m, r
<1>2. /\ \A i \in DOMAIN s : i \in DOMAIN r /\ r[i] = s[i]
      /\ \A i \in DOMAIN t : n + i \in DOMAIN r /\ r[n + i] = t[i]
      /\ \A i \in DOMAIN r : \/ i \in DOMAIN s
                             \/ i - n \in DOMAIN t /\ i = n + (i - n)
  <2>1. \A i \in DOMAIN t : (n + i) - n = i /\ ~ (n + i <= n) /\ n + i \in 1 .. n + m
    BY <1>1
  <2> QED BY <1>1, <2>1
<1>3. PairsIn(r) = PairsIn(s) \cup PairsIn(t)
  <2>1. PairsIn(r) \subseteq PairsIn(s) \cup PairsIn(t)
    <3> SUFFICES ASSUME NEW i \in DOMAIN r
                 PROVE  r[i].pair \in PairsIn(s) \cup PairsIn(t)
      BY DEF PairsIn
    <3>1. CASE i \in DOMAIN s
      BY <3>1, <1>2 DEF PairsIn
    <3>2. CASE i - n \in DOMAIN t /\ i = n + (i - n)
      <4>1. r[i] = t[i - n]
        BY <3>2, <1>2
      <4> QED BY <4>1, <3>2 DEF PairsIn
    <3> QED BY <1>2, <3>1, <3>2
  <2>2. PairsIn(s) \subseteq PairsIn(r)
    BY <1>2 DEF PairsIn
  <2>3. PairsIn(t) \subseteq PairsIn(r)
    <3> SUFFICES ASSUME NEW i \in DOMAIN t
                 PROVE  t[i].pair \in PairsIn(r)
      BY DEF PairsIn
    <3> QED BY <1>2 DEF PairsIn
  <2> QED BY <2>1, <2>2, <2>3
<1>4. ToSet(r) = ToSet(s) \cup ToSet(t)
  <2>1. ToSet(r) \subseteq ToSet(s) \cup ToSet(t)
    <3> SUFFICES ASSUME NEW i \in DOMAIN r
                 PROVE  r[i] \in ToSet(s) \cup ToSet(t)
      BY DEF ToSet
    <3>1. CASE i \in DOMAIN s
      BY <3>1, <1>2 DEF ToSet
    <3>2. CASE i - n \in DOMAIN t /\ i = n + (i - n)
      <4>1. r[i] = t[i - n]
        BY <3>2, <1>2
      <4> QED BY <4>1, <3>2 DEF ToSet
    <3> QED BY <1>2, <3>1, <3>2
  <2>2. ToSet(s) \subseteq ToSet(r)
    BY <1>2 DEF ToSet
  <2>3. ToSet(t) \subseteq ToSet(r)
    <3> SUFFICES ASSUME NEW i \in DOMAIN t
                 PROVE  t[i] \in ToSet(r)
      BY DEF ToSet
    <3> QED BY <1>2 DEF ToSet
  <2> QED BY <2>1, <2>2, <2>3
<1>5. ASSUME Distinct(s), Distinct(t), PairsIn(s) \cap PairsIn(t) = {},
             NEW i \in DOMAIN r, NEW j \in DOMAIN r, i < j
      PROVE  r[i].pair # r[j].pair
  <2>1. CASE j \in DOMAIN s
    <3>1. i \in DOMAIN s /\ i # j
      BY <1>1, <1>5, <2>1
    <3>2. s[i].pair # s[j].pair
      BY <1>5, <2>1, <3>1 DEF Distinct
    <3> QED BY <3>1, <3>2, <2>1, <1>2
  <2>2. CASE j \notin DOMAIN s /\ i \in DOMAIN s
    <3>1. r[j] = t[j - n] /\ j - n \in DOMAIN t
      BY <1>2, <2>2
    <3>2. r[j].pair \in PairsIn(t) /\ r[i].pair \in PairsIn(s)
      BY <3>1, <2>2, <1>2 DEF PairsIn
    <3> QED BY <3>2, <1>5
  <2>3. CASE i \notin DOMAIN s
    <3>1. j \notin DOMAIN s /\ i - n # j - n
      BY <1>1, <1>5, <2>3
    <3>2. /\ r[i] = t[i - n] /\ i - n \in DOMAIN t
          /\ r[j] = t[j - n] /\ j - n \in DOMAIN t
      BY <1>2, <2>3, <3>1
    <3>3. t[i - n].pair # t[j - n].pair
      BY <3>1, <3>2, <1>5 DEF Distinct
    <3> QED BY <3>2, <3>3
  <2> QED BY <2>1, <2>2, <2>3
<1>6. ASSUME Distinct(s), Distinct(t), PairsIn(s) \cap PairsIn(t) = {}
      PROVE  Distinct(r)
  <2> SUFFICES ASSUME NEW i \in DOMAIN r, NEW j \in DOMAIN r, i # j
               PROVE  r[i].pair # r[j].pair
    BY DEF Distinct
  <2>1. i < j \/ j < i
    BY <1>1
  <2> QED BY <2>1, <1>5, <1>6
<1> QED BY <1>3, <1>4, <1>6 DEF r

(* Rewriting the elements of a list, but not their pairs.                  *)
LEMMA MapPairs ==
  ASSUME NEW s, NEW f, DOMAIN f = DOMAIN s,
         \A i \in DOMAIN s : f[i].pair = s[i].pair
  PROVE  PairsIn(f) = PairsIn(s) /\ (Distinct(s) => Distinct(f))
BY DEF PairsIn, Distinct

(* How often a pair occurs in a list of distinct pairs.                    *)
LEMMA CountPairs ==
  ASSUME NEW s, Distinct(s), NEW p
  PROVE  Cardinality({i \in DOMAIN s : s[i].pair = p})
            = IF p \in PairsIn(s) THEN 1 ELSE 0
<1>1. CASE p \in PairsIn(s)
  <2>1. PICK k \in DOMAIN s : s[k].pair = p
    BY <1>1 DEF PairsIn
  <2>2. {i \in DOMAIN s : s[i].pair = p} = {k}
    BY <2>1 DEF Distinct
  <2> QED BY <1>1, <2>2, FS_Singleton
<1>2. CASE p \notin PairsIn(s)
  <2>1. {i \in DOMAIN s : s[i].pair = p} = {}
    BY <1>2 DEF PairsIn
  <2> QED BY <1>2, <2>1, FS_EmptySet
<1> QED BY <1>1, <1>2
-----------------------------------------------------------------------------
(* Lists in which only the messages of a kind A count.                     *)

PairsAmong(s, A) == {s[i].pair : i \in {k \in DOMAIN s : s[k] \in A}}

DistinctAmong(s, A) ==
  \A i, j \in DOMAIN s : s[i] \in A /\ s[j] \in A /\ i # j => s[i].pair # s[j].pair

LEMMA TailAmong ==
  ASSUME NEW S, NEW s \in Seq(S), s # <<>>, NEW A
  PROVE  /\ PairsAmong(Tail(s), A) \subseteq PairsAmong(s, A)
         /\ Head(s) \in A => Head(s).pair \in PairsAmong(s, A)
         /\ DistinctAmong(s, A) =>
               /\ DistinctAmong(Tail(s), A)
               /\ Head(s) \in A => Head(s).pair \notin PairsAmong(Tail(s), A)
<1>1. /\ Len(s) \in Nat \ {0}
      /\ DOMAIN s = 1 .. Len(s)
      /\ DOMAIN Tail(s) = 1 .. Len(s) - 1
      /\ \A i \in 1 .. Len(s) - 1 : Tail(s)[i] = s[i + 1]
      /\ Head(s) = s[1]
  <2>1. /\ Tail(s) \in Seq(S)
        /\ Len(Tail(s)) = Len(s) - 1
        /\ \A i \in 1 .. Len(Tail(s)) : Tail(s)[i] = s[i + 1]
    BY HeadTailProperties
  <2>2. Len(s) \in Nat \ {0}
    BY EmptySeq
  <2>3. DOMAIN s = 1 .. Len(s) /\ DOMAIN Tail(s) = 1 .. Len(Tail(s))
    BY <2>1, LenProperties
  <2> QED BY <2>1, <2>2, <2>3
<1>2. /\ 1 \in DOMAIN s
      /\ \A i \in DOMAIN Tail(s) :
            i + 1 \in DOMAIN s /\ i + 1 # 1 /\ Tail(s)[i] = s[i + 1]
      /\ \A i, j \in DOMAIN Tail(s) : i # j => i + 1 # j + 1
  BY <1>1
<1>3. PairsAmong(Tail(s), A) \subseteq PairsAmong(s, A)
  BY <1>2 DEF PairsAmong
<1>4. Head(s) \in A => Head(s).pair \in PairsAmong(s, A)
  BY <1>1, <1>2 DEF PairsAmong
<1>5. ASSUME DistinctAmong(s, A)
      PROVE  DistinctAmong(Tail(s), A)
  <2> SUFFICES ASSUME NEW i \in DOMAIN Tail(s), NEW j \in DOMAIN Tail(s),
                      Tail(s)[i] \in A, Tail(s)[j] \in A, i # j
               PROVE  Tail(s)[i].pair # Tail(s)[j].pair
    BY DEF DistinctAmong
  <2> QED BY <1>2, <1>5 DEF DistinctAmong
<1>6. ASSUME DistinctAmong(s, A), Head(s) \in A, NEW i \in DOMAIN Tail(s),
             Tail(s)[i] \in A
      PROVE  Tail(s)[i].pair # Head(s).pair
  BY <1>1, <1>2, <1>6 DEF DistinctAmong
<1> QED BY <1>3, <1>4, <1>5, <1>6 DEF PairsAmong

LEMMA AppendAmong ==
  ASSUME NEW S, NEW s \in Seq(S), NEW e \in S, NEW A
  PROVE  /\ PairsAmong(Append(s, e), A) \subseteq PairsAmong(s, A) \cup {e.pair}
         /\ e \notin A => PairsAmong(Append(s, e), A) = PairsAmong(s, A)
         /\ DistinctAmong(s, A) /\ (e \in A => e.pair \notin PairsAmong(s, A))
               => DistinctAmong(Append(s, e), A)
<1>1. /\ DOMAIN Append(s, e) = DOMAIN s \cup {Len(s) + 1}
      /\ Len(s) + 1 \notin DOMAIN s
      /\ \A i \in DOMAIN s : Append(s, e)[i] = s[i]
      /\ Append(s, e)[Len(s) + 1] = e
  <2>1. /\ Append(s, e) \in Seq(S)
        /\ Len(Append(s, e)) = Len(s) + 1
        /\ \A i \in 1 .. Len(s) : Append(s, e)[i] = s[i]
        /\ Append(s, e)[Len(s) + 1] = e
    BY AppendProperties
  <2> QED BY <2>1, LenProperties
<1>2. PairsAmong(Append(s, e), A) \subseteq PairsAmong(s, A) \cup {e.pair}
  BY <1>1 DEF PairsAmong
<1>3. e \notin A => PairsAmong(Append(s, e), A) = PairsAmong(s, A)
  BY <1>1 DEF PairsAmong
<1>4. ASSUME DistinctAmong(s, A), e \in A => e.pair \notin PairsAmong(s, A)
      PROVE  DistinctAmong(Append(s, e), A)
  <2>1. e \in A => \A i \in DOMAIN s : s[i] \in A => s[i].pair # e.pair
    BY <1>4 DEF PairsAmong
  <2> QED BY <1>1, <1>4, <2>1 DEF DistinctAmong
<1> QED BY <1>2, <1>3, <1>4

-----------------------------------------------------------------------------
(* Sets of pairs by name, of which no two share one.                       *)

ApartOn(names, place) ==
  \A m, n \in names : m # n => place[m] \cap place[n] = {}

(* Pairs that leave one set for one other, or for none, stay apart.        *)
LEMMA MoveKeepsApart ==
  ASSUME NEW names, NEW f, NEW g, ApartOn(names, f),
         NEW a \in names, NEW b \in names, a # b,
         NEW M, M \subseteq f[a],
         g[a] \subseteq f[a] \ M,
         g[b] \subseteq f[b] \cup M,
         \A n \in names \ {a, b} : g[n] \subseteq f[n]
  PROVE  ApartOn(names, g)
<1> SUFFICES ASSUME NEW m \in names, NEW n \in names, m # n
             PROVE  g[m] \cap g[n] = {}
  BY DEF ApartOn
<1>1. \A x \in names, y \in names : x # y => f[x] \cap f[y] = {}
  BY DEF ApartOn
<1>2. \A x \in names \ {b} : g[x] \subseteq f[x] /\ g[x] \cap M = {}
  <2> SUFFICES ASSUME NEW x \in names \ {b}
               PROVE  g[x] \subseteq f[x] /\ g[x] \cap M = {}
    OBVIOUS
  <2>1. CASE x = a
    BY <2>1
  <2>2. CASE x # a
    <3>1. f[x] \cap f[a] = {} /\ g[x] \subseteq f[x]
      BY <1>1, <2>2
    <3> QED BY <3>1
  <2> QED BY <2>1, <2>2
<1>3. CASE m # b /\ n # b
  BY <1>1, <1>2, <1>3
<1>4. CASE m = b
  <2>1. g[n] \cap f[b] = {} /\ g[n] \cap M = {}
    BY <1>1, <1>2, <1>4
  <2> QED BY <2>1, <1>4
<1>5. CASE n = b
  <2>1. g[m] \cap f[b] = {} /\ g[m] \cap M = {}
    BY <1>1, <1>2, <1>5
  <2> QED BY <2>1, <1>5
<1> QED BY <1>3, <1>4, <1>5
-----------------------------------------------------------------------------
(* How many messages of a kind A a queue holds.                            *)

IndicesOf(s, A) == {k \in DOMAIN s : s[k] \in A}

LEMMA IndicesFinite ==
  ASSUME NEW S, NEW s \in Seq(S), NEW A
  PROVE  /\ IsFiniteSet(IndicesOf(s, A))
         /\ Cardinality(IndicesOf(s, A)) \in Nat
<1>1. DOMAIN s = 1 .. Len(s) /\ Len(s) \in Nat
  BY LenProperties
<1>2. IndicesOf(s, A) \in SUBSET (1 .. Len(s))
  BY <1>1 DEF IndicesOf
<1>3. IsFiniteSet(1 .. Len(s))
  BY <1>1, FS_Interval
<1>4. IsFiniteSet(IndicesOf(s, A))
  BY <1>2, <1>3, FS_Subset
<1> QED BY <1>4, FS_CardinalityType

(* A message that is put on a queue is one more if it is of the kind.      *)
LEMMA AppendIndices ==
  ASSUME NEW S, NEW s \in Seq(S), NEW e \in S, NEW A
  PROVE  Cardinality(IndicesOf(Append(s, e), A))
            = Cardinality(IndicesOf(s, A)) + IF e \in A THEN 1 ELSE 0
<1> DEFINE last == Len(s) + 1
<1>1. /\ DOMAIN s = 1 .. Len(s) /\ Len(s) \in Nat
      /\ DOMAIN Append(s, e) = 1 .. last
      /\ \A i \in 1 .. Len(s) : Append(s, e)[i] = s[i]
      /\ Append(s, e)[last] = e
  BY AppendProperties, LenProperties
<1>2. IsFiniteSet(IndicesOf(s, A)) /\ Cardinality(IndicesOf(s, A)) \in Nat
  BY IndicesFinite
<1>3. last \notin IndicesOf(s, A) /\ 1 .. last = (1 .. Len(s)) \cup {last}
  BY <1>1 DEF IndicesOf
<1> HIDE DEF last
<1>4. CASE e \in A
  <2>1. IndicesOf(Append(s, e), A) = IndicesOf(s, A) \cup {last}
    BY <1>1, <1>3, <1>4 DEF IndicesOf
  <2>2. Cardinality(IndicesOf(s, A) \cup {last}) = Cardinality(IndicesOf(s, A)) + 1
    BY <1>2, <1>3, FS_AddElement
  <2> QED BY <1>4, <2>1, <2>2
<1>5. CASE e \notin A
  <2>1. IndicesOf(Append(s, e), A) = IndicesOf(s, A)
    BY <1>1, <1>3, <1>5 DEF IndicesOf
  <2> QED BY <1>2, <1>5, <2>1
<1> QED BY <1>4, <1>5

(* The head of the queue is one of them if it is of the kind.              *)
LEMMA TailIndices ==
  ASSUME NEW S, NEW s \in Seq(S), s # <<>>, NEW A
  PROVE  Cardinality(IndicesOf(s, A))
            = Cardinality(IndicesOf(Tail(s), A)) + IF Head(s) \in A THEN 1 ELSE 0
<1> DEFINE before == IndicesOf(s, A)
           after == IndicesOf(Tail(s), A)
           shift == [k \in after |-> k + 1]
<1>1. /\ DOMAIN s = 1 .. Len(s) /\ Len(s) \in Nat \ {0}
      /\ Tail(s) \in Seq(S) /\ Len(Tail(s)) = Len(s) - 1
      /\ DOMAIN Tail(s) = 1 .. Len(s) - 1
      /\ Head(s) = s[1]
      /\ \A k \in 1 .. Len(s) - 1 : Tail(s)[k] = s[k + 1]
  BY TailFacts, HeadTailProperties, LenProperties
<1>2. /\ IsFiniteSet(before) /\ Cardinality(before) \in Nat
      /\ IsFiniteSet(after) /\ Cardinality(after) \in Nat
  BY <1>1, IndicesFinite
<1>3. shift \in Bijection(after, before \ {1})
  <2>1. after \subseteq Nat \ {0}
    BY <1>1 DEF IndicesOf
  <2>2. shift \in [after -> before \ {1}]
    <3> SUFFICES ASSUME NEW k \in after PROVE k + 1 \in before \ {1}
      OBVIOUS
    <3>1. k \in 1 .. Len(s) - 1 /\ Tail(s)[k] \in A
      BY <1>1 DEF IndicesOf
    <3>2. k + 1 \in 1 .. Len(s) /\ s[k + 1] \in A /\ k + 1 # 1
      BY <1>1, <3>1
    <3> QED BY <1>1, <3>2 DEF IndicesOf
  <2>3. \A k, m \in after : shift[k] = shift[m] => k = m
    BY <2>1
  <2>4. ASSUME NEW i \in before \ {1}
        PROVE  \E k \in after : shift[k] = i
    <3>1. i \in 1 .. Len(s) /\ s[i] \in A /\ i # 1
      BY <1>1, <2>4 DEF IndicesOf
    <3>2. i - 1 \in 1 .. Len(s) - 1 /\ (i - 1) + 1 = i
      BY <1>1, <3>1
    <3>3. Tail(s)[i - 1] \in A
      BY <1>1, <3>1, <3>2
    <3>4. i - 1 \in after
      BY <1>1, <3>2, <3>3 DEF IndicesOf
    <3> QED BY <3>2, <3>4
  <2> HIDE DEF shift, after, before
  <2> QED BY <2>2, <2>3, <2>4 DEF Bijection, Injection, Surjection, IsInjective
<1> HIDE DEF shift
<1>4. Cardinality(before \ {1}) = Cardinality(after)
  <2>1. ExistsBijection(after, before \ {1})
    BY <1>3 DEF ExistsBijection
  <2> QED BY <1>2, <2>1, FS_Bijection
<1>5. Cardinality(before \ {1}) = IF 1 \in before THEN Cardinality(before) - 1
                                  ELSE Cardinality(before)
  BY <1>2, FS_RemoveElement
<1>6. 1 \in before <=> Head(s) \in A
  BY <1>1 DEF IndicesOf
<1> QED BY <1>2, <1>4, <1>5, <1>6
=============================================================================
