---------------------------- MODULE DataLemmas ----------------------------
(* Facts about the library's operators on sets of numbers and on sequences *)
(* that the proofs about the components use.                               *)
EXTENDS SequencesExt, TLAPS, SequenceTheorems, NaturalsInduction, WellFoundedInduction

LessThan == {p \in Nat \X Nat : p[1] < p[2]}

\* A set of natural numbers that is not empty has a least element.
LEMMA LeastExists ==
  ASSUME NEW S, S \subseteq Nat, S # {}
  PROVE  \E x \in S : \A y \in S : x <= y
<1>1. IsWellFoundedOn(LessThan, Nat)
  BY NatLessThanWellFounded DEF OpToRel, LessThan
<1>2. PICK x \in S : \A y \in S : <<y, x>> \notin LessThan
  BY <1>1, WFMin
<1>3. ASSUME NEW y \in S PROVE x <= y
  <2>1. x \in Nat /\ y \in Nat
    OBVIOUS
  <2>2. ~(y < x)
    BY <1>2, <2>1 DEF LessThan
  <2> QED
    BY <2>1, <2>2
<1> QED
  BY <1>3

\* Min is what its name says.
LEMMA MinIsLeast ==
  ASSUME NEW S, S \subseteq Nat, S # {}
  PROVE  Min(S) \in S /\ \A y \in S : Min(S) <= y
BY LeastExists DEF Min

\* Max is what its name says, for a set with a bound.
LEMMA MaxIsGreatest ==
  ASSUME NEW n \in Nat, NEW S, S \subseteq 0..n, S # {}
  PROVE  Max(S) \in S /\ \A y \in S : Max(S) >= y
<1> DEFINE T == {k \in 0..n : n - k \in S}
<1>1. PICK s \in S : TRUE
  OBVIOUS
<1>2. n - s \in 0..n /\ n - (n - s) = s
  OBVIOUS
<1>3. T \subseteq Nat /\ T # {}
  BY <1>2
<1>4. PICK x \in T : \A y \in T : x <= y
  <2> HIDE DEF T
  <2> QED
    BY <1>3, LeastExists
<1>5. ASSUME NEW y \in S PROVE n - x >= y
  <2>1. n - y \in 0..n /\ n - (n - y) = y
    OBVIOUS
  <2>2. n - y \in T
    BY <2>1
  <2> QED
    BY <1>4, <2>1, <2>2
<1>6. \E x1 \in S : \A y \in S : x1 >= y
  BY <1>4, <1>5
<1> QED
  BY <1>6 DEF Max

-----------------------------------------------------------------------------
LEMMA RangeOfAppend ==
  ASSUME NEW S, NEW s \in Seq(S), NEW e \in S
  PROVE  /\ Append(s, e) \in Seq(S)
         /\ Range(Append(s, e)) = Range(s) \cup {e}
<1>1. Append(s, e) \in Seq(S)
  OBVIOUS
<1>2. Range(Append(s, e)) = Range(s) \cup {e}
  BY DEF Range
<1> QED
  BY <1>1, <1>2

\* RemoveAt leaves the elements before the index, and those behind it one
\* place earlier.
LEMMA RemoveAtElements ==
  ASSUME NEW S, NEW s \in Seq(S), NEW k \in 1..Len(s)
  PROVE  /\ RemoveAt(s, k) \in Seq(S)
         /\ Len(RemoveAt(s, k)) = Len(s) - 1
         /\ \A i \in 1..Len(s) - 1 :
              RemoveAt(s, k)[i] = s[IF i < k THEN i ELSE i + 1]
<1> DEFINE f == SubSeq(s, 1, k - 1)
           g == SubSeq(s, k + 1, Len(s))
<1>1. f \in Seq(S) /\ Len(f) = k - 1 /\ \A i \in 1..k - 1 : f[i] = s[i]
  BY SubSeqProperties
<1>2. /\ g \in Seq(S) /\ Len(g) = Len(s) - k
      /\ \A i \in 1..Len(s) - k : g[i] = s[k + i]
  BY SubSeqProperties
<1>3. /\ f \o g \in Seq(S)
      /\ Len(f \o g) = Len(f) + Len(g)
      /\ \A i \in 1..Len(f) + Len(g) :
           (f \o g)[i] = IF i <= Len(f) THEN f[i] ELSE g[i - Len(f)]
  BY <1>1, <1>2, ConcatProperties
<1>4. RemoveAt(s, k) = f \o g
  BY DEF RemoveAt
<1> HIDE DEF f, g
<1>5. ASSUME NEW i \in 1..Len(s) - 1
      PROVE  (f \o g)[i] = s[IF i < k THEN i ELSE i + 1]
  <2>1. CASE i < k
    BY <1>1, <1>2, <1>3, <2>1
  <2>2. CASE ~(i < k)
    <3>1. i - (k - 1) \in 1..Len(s) - k /\ k + (i - (k - 1)) = i + 1
      BY <2>2
    <3>2. g[i - (k - 1)] = s[i + 1]
      BY <1>2, <3>1
    <3> QED
      BY <1>1, <1>2, <1>3, <2>2, <3>2
  <2> QED
    BY <2>1, <2>2
<1>6. Len(f \o g) = Len(s) - 1
  BY <1>1, <1>2, <1>3
<1> QED
  BY <1>3, <1>4, <1>5, <1>6, Zenon

\* Removing the element behind the one at the head of a concatenation.
LEMMA TailOfConcat ==
  ASSUME NEW S, NEW s \in Seq(S), NEW t \in Seq(S), s # <<>>
  PROVE  /\ Tail(s) \in Seq(S)
         /\ Len(Tail(s) \o t) = Len(s \o t) - 1
         /\ \A i \in 1..Len(s \o t) - 1 : (Tail(s) \o t)[i] = (s \o t)[i + 1]
<1>1. /\ Tail(s) \in Seq(S) /\ Len(Tail(s)) = Len(s) - 1
      /\ \A i \in 1..Len(Tail(s)) : Tail(s)[i] = s[i + 1]
  OBVIOUS
<1>2. Len(s \o t) = Len(s) + Len(t) /\ Len(Tail(s) \o t) = Len(s) + Len(t) - 1
  BY <1>1
<1>3. ASSUME NEW i \in 1..Len(s \o t) - 1
      PROVE  (Tail(s) \o t)[i] = (s \o t)[i + 1]
  <2>1. (Tail(s) \o t)[i] = IF i <= Len(Tail(s)) THEN Tail(s)[i]
                            ELSE t[i - Len(Tail(s))]
    BY <1>1, <1>2, ConcatProperties
  <2>2. (s \o t)[i + 1] = IF i + 1 <= Len(s) THEN s[i + 1] ELSE t[i + 1 - Len(s)]
    BY <1>2, ConcatProperties
  <2>3. CASE i <= Len(Tail(s))
    BY <1>1, <2>1, <2>2, <2>3
  <2>4. CASE ~(i <= Len(Tail(s)))
    <3>1. i - Len(Tail(s)) = i + 1 - Len(s) /\ ~(i + 1 <= Len(s))
      BY <1>1, <1>2, <2>4
    <3> QED
      BY <2>1, <2>2, <2>4, <3>1
  <2> QED
    BY <2>3, <2>4
<1> QED
  BY <1>1, <1>2, <1>3

\* Moving the head of the second sequence to the end of the first.
LEMMA ConcatShift ==
  ASSUME NEW S, NEW s \in Seq(S), NEW t \in Seq(S), t # <<>>
  PROVE  Append(s, Head(t)) \o Tail(t) = s \o t
<1> DEFINE u == Append(s, Head(t)) \o Tail(t)
           v == s \o t
<1>1. /\ Head(t) \in S /\ Tail(t) \in Seq(S) /\ Len(Tail(t)) = Len(t) - 1
      /\ Head(t) = t[1] /\ \A i \in 1..Len(t) - 1 : Tail(t)[i] = t[i + 1]
  OBVIOUS
<1>2. /\ Append(s, Head(t)) \in Seq(S)
      /\ Len(Append(s, Head(t))) = Len(s) + 1
      /\ \A i \in 1..Len(s) + 1 :
           Append(s, Head(t))[i] = IF i <= Len(s) THEN s[i] ELSE Head(t)
  BY <1>1
<1>3. u \in Seq(S) /\ v \in Seq(S) /\ Len(u) = Len(v) /\ Len(v) = Len(s) + Len(t)
  BY <1>1, <1>2
<1>4. ASSUME NEW i \in 1..Len(v) PROVE u[i] = v[i]
  <2>1. v[i] = IF i <= Len(s) THEN s[i] ELSE t[i - Len(s)]
    BY <1>3, ConcatProperties
  <2>2. u[i] = IF i <= Len(s) + 1 THEN Append(s, Head(t))[i]
               ELSE Tail(t)[i - (Len(s) + 1)]
    BY <1>1, <1>2, <1>3, ConcatProperties
  <2>3. CASE i <= Len(s)
    BY <1>2, <2>1, <2>2, <2>3
  <2>4. CASE i = Len(s) + 1
    BY <1>1, <1>2, <2>1, <2>2, <2>4
  <2>5. CASE i > Len(s) + 1
    <3>1. i - (Len(s) + 1) \in 1..Len(t) - 1
      BY <1>3, <2>5
    <3>2. Tail(t)[i - (Len(s) + 1)] = t[i - (Len(s) + 1) + 1]
      BY <1>1, <3>1
    <3>3. i - (Len(s) + 1) + 1 = i - Len(s)
      BY <1>3
    <3> QED
      BY <2>1, <2>2, <2>5, <3>2, <3>3
  <2> QED
    BY <1>3, <2>3, <2>4, <2>5
<1> HIDE DEF u, v
<1>5. u = v
  BY <1>3, <1>4, SeqEqual
<1> QED
  BY <1>5 DEF u, v
=============================================================================
