---------------------------- MODULE IdeasProofs ----------------------------
(***************************************************************************)
(* What is offered of a list of ideas of any length, with any repetitions. *)
(*                                                                         *)
(* The lemmas say how often a title is in a sequence after an element is   *)
(* appended or removed; a draw moves one entry from the list to what was   *)
(* offered, so that the sum stays what it was.                             *)
(***************************************************************************)
EXTENDS Ideas, DataLemmas, FiniteSetTheorems, FunctionTheorems

Title == Range(IdeaList)
Places(s, t) == {i \in DOMAIN s : s[i] = t}

IdeaTypeOK ==
    /\ ideas \in Seq(Title) /\ offered \in Seq(Title)
    /\ shown \in Title \cup {NoIdea}
    /\ description \in Title \cup {NoIdea}
    /\ trapped \in BOOLEAN

IdeaInv ==
    /\ IdeaTypeOK
    /\ EachEntryOnce
    /\ trapped => ideas = <<>>

-----------------------------------------------------------------------------
(* How often a title is in a sequence.                                     *)

LEMMA TimesTyped ==
  ASSUME NEW S, NEW s \in Seq(S), NEW t
  PROVE  IsFiniteSet(Places(s, t)) /\ Times(s, t) = Cardinality(Places(s, t)) /\ Times(s, t) \in Nat
<1>1. IsFiniteSet(1..Len(s))
  BY FS_Interval
<1>2. Places(s, t) \in SUBSET (1..Len(s))
  BY DEF Places
<1>3. IsFiniteSet(Places(s, t))
  BY <1>1, <1>2, FS_Subset
<1> QED
  BY <1>3, FS_CardinalityType DEF Times, Places

LEMMA TimesInNothing ==
  ASSUME NEW t
  PROVE  Times(<<>>, t) = 0
BY FS_EmptySet DEF Times

LEMMA TimesOfAppend ==
  ASSUME NEW S, NEW s \in Seq(S), NEW e \in S, NEW t
  PROVE  Times(Append(s, e), t) = Times(s, t) + (IF e = t THEN 1 ELSE 0)
<1>1. /\ Append(s, e) \in Seq(S) /\ Len(Append(s, e)) = Len(s) + 1
      /\ \A i \in 1..Len(s) : Append(s, e)[i] = s[i]
      /\ Append(s, e)[Len(s) + 1] = e
  OBVIOUS
<1>2. Places(Append(s, e), t) = IF e = t THEN Places(s, t) \cup {Len(s) + 1}
                                ELSE Places(s, t)
  BY <1>1 DEF Places
<1>3. Len(s) + 1 \notin Places(s, t)
  BY DEF Places
<1>4. /\ Times(s, t) = Cardinality(Places(s, t)) /\ Times(s, t) \in Nat
      /\ Times(Append(s, e), t) = Cardinality(Places(Append(s, e), t))
      /\ IsFiniteSet(Places(s, t))
  BY <1>1, TimesTyped
<1>5. Cardinality(Places(s, t) \cup {Len(s) + 1}) = Cardinality(Places(s, t)) + 1
  BY <1>3, <1>4, FS_AddElement
<1> QED
  BY <1>2, <1>4, <1>5

\* The places of a title that are left, and where they were.
LEMMA PlacesOfRemoveAt ==
  ASSUME NEW S, NEW s \in Seq(S), NEW k \in 1..Len(s), NEW t
  PROVE  ExistsBijection(Places(RemoveAt(s, k), t), Places(s, t) \ {k})
<1> DEFINE r == RemoveAt(s, k)
           was == [i \in Places(r, t) |-> IF i < k THEN i ELSE i + 1]
<1>1. /\ r \in Seq(S) /\ Len(r) = Len(s) - 1 /\ DOMAIN r = 1..Len(s) - 1
      /\ \A i \in 1..Len(s) - 1 : r[i] = s[IF i < k THEN i ELSE i + 1]
  BY RemoveAtElements
<1> HIDE DEF r
<1>2. was \in [Places(r, t) -> Places(s, t) \ {k}]
  BY <1>1 DEF Places
<1>3. \A a, b \in Places(r, t) : was[a] = was[b] => a = b
  BY <1>1 DEF Places
<1>4. \A j \in Places(s, t) \ {k} : \E i \in Places(r, t) : was[i] = j
  <2> SUFFICES ASSUME NEW j \in Places(s, t) \ {k}
               PROVE  \E i \in Places(r, t) : was[i] = j
    OBVIOUS
  <2> DEFINE i == IF j < k THEN j ELSE j - 1
  <2>1. /\ i \in 1..Len(s) - 1 /\ (IF i < k THEN i ELSE i + 1) = j /\ s[j] = t
    BY DEF Places
  <2>2. i \in Places(r, t)
    BY <1>1, <2>1 DEF Places
  <2> QED
    BY <2>1, <2>2
<1>5. was \in Bijection(Places(r, t), Places(s, t) \ {k})
  <2> HIDE DEF was
  <2> QED
    BY <1>2, <1>3, <1>4, Fun_IsBij
<1> QED
  BY <1>5, Fun_ExistsBij DEF r

LEMMA TimesOfRemoveAt ==
  ASSUME NEW S, NEW s \in Seq(S), NEW k \in 1..Len(s), NEW t
  PROVE  Times(s, t) = Times(RemoveAt(s, k), t) + (IF s[k] = t THEN 1 ELSE 0)
<1>1. RemoveAt(s, k) \in Seq(S)
  BY RemoveAtElements
<1>2. /\ IsFiniteSet(Places(RemoveAt(s, k), t)) /\ IsFiniteSet(Places(s, t))
      /\ Times(s, t) = Cardinality(Places(s, t)) /\ Times(s, t) \in Nat
      /\ Times(RemoveAt(s, k), t) = Cardinality(Places(RemoveAt(s, k), t))
  BY <1>1, TimesTyped
<1>3. Cardinality(Places(s, t) \ {k}) = Times(RemoveAt(s, k), t)
  BY <1>2, PlacesOfRemoveAt, FS_Bijection
<1>4. k \in Places(s, t) <=> s[k] = t
  BY DEF Places
<1>5. Cardinality(Places(s, t) \ {k}) = IF s[k] = t THEN Times(s, t) - 1 ELSE Times(s, t)
  BY <1>2, <1>4, FS_RemoveElement
<1> QED
  BY <1>2, <1>3, <1>5

-----------------------------------------------------------------------------
(* A draw.                                                                 *)

LEMMA DrawKeepsInv ==
  ASSUME IdeaInv, ~trapped, randomIdea
  PROVE  IdeaInv'
<1> USE DEF IdeaInv, IdeaTypeOK
<1>1. PICK i \in RandomIndex :
        IF i < Len(ideas)
        THEN /\ shown' = ideas[i + 1]
             /\ offered' = Append(offered, ideas[i + 1])
             /\ ideas' = RemoveAt(ideas, i + 1)
             /\ UNCHANGED trapped
        ELSE trapped' = TRUE /\ UNCHANGED <<ideas, offered, shown>>
  BY DEF randomIdea
<1>2. Len(ideas) \in Nat /\ i \in Nat /\ description' = description
  BY DEF RandomIndex, randomIdea
<1>3. CASE i < Len(ideas)
  <2>1. i + 1 \in 1..Len(ideas) /\ ideas[i + 1] \in Title
    BY <1>2, <1>3
  <2>2. /\ ideas' = RemoveAt(ideas, i + 1) /\ ideas' \in Seq(Title)
        /\ offered' = Append(offered, ideas[i + 1]) /\ offered' \in Seq(Title)
    <3>1. ideas' = RemoveAt(ideas, i + 1) /\ offered' = Append(offered, ideas[i + 1])
      BY <1>1, <1>3
    <3>2. ideas \in Seq(Title) /\ offered \in Seq(Title)
      OBVIOUS
    <3>3. RemoveAt(ideas, i + 1) \in Seq(Title)
      BY <2>1, <3>2, RemoveAtElements
    <3>4. Append(offered, ideas[i + 1]) \in Seq(Title)
      BY <2>1, <3>2
    <3> QED
      BY <3>1, <3>3, <3>4
  <2>3. ASSUME NEW t \in Title
        PROVE  Times(ideas, t)' + Times(offered, t)' = Times(IdeaList, t)
    <3> DEFINE one == IF ideas[i + 1] = t THEN 1 ELSE 0
    <3>1. Times(ideas, t) = Times(ideas', t) + one
      BY <2>1, <2>2, TimesOfRemoveAt
    <3>2. Times(offered', t) = Times(offered, t) + one
      BY <2>1, <2>2, TimesOfAppend
    <3>3. Times(ideas, t) + Times(offered, t) = Times(IdeaList, t)
      BY DEF EachEntryOnce, Title
    <3>4. Times(ideas', t) \in Nat /\ Times(offered, t) \in Nat /\ one \in Nat
      BY <2>2, TimesTyped
    <3>5. Times(ideas, t)' = Times(ideas', t) /\ Times(offered, t)' = Times(offered', t)
      BY DEF Times
    <3> HIDE DEF one
    <3> QED
      BY <3>1, <3>2, <3>3, <3>4, <3>5
  <2>4. EachEntryOnce'
    BY <2>3 DEF EachEntryOnce, Title
  <2> QED
    BY <1>1, <1>2, <1>3, <2>1, <2>2, <2>4
<1>4. CASE ~(i < Len(ideas))
  <2>1. ideas = <<>>
    BY <1>2, <1>4 DEF RandomIndex
  <2>2. EachEntryOnce'
    BY <1>1, <1>4 DEF EachEntryOnce, Times
  <2> QED
    BY <1>1, <1>2, <1>4, <2>1, <2>2
<1> QED
  BY <1>3, <1>4

LEMMA FreshList == IdeaInit => IdeaInv
<1> SUFFICES ASSUME IdeaInit PROVE IdeaInv
  OBVIOUS
<1> USE DEF IdeaInit
<1>1. IdeaTypeOK
  <2>1. IdeaList \in Seq(Title)
    BY IdeaAssumption DEF Title
  <2>2. <<>> \in Seq(Title)
    OBVIOUS
  <2> QED
    BY <2>1, <2>2 DEF IdeaTypeOK
<1>2. \A t : Times(IdeaList, t) \in Nat
  BY IdeaAssumption, TimesTyped
<1>3. EachEntryOnce
  BY <1>2, TimesInNothing DEF EachEntryOnce
<1> QED
  BY <1>1, <1>3 DEF IdeaInv

LEMMA IdeaInvInductive ==
  ASSUME IdeaInv, [IdeaNext]_ideaVars
  PROVE  IdeaInv'
<1>1. CASE IdeaButtonTapped \/ NextTapped
  BY <1>1, DrawKeepsInv DEF IdeaButtonTapped, NextTapped
<1>2. CASE UseTapped \/ LeavePlanner \/ UNCHANGED ideaVars
  <2>1. UNCHANGED <<ideas, offered, trapped>>
    BY <1>2 DEF UseTapped, LeavePlanner, ideaVars
  <2>2. IdeaTypeOK'
    BY <1>2 DEF UseTapped, LeavePlanner, ideaVars, IdeaInv, IdeaTypeOK
  <2> QED
    BY <2>1, <2>2 DEF IdeaInv, EachEntryOnce, Times
<1>3. CASE Restart
  <2>1. IdeaInit'
    BY <1>3 DEF Restart, IdeaInit
  <2> QED
    BY <2>1, FreshList, PTL
<1> QED
  BY <1>1, <1>2, <1>3 DEF IdeaNext

THEOREM IdeaInvAlways == IdeaSpec => []IdeaInv
<1>1. IdeaInv /\ [IdeaNext]_ideaVars => IdeaInv'
  BY IdeaInvInductive
<1> QED
  BY <1>1, FreshList, PTL DEF IdeaSpec

\* For every list of ideas: each entry is left in it or was offered, once.
THEOREM EachEntryOnceAlways == IdeaSpec => []EachEntryOnce
<1>1. IdeaInv => EachEntryOnce
  BY DEF IdeaInv
<1> QED
  BY <1>1, IdeaInvAlways, PTL

\* For every list of ideas: a draw traps only when all of them were offered.
THEOREM TrapsOnlyWhenOutAlways == IdeaSpec => []TrapsOnlyWhenOut
<1>1. IdeaInv => TrapsOnlyWhenOut
  <2> SUFFICES ASSUME IdeaInv, trapped, NEW t \in Title
               PROVE  Times(offered, t) = Times(IdeaList, t)
    BY DEF TrapsOnlyWhenOut, Title
  <2>1. Times(ideas, t) = 0
    BY TimesInNothing DEF IdeaInv
  <2>2. Times(offered, t) \in Nat
    BY TimesTyped DEF IdeaInv, IdeaTypeOK
  <2>3. Times(ideas, t) + Times(offered, t) = Times(IdeaList, t)
    BY DEF IdeaInv, EachEntryOnce, Title
  <2> QED
    BY <2>1, <2>2, <2>3
<1> QED
  BY <1>1, IdeaInvAlways, PTL
=============================================================================
