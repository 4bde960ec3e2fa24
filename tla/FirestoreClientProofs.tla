----------------------- MODULE FirestoreClientProofs -----------------------
(* Proofs about the Firestore client's write path.                        *)
EXTENDS FirestoreClient, DataLemmas

-----------------------------------------------------------------------------
\* The parts of FirestoreTypeOK that one step keeps, for the steps of this
\* module and for the operations of EventController, which use them.

LEMMA EnqueueTyped ==
  ASSUME FirestoreTypeOK, NEW calls \in Seq(Mutation), Enqueue(calls)
  PROVE  FirestoreTypeOK'
BY DEF FirestoreTypeOK, Enqueue

LEMMA ClientDiesTyped ==
  ASSUME FirestoreTypeOK, NEW q \in Seq(Mutation), ClientDies(q)
  PROVE  FirestoreTypeOK'
<1>1. PICK n \in 0..Len(q) : batches' = batches \o SubSeq(q, 1, n)
  BY DEF ClientDies
<1>2. SubSeq(q, 1, n) \in Seq(Mutation)
  BY SubSeqProperties
<1>3. batches' \in Seq(Mutation)
  BY <1>1, <1>2 DEF FirestoreTypeOK
<1> QED
  BY <1>3 DEF FirestoreTypeOK, ClientDies

LEMMA WriteLocallyTyped ==
  ASSUME FirestoreTypeOK, WriteLocally
  PROVE  FirestoreTypeOK'
<1>1. Head(handoff) \in Mutation /\ Tail(handoff) \in Seq(Mutation)
  BY DEF FirestoreTypeOK, WriteLocally
<1>2. batches' \in Seq(Mutation) /\ Len(batches') = Len(batches) + 1
  BY <1>1, AppendProperties DEF FirestoreTypeOK, WriteLocally
<1> QED
  BY <1>1, <1>2 DEF FirestoreTypeOK, WriteLocally

LEMMA ServerCommitTyped ==
  ASSUME FirestoreTypeOK, ServerCommit
  PROVE  FirestoreTypeOK'
<1>1. batches[sent + 1] \in Mutation
  BY DEF FirestoreTypeOK, ServerCommit
<1>2. collection' \in [Id -> Doc]
  BY <1>1 DEF FirestoreTypeOK, ServerCommit, Apply, Mutation
<1> QED
  BY <1>2 DEF FirestoreTypeOK, ServerCommit

LEMMA BackgroundTyped ==
  ASSUME FirestoreTypeOK, Background \/ RejectBatch
  PROVE  FirestoreTypeOK'
<1>1. CASE WriteLocally
  BY <1>1, WriteLocallyTyped
<1>2. CASE ServerCommit
  BY <1>2, ServerCommitTyped
<1>3. CASE AcknowledgeBatch
  <2>1. batches # <<>>
    BY <1>3 DEF FirestoreTypeOK, AcknowledgeBatch
  <2>2. Tail(batches) \in Seq(Mutation) /\ Len(Tail(batches)) = Len(batches) - 1
    BY <2>1, HeadTailProperties DEF FirestoreTypeOK
  <2> QED
    BY <1>3, <2>2 DEF FirestoreTypeOK, AcknowledgeBatch
<1>4. CASE StreamRestart
  BY <1>4 DEF FirestoreTypeOK, StreamRestart
<1>5. CASE RejectBatch
  <2>1. Tail(batches) \in Seq(Mutation) /\ Len(Tail(batches)) = Len(batches) - 1
    BY <1>5, HeadTailProperties DEF FirestoreTypeOK, RejectBatch
  <2> QED
    BY <1>5, <2>1 DEF FirestoreTypeOK, RejectBatch
<1> QED
  BY <1>1, <1>2, <1>3, <1>4, <1>5 DEF Background

LEMMA FirestoreTypeInductive ==
  ASSUME FirestoreTypeOK, [FirestoreNext]_firestoreVars
  PROVE  FirestoreTypeOK'
<1>1. CASE \E m \in Mutation : Room /\ Enqueue(<<m>>)
  <2>1. PICK m \in Mutation : Enqueue(<<m>>)
    BY <1>1
  <2>2. <<m>> \in Seq(Mutation)
    OBVIOUS
  <2> QED
    BY <2>1, <2>2, EnqueueTyped
<1>2. CASE Background \/ RejectBatch
  BY <1>2, BackgroundTyped
<1>3. CASE "kill" \in Faults /\ ClientDies(handoff)
  BY <1>3, ClientDiesTyped DEF FirestoreTypeOK
<1>4. CASE UNCHANGED firestoreVars
  BY <1>4 DEF FirestoreTypeOK, firestoreVars
<1> QED
  BY <1>1, <1>2, <1>3, <1>4 DEF FirestoreNext

\* The type invariant of the client, for any number of documents and contents
\* and any bound on the writes that wait.
THEOREM FirestoreTypeCorrect == FirestoreSpec => []FirestoreTypeOK
<1>1. FirestoreInit => FirestoreTypeOK
  BY DEF FirestoreInit, FirestoreTypeOK
<1>2. FirestoreTypeOK /\ [FirestoreNext]_firestoreVars => FirestoreTypeOK'
  BY FirestoreTypeInductive
<1> QED
  BY <1>1, <1>2, PTL DEF FirestoreSpec

-----------------------------------------------------------------------------
\* What a step of the client's own module or of one that uses the client can do
\* to the stream: nothing, the client's own work, or its end.
StreamStep == UNCHANGED <<batches, sent, collection>> \/ Background \/ sent' = 0

LEMMA NextIsStreamStep ==
  ASSUME [FirestoreNext]_firestoreVars
  PROVE  StreamStep
BY DEF FirestoreNext, firestoreVars, Enqueue, RejectBatch, ClientDies, StreamStep

\* SentIsApplied is kept by every step: the server's commit adds the document
\* that it writes, the answer removes the oldest of the writes it speaks of,
\* and wherever the stream ends it speaks of none.
LEMMA SentIsAppliedInductive ==
  ASSUME FirestoreTypeOK, SentIsApplied, StreamStep
  PROVE  SentIsApplied'
<1> USE DEF FirestoreTypeOK
<1>2. CASE WriteLocally
  <2>1. \A i \in 1..sent : batches'[i] = batches[i]
    BY <1>2, AppendProperties, HeadTailProperties DEF WriteLocally
  <2> QED
    BY <1>2, <2>1 DEF WriteLocally, SentIsApplied
<1>3. CASE ServerCommit
  <2>1. SUFFICES ASSUME NEW id \in Id, NEW i \in 1..sent + 1, batches[i].id = id,
                        \A j \in (i + 1)..(sent + 1) : batches[j].id # id
                 PROVE  collection'[id] = batches[i].data
    BY <1>3 DEF ServerCommit, SentIsApplied
  <2>2. batches[sent + 1] \in Mutation
    BY <1>3 DEF ServerCommit
  <2>3. CASE i = sent + 1
    BY <1>3, <2>1, <2>2, <2>3 DEF ServerCommit, Apply, Mutation
  <2>4. CASE i # sent + 1
    <3>1. i \in 1..sent /\ sent + 1 \in (i + 1)..(sent + 1)
      BY <2>4
    <3>2. batches[sent + 1].id # id
      BY <2>1, <3>1
    <3>3. collection'[id] = collection[id]
      BY <1>3, <2>2, <3>2 DEF ServerCommit, Apply, Mutation
    <3>4. \A j \in (i + 1)..sent : batches[j].id # id
      BY <2>1
    <3> QED
      BY <2>1, <3>1, <3>3, <3>4 DEF SentIsApplied
  <2> QED
    BY <2>3, <2>4
<1>4. CASE AcknowledgeBatch
  <2>1. batches # <<>>
    BY <1>4 DEF AcknowledgeBatch
  <2>2. \A i \in 1..Len(batches) - 1 : batches'[i] = batches[i + 1]
    BY <1>4, <2>1, HeadTailProperties DEF AcknowledgeBatch
  <2>3. sent' = sent - 1 /\ sent - 1 \in Nat /\ sent <= Len(batches) /\ collection' = collection
    BY <1>4 DEF AcknowledgeBatch
  <2>4. SUFFICES ASSUME NEW id \in Id, NEW i \in 1..sent', batches'[i].id = id,
                        \A j \in (i + 1)..sent' : batches'[j].id # id
                 PROVE  collection'[id] = batches'[i].data
    BY DEF SentIsApplied
  <2>5. i \in 1..Len(batches) - 1 /\ i + 1 \in 1..sent
    BY <2>3
  <2>6. batches[i + 1].id = id /\ batches'[i] = batches[i + 1]
    BY <2>2, <2>4, <2>5
  <2>7. ASSUME NEW j \in (i + 2)..sent PROVE batches[j].id # id
    <3>1. j - 1 \in (i + 1)..sent' /\ (j - 1) + 1 = j /\ j - 1 \in 1..Len(batches) - 1
      BY <2>3, <2>5
    <3>2. batches'[j - 1] = batches[j]
      BY <2>2, <3>1
    <3> QED
      BY <2>4, <3>1, <3>2
  <2>8. collection[id] = batches[i + 1].data
    BY <2>5, <2>6, <2>7 DEF SentIsApplied
  <2> QED
    BY <2>3, <2>6, <2>8
<1>5. CASE sent' = 0
  BY <1>5 DEF SentIsApplied
<1>6. CASE UNCHANGED <<batches, sent, collection>>
  BY <1>6 DEF SentIsApplied
<1> QED
  BY <1>2, <1>3, <1>4, <1>5, <1>6 DEF StreamStep, Background, StreamRestart

\* What the server took on the open stream is what its documents show, for any
\* number of documents, contents and writes.
THEOREM SentIsAppliedAlways == FirestoreSpec => []SentIsApplied
<1>1. FirestoreInit => SentIsApplied
  BY DEF FirestoreInit, SentIsApplied
<1>2. FirestoreTypeOK /\ SentIsApplied /\ [FirestoreNext]_firestoreVars => SentIsApplied'
  BY NextIsStreamStep, SentIsAppliedInductive
<1> QED
  BY <1>1, <1>2, FirestoreTypeCorrect, PTL DEF FirestoreSpec

-----------------------------------------------------------------------------
\* The background steps leave View alone.

LEMMA PendingTyped ==
  ASSUME FirestoreTypeOK
  PROVE  /\ Pending \in Seq(Mutation)
         /\ Len(Pending) = Len(batches) + Len(handoff)
         /\ \A i \in 1..Len(batches) : Pending[i] = batches[i]
         /\ \A id : PendingOf(id) \subseteq 0..Len(Pending)
<1>1. /\ Pending \in Seq(Mutation)
      /\ Len(Pending) = Len(batches) + Len(handoff)
      /\ \A i \in 1..Len(batches) : Pending[i] = batches[i]
  BY ConcatProperties DEF Pending, FirestoreTypeOK
<1>2. \A id : PendingOf(id) \subseteq 0..Len(Pending)
  BY <1>1 DEF PendingOf
<1> QED
  BY <1>1, <1>2

\* What the client sees of a document is a content or that it does not exist.
LEMMA ViewTyped ==
  ASSUME FirestoreTypeOK, NEW id \in Id
  PROVE  View(id) \in Doc
<1>1. CASE PendingOf(id) = {}
  BY <1>1 DEF View, FirestoreTypeOK
<1>2. CASE PendingOf(id) # {}
  <2>1. Len(Pending) \in Nat /\ PendingOf(id) \subseteq 0..Len(Pending)
    BY PendingTyped DEF FirestoreTypeOK
  <2>2. Max(PendingOf(id)) \in PendingOf(id)
    BY <1>2, <2>1, MaxIsGreatest
  <2>3. Pending[Max(PendingOf(id))] \in Mutation
    BY <2>2, PendingTyped DEF PendingOf
  <2> QED
    BY <1>2, <2>3 DEF View, Mutation
<1> QED
  BY <1>1, <1>2

\* A call shows at once in the view of its document, and in no other.
LEMMA EnqueueShows ==
  ASSUME FirestoreTypeOK, NEW m \in Mutation, Enqueue(<<m>>), NEW id \in Id
  PROVE  View(id)' = IF id = m.id THEN m.data ELSE View(id)
<1> DEFINE n == Len(Pending)
<1>1. Pending \in Seq(Mutation) /\ n \in Nat /\ PendingOf(id) \subseteq 0..n
  BY PendingTyped DEF FirestoreTypeOK
<1>2. collection' = collection /\ Pending' = Append(Pending, m)
  <2>1. batches \o Append(handoff, m) = Append(batches \o handoff, m)
    BY DEF FirestoreTypeOK
  <2> QED
    BY <2>1 DEF Enqueue, Pending, FirestoreTypeOK
<1>3. /\ Len(Pending') = n + 1 /\ Pending'[n + 1] = m
      /\ \A i \in 1..n : Pending'[i] = Pending[i]
      /\ DOMAIN Pending' = 1..n + 1 /\ DOMAIN Pending = 1..n
  BY <1>1, <1>2
<1> HIDE DEF n
<1>4. CASE id = m.id
  <2>1. n + 1 \in PendingOf(id)' /\ PendingOf(id)' \subseteq 0..n + 1
    BY <1>1, <1>3, <1>4 DEF PendingOf
  <2>2. Max(PendingOf(id)') = n + 1
    BY <1>1, <2>1, MaxIsGreatest
  <2> QED
    BY <1>3, <1>4, <2>1, <2>2 DEF View
<1>5. CASE id # m.id
  <2>1. PendingOf(id)' = PendingOf(id)
    BY <1>1, <1>3, <1>5 DEF PendingOf
  <2>2. CASE PendingOf(id) = {}
    BY <1>2, <1>5, <2>1, <2>2 DEF View
  <2>3. CASE PendingOf(id) # {}
    <3>1. Max(PendingOf(id)) \in PendingOf(id)
      BY <1>1, <2>3, MaxIsGreatest
    <3>2. Max(PendingOf(id)) \in 1..n
      BY <1>3, <3>1 DEF PendingOf
    <3> QED
      BY <1>3, <1>5, <2>1, <2>3, <3>2 DEF View
  <2> QED
    BY <2>2, <2>3
<1> QED
  BY <1>4, <1>5

LEMMA WriteLocallyKeepsView ==
  ASSUME FirestoreTypeOK, WriteLocally
  PROVE  \A id \in Id : View(id)' = View(id)
<1>1. Pending' = Pending
  BY ConcatShift DEF FirestoreTypeOK, WriteLocally, Pending
<1>2. collection' = collection
  BY DEF WriteLocally
<1> QED
  BY <1>1, <1>2 DEF View, PendingOf

\* The document that is written is one with a pending write.
LEMMA ServerCommitKeepsView ==
  ASSUME FirestoreTypeOK, ServerCommit
  PROVE  \A id \in Id : View(id)' = View(id)
<1> SUFFICES ASSUME NEW id \in Id PROVE View(id)' = View(id)
  OBVIOUS
<1>1. Pending' = Pending /\ PendingOf(id)' = PendingOf(id)
  BY DEF ServerCommit, Pending, PendingOf
<1>2. batches[sent + 1] \in Mutation /\ sent + 1 \in 1..Len(batches)
  BY DEF FirestoreTypeOK, ServerCommit
<1>3. CASE batches[sent + 1].id = id
  <2>1. sent + 1 \in PendingOf(id)
    BY <1>2, <1>3, PendingTyped DEF PendingOf, FirestoreTypeOK
  <2> QED
    BY <1>1, <2>1 DEF View
<1>4. CASE batches[sent + 1].id # id
  <2>1. collection'[id] = collection[id]
    BY <1>2, <1>4 DEF FirestoreTypeOK, ServerCommit, Apply, Mutation
  <2> QED
    BY <1>1, <2>1 DEF View
<1> QED
  BY <1>3, <1>4

\* When the oldest write leaves the queue, only a document that has no other
\* pending write, and that the server does not have as that write makes it, is
\* seen to change.
LEMMA DropKeepsView ==
  ASSUME FirestoreTypeOK, batches # <<>>, batches' = Tail(batches),
         UNCHANGED <<handoff, collection>>, NEW id,
         PendingOf(id) = {1} => collection[id] = batches[1].data
  PROVE  View(id)' = View(id)
<1>1. /\ Pending \in Seq(Mutation) /\ Pending[1] = batches[1]
      /\ PendingOf(id) \subseteq 0..Len(Pending) /\ Len(Pending) \in Nat
      /\ \A i \in 1..Len(batches) : Pending[i] = batches[i]
      /\ Len(Pending) >= Len(batches)
  BY PendingTyped DEF FirestoreTypeOK
<1>2. collection' = collection /\ Pending' = Tail(batches) \o handoff
  BY DEF Pending
<1>3. /\ Len(Pending') = Len(Pending) - 1
      /\ \A i \in 1..Len(Pending) - 1 : Pending'[i] = Pending[i + 1]
      /\ DOMAIN Pending' = 1..Len(Pending) - 1
  <2>1. /\ Len(Tail(batches) \o handoff) = Len(batches \o handoff) - 1
        /\ \A i \in 1..Len(batches \o handoff) - 1 :
             (Tail(batches) \o handoff)[i] = (batches \o handoff)[i + 1]
        /\ Tail(batches) \in Seq(Mutation)
    BY <1>2, TailOfConcat DEF FirestoreTypeOK
  <2> QED
    BY <1>1, <1>2, <2>1 DEF Pending, FirestoreTypeOK
<1>4. \A i \in 1..Len(Pending) - 1 : i \in PendingOf(id)' <=> i + 1 \in PendingOf(id)
  BY <1>1, <1>3 DEF PendingOf
<1>5. PendingOf(id)' \subseteq 1..Len(Pending) - 1
  BY <1>3 DEF PendingOf
<1>6. CASE PendingOf(id)' = {}
  <2>1. CASE PendingOf(id) = {}
    BY <1>2, <1>6, <2>1 DEF View
  <2>2. CASE PendingOf(id) # {}
    <3>1. ASSUME NEW k \in PendingOf(id) PROVE k = 1
      <4>1. k \in 1..Len(Pending)
        BY <1>1 DEF PendingOf
      <4>2. CASE k # 1
        <5>1. k - 1 \in 1..Len(Pending) - 1 /\ (k - 1) + 1 = k
          BY <4>1, <4>2
        <5> QED
          BY <1>4, <1>6, <5>1
      <4> QED
        BY <4>2
    <3>2. PendingOf(id) = {1}
      BY <2>2, <3>1
    <3>3. Max(PendingOf(id)) = 1
      BY <1>1, <3>2, MaxIsGreatest
    <3>4. View(id) = batches[1].data
      BY <1>1, <2>2, <3>2, <3>3 DEF View
    <3> QED
      BY <1>2, <1>6, <3>2, <3>4 DEF View
  <2> QED
    BY <2>1, <2>2
<1>7. CASE PendingOf(id)' # {}
  <2> DEFINE new == Max(PendingOf(id)')
             old == Max(PendingOf(id))
  <2>1. new \in PendingOf(id)' /\ \A i \in PendingOf(id)' : new >= i
    <3>1. PendingOf(id)' \subseteq 0..Len(Pending)
      BY <1>1, <1>5
    <3> QED
      BY <1>1, <1>7, <3>1, MaxIsGreatest
  <2>2. new \in 1..Len(Pending) - 1 /\ new + 1 \in PendingOf(id)
    BY <1>4, <1>5, <2>1
  <2>3. old \in PendingOf(id) /\ \A i \in PendingOf(id) : old >= i
    BY <1>1, <2>2, MaxIsGreatest
  <2>4. old \in 1..Len(Pending) /\ old >= new + 1
    BY <1>1, <2>2, <2>3 DEF PendingOf
  <2>5. old - 1 \in 1..Len(Pending) - 1 /\ (old - 1) + 1 = old
    <3> HIDE DEF new, old
    <3>1. \A l \in Nat : \A j \in 1..l - 1, k \in 1..l :
            k >= j + 1 => k - 1 \in 1..l - 1 /\ (k - 1) + 1 = k
      OBVIOUS
    <3> QED
      BY <1>1, <2>2, <2>4, <3>1
  <2>6. new >= old - 1
    BY <1>4, <2>1, <2>3, <2>5
  <2>7. old = new + 1
    BY <1>1, <2>2, <2>4, <2>6
  <2> QED
    BY <1>3, <1>7, <2>2, <2>7 DEF View
<1> QED
  BY <1>6, <1>7

\* The write that was answered is in the server's document already, or a newer
\* one of the same document is still pending.
LEMMA AcknowledgeKeepsView ==
  ASSUME FirestoreTypeOK, SentIsApplied, AcknowledgeBatch
  PROVE  \A id \in Id : View(id)' = View(id)
<1> SUFFICES ASSUME NEW id \in Id PROVE View(id)' = View(id)
  OBVIOUS
<1>1. ASSUME PendingOf(id) = {1} PROVE collection[id] = batches[1].data
  <2>1. \A i \in 1..Len(batches) : batches[i].id = id <=> i \in PendingOf(id)
    BY PendingTyped DEF FirestoreTypeOK, PendingOf
  <2>2. \A j \in 2..sent : j \in 1..Len(batches) /\ j # 1
    BY DEF FirestoreTypeOK
  <2>3. 1 \in 1..sent /\ 1 \in 1..Len(batches)
    BY DEF AcknowledgeBatch, FirestoreTypeOK
  <2> QED
    BY <1>1, <2>1, <2>2, <2>3 DEF SentIsApplied
<1> QED
  BY <1>1, DropKeepsView DEF AcknowledgeBatch, FirestoreTypeOK

\* A refusal shows in the view of the document of the refused write only.
LEMMA RejectKeepsOthers ==
  ASSUME FirestoreTypeOK, RejectBatch, NEW id, id # Head(batches).id
  PROVE  View(id)' = View(id)
<1>1. PendingOf(id) # {1}
  <2>1. Pending[1] = Head(batches)
    BY PendingTyped DEF FirestoreTypeOK, RejectBatch
  <2> QED
    BY <2>1 DEF PendingOf
<1> QED
  BY <1>1, DropKeepsView DEF RejectBatch

\* When the process dies with the calls q, which include the waiting ones, nothing
\* is seen to change but the documents that q writes.
LEMMA DeathKeepsOthers ==
  ASSUME FirestoreTypeOK, NEW calls \in Seq(Mutation), ClientDies(handoff \o calls),
         NEW id, \A i \in DOMAIN handoff : handoff[i].id # id,
         \A i \in DOMAIN calls : calls[i].id # id
  PROVE  View(id)' = View(id)
<1> DEFINE q == handoff \o calls
<1>1. /\ batches \in Seq(Mutation) /\ handoff \in Seq(Mutation)
      /\ DOMAIN handoff = 1..Len(handoff) /\ DOMAIN calls = 1..Len(calls)
  BY DEF FirestoreTypeOK
<1>2. /\ q \in Seq(Mutation) /\ Len(q) = Len(handoff) + Len(calls)
      /\ \A i \in 1..Len(handoff) + Len(calls) :
           q[i] = IF i <= Len(handoff) THEN handoff[i] ELSE calls[i - Len(handoff)]
  BY <1>1, ConcatProperties
<1>3. ASSUME NEW i \in 1..Len(q) PROVE q[i].id # id
  <2>1. CASE i <= Len(handoff)
    BY <1>1, <1>2, <2>1
  <2>2. CASE ~(i <= Len(handoff))
    <3>1. i - Len(handoff) \in 1..Len(calls)
      BY <1>1, <1>2, <2>2
    <3> QED
      BY <1>1, <1>2, <2>2, <3>1
  <2> QED
    BY <2>1, <2>2
<1> HIDE DEF q
<1>4. PICK n \in 0..Len(q) : batches' = batches \o SubSeq(q, 1, n)
  BY DEF ClientDies, q
<1> DEFINE t == SubSeq(q, 1, n)
<1>5. t \in Seq(Mutation) /\ Len(t) = n /\ \A i \in 1..n : t[i] = q[i]
  BY <1>2, SubSeqProperties
<1> HIDE DEF t
<1>6. Pending' = batches \o t /\ collection' = collection
  <2>1. batches \o t \in Seq(Mutation) /\ (batches \o t) \o <<>> = batches \o t
    BY <1>1, <1>5
  <2> QED
    BY <1>4, <2>1 DEF ClientDies, Pending, t
<1>7. /\ DOMAIN Pending' = 1..Len(batches) + n
      /\ \A i \in 1..Len(batches) + n :
           Pending'[i] = IF i <= Len(batches) THEN batches[i] ELSE t[i - Len(batches)]
  <2>1. /\ batches \o t \in Seq(Mutation) /\ Len(batches \o t) = Len(batches) + n
        /\ \A i \in 1..Len(batches) + n :
             (batches \o t)[i] = IF i <= Len(batches) THEN batches[i]
                                 ELSE t[i - Len(batches)]
    BY <1>1, <1>5, ConcatProperties
  <2> QED
    BY <1>6, <2>1
<1>8. /\ DOMAIN Pending = 1..Len(batches) + Len(handoff)
      /\ \A i \in 1..Len(batches) + Len(handoff) :
           Pending[i] = IF i <= Len(batches) THEN batches[i] ELSE handoff[i - Len(batches)]
  BY <1>1, ConcatProperties DEF Pending
<1>9. ASSUME NEW i \in PendingOf(id) PROVE i \in 1..Len(batches)
  <2>1. i \in 1..Len(batches) + Len(handoff) /\ Pending[i].id = id
    BY <1>8 DEF PendingOf
  <2>2. CASE ~(i <= Len(batches))
    <3>1. i - Len(batches) \in 1..Len(handoff)
      BY <1>1, <2>1, <2>2
    <3> QED
      BY <1>1, <1>8, <2>1, <2>2, <3>1
  <2> QED
    BY <1>1, <2>1, <2>2
<1>10. ASSUME NEW i \in PendingOf(id)' PROVE i \in 1..Len(batches)
  <2>1. i \in 1..Len(batches) + n /\ Pending'[i].id = id
    BY <1>7 DEF PendingOf
  <2>2. CASE ~(i <= Len(batches))
    <3>1. i - Len(batches) \in 1..n /\ i - Len(batches) \in 1..Len(q)
      BY <1>1, <1>2, <2>1, <2>2
    <3> QED
      BY <1>3, <1>5, <1>7, <2>1, <2>2, <3>1
  <2> QED
    BY <1>1, <2>1, <2>2
<1>11. \A i \in 1..Len(batches) : /\ i \in DOMAIN Pending /\ i \in DOMAIN Pending'
                                  /\ Pending[i] = batches[i] /\ Pending'[i] = batches[i]
  BY <1>1, <1>7, <1>8
<1>12. PendingOf(id)' = PendingOf(id)
  BY <1>9, <1>10, <1>11 DEF PendingOf
<1>13. PendingOf(id) # {} => Max(PendingOf(id)) \in 1..Len(batches)
  <2>1. PendingOf(id) \subseteq 0..Len(batches) /\ Len(batches) \in Nat
    BY <1>1, <1>9
  <2> QED
    BY <1>9, <2>1, MaxIsGreatest
<1> QED
  BY <1>6, <1>11, <1>12, <1>13 DEF View

LEMMA ViewStableStep ==
  ASSUME FirestoreTypeOK, SentIsApplied
  PROVE  [Background => \A id \in Id : View(id)' = View(id)]_firestoreVars
<1> SUFFICES ASSUME Background
             PROVE  \A id \in Id : View(id)' = View(id)
  OBVIOUS
<1>1. CASE StreamRestart
  BY <1>1 DEF StreamRestart, View, PendingOf, Pending
<1> QED
  BY <1>1, WriteLocallyKeepsView, ServerCommitKeepsView, AcknowledgeKeepsView
  DEF Background

\* No background step takes an older document back into the client's view.
THEOREM ViewStable == FirestoreSpec => ViewIsStable
<1>1. FirestoreTypeOK /\ SentIsApplied /\ [FirestoreNext]_firestoreVars
        => [Background => \A id \in Id : View(id)' = View(id)]_firestoreVars
  BY ViewStableStep
<1> QED
  BY <1>1, FirestoreTypeCorrect, SentIsAppliedAlways, PTL DEF FirestoreSpec, ViewIsStable
=============================================================================
