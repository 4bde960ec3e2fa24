-------------------------- MODULE FirestoreClient --------------------------
(***************************************************************************)
(* The part of the Firestore client that the app's three write calls go    *)
(* through: setData, setData(merge: true) and delete on a document of the  *)
(* collection "events".  None of the calls passes a completion block, so   *)
(* nothing of what happens here ever comes back to the app.                *)
(*                                                                         *)
(*   app thread --handoff--> worker queue --batches--> server --> docs     *)
(*                                                                         *)
(* handoff is in memory only; batches is the mutation queue in LevelDB and *)
(* survives the process.  The writes are sent in order, several before the *)
(* first is answered, and after a broken stream they are sent again.       *)
(***************************************************************************)
EXTENDS Naturals, Sequences, FiniteSetsExt

CONSTANTS Id,       \* document names: the UUIDs of events
          Content,  \* values of the five fields of an event, together
          NoDoc,    \* the value of a document that does not exist
          Faults,   \* what may go wrong in this environment
          MaxPending \* bound: writes the server has not answered

ASSUME NoDocAssumption == NoDoc \notin Content
ASSUME MaxPendingAssumption == MaxPending \in Nat

VARIABLES handoff,     \* mutations enqueued on the worker queue (volatile)
          batches,     \* mutation queue (durable), oldest first
          sent,        \* how many of batches the server took on this stream
          collection   \* the server's documents

firestoreVars == <<handoff, batches, sent, collection>>

Doc == Content \cup {NoDoc}

\* Both setData calls name the same five fields and no other code writes the
\* collection, so a merge leaves the document a plain set would leave: the
\* merge patch carries no precondition and creates a missing document too.
Mutation == [id : Id, data : Doc]
SetData(id, c) == [id |-> id, data |-> c]
DeleteDocument(id) == [id |-> id, data |-> NoDoc]

Apply(docs, m) == [docs EXCEPT ![m.id] = m.data]

FirestoreTypeOK ==
    /\ handoff \in Seq(Mutation)
    /\ batches \in Seq(Mutation)
    /\ sent \in 0..Len(batches)
    /\ collection \in [Id -> Doc]

-----------------------------------------------------------------------------
\* The documents as the client's own reads see them: the newest pending
\* mutation of a document, or what the server has.
Pending == batches \o handoff
PendingOf(id) == {i \in DOMAIN Pending : Pending[i].id = id}
View(id) == IF PendingOf(id) = {} THEN collection[id]
                                  ELSE Pending[Max(PendingOf(id))].data

FirestoreInit ==
    /\ handoff = <<>> /\ batches = <<>> /\ sent = 0
    /\ collection \in [Id -> Doc]

-----------------------------------------------------------------------------
\* The app's calls only enqueue, they never wait and never fail.
Room == Len(Pending) < MaxPending
Enqueue(calls) ==
    /\ handoff' = handoff \o calls
    /\ UNCHANGED <<batches, sent, collection>>

\* The worker queue takes the oldest call and makes it durable.
WriteLocally ==
    /\ handoff # <<>>
    /\ batches' = Append(batches, Head(handoff))
    /\ handoff' = Tail(handoff)
    /\ UNCHANGED <<sent, collection>>

\* The server executes the next mutation that the open stream carried to it.
ServerCommit ==
    /\ sent < Len(batches)
    /\ collection' = Apply(collection, batches[sent + 1])
    /\ sent' = sent + 1
    /\ UNCHANGED <<handoff, batches>>

\* The answer to the oldest batch arrives: it leaves the pipeline and the queue.
AcknowledgeBatch ==
    /\ sent > 0
    /\ batches' = Tail(batches)
    /\ sent' = sent - 1
    /\ UNCHANGED <<handoff, collection>>

\* The stream breaks with answers outstanding.  The next handshake sends the
\* whole pipeline again, committed or not.
StreamRestart ==
    /\ sent > 0
    /\ sent' = 0
    /\ UNCHANGED <<handoff, batches, collection>>

\* The server refuses a write for good, which ends the stream: the oldest
\* batch is dropped, and the only one told is the completion block that the app
\* did not pass.
RejectBatch ==
    /\ "reject" \in Faults
    /\ batches # <<>>
    /\ batches' = Tail(batches)
    /\ sent' = 0
    /\ UNCHANGED <<handoff, collection>>

\* The process dies with the calls q still on the worker queue: the first few
\* may have become durable, the others are lost, and the stream is gone.
ClientDies(q) ==
    /\ \E n \in 0..Len(q) : batches' = batches \o SubSeq(q, 1, n)
    /\ handoff' = <<>>
    /\ sent' = 0
    /\ UNCHANGED collection

-----------------------------------------------------------------------------
(* The client on its own, called with any writes.                          *)

Background == WriteLocally \/ ServerCommit \/ AcknowledgeBatch \/ StreamRestart

FirestoreNext ==
    \/ \E m \in Mutation : Room /\ Enqueue(<<m>>)
    \/ Background
    \/ RejectBatch
    \/ "kill" \in Faults /\ ClientDies(handoff)

\* The client sends while it has something to send and the server answers; a
\* stream may break any number of times, but not always before the answer.
FirestoreFairness ==
    /\ WF_firestoreVars(WriteLocally)
    /\ WF_firestoreVars(ServerCommit)
    /\ SF_firestoreVars(AcknowledgeBatch)

FirestoreSpec ==
    FirestoreInit /\ [][FirestoreNext]_firestoreVars /\ FirestoreFairness

-----------------------------------------------------------------------------
\* A write leaves the queue only when the documents show it: the newest write
\* that the server took on this stream is what the server has, for every
\* document, whatever was sent twice before.
SentIsApplied ==
    \A id \in Id, i \in 1..sent :
      batches[i].id = id =>
        \/ collection[id] = batches[i].data
        \/ \E j \in (i + 1)..sent : batches[j].id = id

\* The client's own view of the documents changes only when the app asks for a
\* write, a write is refused or the process dies: neither making a call
\* durable, nor the server's commit or answer, nor a stream that breaks and
\* sends the same writes again takes an older document back into view.
ViewIsStable ==
    [][Background => \A id \in Id : View(id)' = View(id)]_firestoreVars

\* The newest write of a document reaches the server unless it is overtaken
\* by another or lost with the process before it is durable.
Published ==
    \A id \in Id, d \in Doc :
      View(id) = d ~> (collection[id] = d \/ View(id) # d)
=============================================================================
