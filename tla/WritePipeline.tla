--------------------------- MODULE WritePipeline ---------------------------
(***************************************************************************)
(* How the Firestore client carries the mutation queue to the server:      *)
(* RemoteStore's pipeline of writes, the write stream with its handshake,  *)
(* its credentials, its back-off and its idle timer, and what is on the    *)
(* wire.  FirestoreClient is the abstract specification that this module   *)
(* implements: handoff, batches and collection are the same, and sent      *)
(* counts the results that are on their way to the client.                 *)
(*                                                                         *)
(* Everything but the server's own steps runs on one worker queue, so one  *)
(* operation of the queue is one action.                                   *)
(***************************************************************************)
EXTENDS FirestoreClient

CONSTANTS MaxPipeline, \* kMaxPendingWrites
          MaxStale     \* bound: outdated callbacks still to come

ASSUME MaxPipelineAssumption == MaxPipeline \in Nat \ {0}
ASSUME MaxStaleAssumption == MaxStale \in Nat

VARIABLES pipeline,  \* RemoteStore.write_pipeline_
          stream,    \* Stream.state_
          handshake, \* how far the open stream's handshake is
          idle,      \* Stream.idleness_timer_ runs
          asked,     \* credentials requested with the current close count
          stale,     \* credentials requested with an older one
          toServer,  \* mutations written to the stream, not yet read
          refusal    \* the server has ended the stream with a permanent error

remoteVars == <<pipeline, stream, handshake, idle, asked, stale, toServer, refusal>>
allVars == <<firestoreVars, remoteVars>>

PipelineTypeOK ==
    /\ FirestoreTypeOK
    /\ pipeline \in Seq(Mutation) /\ toServer \in Seq(Mutation)
    /\ stream \in {"initial", "starting", "open", "error", "backoff"}
    /\ handshake \in {"none", "written", "answered", "complete"}
    /\ idle \in BOOLEAN /\ asked \in BOOLEAN /\ refusal \in BOOLEAN
    /\ stale \in Nat

IsStarted(st) == st \in {"starting", "open", "backoff"}

PipelineInit ==
    /\ FirestoreInit
    /\ pipeline = <<>> /\ toServer = <<>>
    /\ stream = "initial" /\ handshake = "none"
    /\ idle = FALSE /\ asked = FALSE /\ refusal = FALSE /\ stale = 0

-----------------------------------------------------------------------------
(* Parts of the operations.                                                *)

\* After an error the stream backs off, otherwise it asks for credentials.
Start(st) ==
    /\ stream' = IF st = "error" THEN "backoff" ELSE "starting"
    /\ asked' = (st # "error")

\* Mutant: a stream is never started by itself.
NeverStart(p, st) == stream' = st /\ asked' = (asked /\ st = "starting")

StartIfNeeded(p, st) ==
    IF ~IsStarted(st) /\ p # <<>> THEN Start(st)
    ELSE stream' = st /\ asked' = (asked /\ st = "starting")

\* Mutant: the search for batches begins at the front of the queue.
RefillFromFront(q, p) ==
    SubSeq(q, 1, IF Len(q) < MaxPipeline - Len(p) THEN Len(q) ELSE MaxPipeline - Len(p))

\* The batches of q that follow those of the pipeline p, as far as p has room.
Refill(q, p) ==
    SubSeq(q, Len(p) + 1, IF Len(q) < MaxPipeline THEN Len(q) ELSE MaxPipeline)

\* Mutant: a batch is written although the handshake is not complete.
FillBeforeHandshake(q, p, st) ==
    LET added == Refill(q, p)
    IN /\ pipeline' = p \o added
       /\ toServer' = IF st = "open" THEN toServer \o added ELSE <<>>
       /\ idle' = /\ st = "open"
                  /\ pipeline' = <<>> \/ (idle /\ added = <<>>)
       /\ StartIfNeeded(pipeline', st)

\* The pipeline p, whose stream is now in state st, takes what fits of the
\* queue q.  On an open stream each batch is written, which cancels the idle
\* timer; with nothing to send the timer is set.
FillWritePipeline(q, p, st) ==
    LET writing == st = "open" /\ handshake = "complete"
        added == Refill(q, p)
    IN /\ pipeline' = p \o added
       /\ toServer' = IF st # "open" THEN <<>>
                      ELSE IF writing THEN toServer \o added ELSE toServer
       /\ idle' = /\ st = "open"
                  /\ pipeline' = <<>> \/ (idle /\ ~(writing /\ added # <<>>))
       /\ StartIfNeeded(pipeline', st)

\* Mutant: results of the old stream are still read.
CloseKeepingResults ==
    /\ handshake' = "none" /\ refusal' = FALSE /\ sent' = sent
    /\ stale' = IF asked THEN stale + 1 ELSE stale

\* Stream::Close: what was written or asked for on this stream is void.
Close ==
    /\ handshake' = "none" /\ refusal' = FALSE /\ sent' = 0
    /\ stale' = IF asked THEN stale + 1 ELSE stale

-----------------------------------------------------------------------------
(* The worker queue.                                                       *)

AppCall ==
    /\ \E m \in Mutation : Room /\ Enqueue(<<m>>)
    /\ UNCHANGED remoteVars

WriteMutations ==
    /\ handoff # <<>>
    /\ handoff' = Tail(handoff)
    /\ batches' = Append(batches, Head(handoff))
    /\ FillWritePipeline(batches', pipeline, stream)
    /\ UNCHANGED <<sent, collection, handshake, stale, refusal>>

\* Mutant: the close count is not compared.
AnyCredentialsArrive ==
    /\ asked \/ stale > 0
    /\ IF stale > 0 THEN stale' = stale - 1 /\ asked' = asked
                    ELSE asked' = FALSE /\ stale' = stale
    /\ stream' = "open" /\ handshake' = "written"
    /\ UNCHANGED <<firestoreVars, pipeline, idle, toServer, refusal>>

\* The stream opens and the handshake is the first message on it.
CredentialsArrive ==
    /\ asked
    /\ asked' = FALSE
    /\ stream' = "open" /\ handshake' = "written"
    /\ UNCHANGED <<firestoreVars, pipeline, idle, stale, toServer, refusal>>

\* The stream was closed while it waited: the callback does nothing.
StaleCredentialsArrive ==
    /\ stale > 0
    /\ stale' = stale - 1
    /\ UNCHANGED <<firestoreVars, pipeline, stream, handshake, idle, asked,
                   toServer, refusal>>

\* Mutant: only what comes after the handshake is written.
HandshakeAlone ==
    /\ handshake = "answered"
    /\ handshake' = "complete"
    /\ UNCHANGED <<firestoreVars, pipeline, stream, idle, asked, stale, toServer,
                   refusal>>

\* The whole pipeline is written again, whatever the last stream achieved.
ReadHandshake ==
    /\ handshake = "answered"
    /\ handshake' = "complete"
    /\ toServer' = pipeline
    /\ idle' = (idle /\ pipeline = <<>>)
    /\ UNCHANGED <<firestoreVars, pipeline, stream, asked, stale, refusal>>

\* A result is taken to be that of the front of the pipeline.
ReadResult ==
    /\ sent > 0
    /\ sent' = sent - 1
    /\ batches' = Tail(batches)
    /\ FillWritePipeline(batches', Tail(pipeline), stream)
    /\ UNCHANGED <<handoff, collection, handshake, stale, refusal>>

\* The permanent error is read after the results that came before it, or
\* before them when another write fails: that cancels the pending read.  Either
\* way the front of the pipeline is taken to be the write that was refused.
ReadRefusal ==
    /\ refusal
    /\ sent = 0 \/ Len(toServer) > 1
    /\ Close
    /\ batches' = Tail(batches)
    /\ FillWritePipeline(batches', Tail(pipeline), "initial")
    /\ UNCHANGED <<handoff, collection>>

\* Mutant: the pipeline is forgotten with the stream.
BreakForgetting ==
    /\ stream = "open"
    /\ Close
    /\ pipeline' = <<>>
    /\ toServer' = <<>> /\ idle' = FALSE
    /\ StartIfNeeded(<<>>, "error")
    /\ UNCHANGED <<handoff, batches, collection>>

\* Mutant: every error of the stream counts as the refusal of a write.
BreakDropping ==
    /\ stream = "open"
    /\ Close
    /\ batches' = IF handshake = "complete" /\ pipeline # <<>> THEN Tail(batches)
                  ELSE batches
    /\ FillWritePipeline(batches', IF batches' = batches THEN pipeline ELSE Tail(pipeline),
                         "initial")
    /\ UNCHANGED <<handoff, collection>>

\* Any other error: the pipeline stays as it is.
StreamBreaks ==
    /\ stream = "open"
    /\ Close
    /\ toServer' = <<>> /\ idle' = FALSE
    /\ StartIfNeeded(pipeline, "error")
    /\ UNCHANGED <<handoff, batches, collection, pipeline>>

BackoffElapsed ==
    /\ stream = "backoff"
    /\ Start("initial")
    /\ UNCHANGED <<firestoreVars, pipeline, handshake, idle, stale, toServer, refusal>>

IdleStop ==
    /\ idle
    /\ Close
    /\ toServer' = <<>> /\ idle' = FALSE /\ stream' = "initial" /\ asked' = FALSE
    /\ UNCHANGED <<handoff, batches, collection, pipeline>>

\* The connectivity changed: stop, forget the pipeline, start afresh.
RestartNetwork ==
    /\ asked => stale < MaxStale
    /\ Close
    /\ FillWritePipeline(batches, <<>>, "initial")
    /\ UNCHANGED <<handoff, batches, collection>>

\* A new process starts from the queue in LevelDB.
Relaunch ==
    /\ "kill" \in Faults
    /\ \E n \in 0..Len(handoff) : batches' = batches \o SubSeq(handoff, 1, n)
    /\ handoff' = <<>> /\ sent' = 0
    /\ handshake' = "none" /\ refusal' = FALSE /\ stale' = 0
    /\ FillWritePipeline(batches', <<>>, "initial")
    /\ UNCHANGED collection

-----------------------------------------------------------------------------
(* The server answers the open stream in order.                            *)

ServerGreets ==
    /\ handshake = "written"
    /\ handshake' = "answered"
    /\ UNCHANGED <<firestoreVars, pipeline, stream, idle, asked, stale, toServer, refusal>>

ServerTakes ==
    /\ toServer # <<>> /\ ~refusal
    /\ collection' = Apply(collection, Head(toServer))
    /\ toServer' = Tail(toServer)
    /\ sent' = sent + 1
    /\ UNCHANGED <<handoff, batches, pipeline, stream, handshake, idle, asked,
                   stale, refusal>>

ServerRefuses ==
    /\ "reject" \in Faults
    /\ toServer # <<>>
    /\ refusal' = TRUE
    /\ UNCHANGED <<firestoreVars, pipeline, stream, handshake, idle, asked,
                   stale, toServer>>

-----------------------------------------------------------------------------
PipelineNext ==
    \/ AppCall
    \/ WriteMutations
    \/ CredentialsArrive \/ StaleCredentialsArrive
    \/ ReadHandshake \/ ReadResult \/ ReadRefusal
    \/ StreamBreaks \/ BackoffElapsed \/ IdleStop \/ RestartNetwork
    \/ Relaunch
    \/ ServerGreets \/ ServerTakes \/ ServerRefuses

\* The worker queue and its timers run, the server answers; the connection may
\* fail any number of times at each step, but not always before the step.  A
\* refusal needs no more than to be read when nothing else ends its stream.
PipelineFairness ==
    /\ WF_allVars(WriteMutations) /\ WF_allVars(BackoffElapsed) /\ WF_allVars(ReadRefusal)
    /\ SF_allVars(CredentialsArrive)
    /\ SF_allVars(ServerGreets) /\ SF_allVars(ReadHandshake)
    /\ SF_allVars(ServerTakes) /\ SF_allVars(ReadResult)

PipelineSpec == PipelineInit /\ [][PipelineNext]_allVars
FairPipelineSpec == PipelineSpec /\ PipelineFairness

-----------------------------------------------------------------------------
\* The assertions of RemoteStore and Stream hold in every order of results,
\* refusals, timers, restarts and late callbacks: no idle timer stops a stream
\* that is still needed, no result or answer arrives without a write or on a
\* stream that is not open, and credentials resume only a starting stream.
AssertionsHold ==
    /\ idle => pipeline = <<>>
    /\ sent > 0 => pipeline # <<>>
    /\ sent > 0 \/ refusal \/ handshake # "none" => stream = "open"
    /\ asked => stream = "starting"

\* A queue with writes in it is never left alone: its oldest write is in the
\* pipeline, and a stream is there or on its way, although no timer looks for
\* work and each operation starts the stream by itself.
NeverForgotten ==
    batches # <<>> => pipeline # <<>> /\ IsStarted(stream)

\* No write is dropped for another's refusal: a write leaves the queue only after the
\* server has executed it on this stream, or because it is the one that the server
\* refused.  When a refusal overtakes results, what is taken for the refused write
\* was executed, and the refused one is sent again.
LeavesDecided ==
    [][Len(batches') < Len(batches) =>
         /\ batches' = Tail(batches)
         /\ \/ sent > 0
            \/ refusal /\ toServer # <<>> /\ Head(toServer) = Head(batches)]_allVars

\* The pipeline and its stream are, to the app, the mutation queue that
\* FirestoreClient specifies: every write is committed in order and leaves the
\* queue once, after it was committed or refused.
ImplementsClient == FirestoreInit /\ [][FirestoreNext]_firestoreVars

\* The stream's own progress carries every write to the server.
DeliversAsClient == FirestoreSpec
=============================================================================
