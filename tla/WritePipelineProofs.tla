------------------------ MODULE WritePipelineProofs ------------------------
(* The write pipeline implements the mutation queue of FirestoreClient, and *)
(* the assertions in its code hold, for any number of documents, contents  *)
(* and writes and any size of the pipeline.                                *)
EXTENDS WritePipeline, FirestoreClientProofs

\* The size of a pipeline that is filled from the queue q, and that pipeline.
Filled(q) == IF Len(q) < MaxPipeline THEN Len(q) ELSE MaxPipeline
Window(q) == SubSeq(q, 1, Filled(q))

\* The strengthening.  The pipeline is always filled, so it is the front of the
\* queue; on a stream past its handshake the results on their way and the
\* writes on their way make up the pipeline; on any other stream nothing is.
StreamInv ==
    /\ IF stream = "open" THEN handshake # "none" ELSE handshake = "none" /\ ~idle
    /\ asked <=> stream = "starting"
    /\ stream \in {"starting", "backoff"} => pipeline # <<>>
    /\ handshake \in {"written", "answered"} => pipeline # <<>>
    /\ pipeline # <<>> => IsStarted(stream)
    /\ idle => pipeline = <<>>
WireInv ==
    /\ handshake # "complete" => toServer = <<>> /\ sent = 0 /\ ~refusal
    /\ handshake = "complete" =>
         sent <= Len(pipeline) /\ toServer = SubSeq(pipeline, sent + 1, Len(pipeline))
    /\ refusal => toServer # <<>> /\ "reject" \in Faults
PipelineInv ==
    /\ PipelineTypeOK
    /\ pipeline = Window(batches)
    /\ StreamInv
    /\ WireInv

-----------------------------------------------------------------------------
(* Windows.                                                                *)

LEMMA WindowProperties ==
  ASSUME NEW q \in Seq(Mutation)
  PROVE  /\ Filled(q) \in Nat /\ Filled(q) <= Len(q) /\ Filled(q) <= MaxPipeline
         /\ Window(q) \in Seq(Mutation) /\ Len(Window(q)) = Filled(q)
         /\ \A i \in 1..Filled(q) : Window(q)[i] = q[i]
         /\ Window(q) = <<>> <=> q = <<>>
<1>1. Filled(q) \in Nat /\ Filled(q) <= Len(q) /\ Filled(q) <= MaxPipeline
  BY MaxPipelineAssumption DEF Filled
<1>2. /\ Window(q) \in Seq(Mutation) /\ Len(Window(q)) = Filled(q)
      /\ \A i \in 1..Filled(q) : Window(q)[i] = q[i]
  BY <1>1, SubSeqProperties DEF Window
<1>3. Filled(q) = 0 <=> q = <<>>
  BY MaxPipelineAssumption DEF Filled
<1> QED
  BY <1>1, <1>2, <1>3

\* A front of the queue is filled up to the window.
LEMMA RefillGivesWindow ==
  ASSUME NEW q \in Seq(Mutation), NEW p \in Seq(Mutation), Len(p) <= Filled(q),
         \A i \in 1..Len(p) : p[i] = q[i]
  PROVE  Refill(q, p) \in Seq(Mutation) /\ p \o Refill(q, p) = Window(q)
<1> DEFINE r == Refill(q, p)
           w == p \o r
<1>1. Filled(q) \in Nat /\ Filled(q) <= Len(q) /\ Len(p) \in Nat
  BY WindowProperties
<1>2. r = SubSeq(q, Len(p) + 1, Filled(q))
  BY DEF Refill, Filled
<1>3. /\ r \in Seq(Mutation) /\ Len(r) = Filled(q) - Len(p)
      /\ \A i \in 1..Filled(q) - Len(p) : r[i] = q[Len(p) + i]
  <2>1. Len(p) + 1 \in 1..Len(q) + 1 /\ Filled(q) \in Len(p)..Len(q)
    BY <1>1
  <2> QED
    BY <1>1, <1>2, <2>1, SubSeqProperties
<1>4. /\ w \in Seq(Mutation) /\ Len(w) = Filled(q)
      /\ \A i \in 1..Filled(q) : w[i] = IF i <= Len(p) THEN p[i] ELSE r[i - Len(p)]
  BY <1>1, <1>3, ConcatProperties
<1> HIDE DEF r, w
<1>5. ASSUME NEW i \in 1..Filled(q) PROVE w[i] = q[i]
  <2>1. CASE i <= Len(p)
    BY <1>1, <1>4, <2>1
  <2>2. CASE ~(i <= Len(p))
    <3>1. i - Len(p) \in 1..Filled(q) - Len(p) /\ Len(p) + (i - Len(p)) = i
      BY <1>1, <2>2
    <3> QED
      BY <1>3, <1>4, <2>2, <3>1
  <2> QED
    BY <2>1, <2>2
<1>6. w = Window(q)
  <2>1. /\ Window(q) \in Seq(Mutation) /\ Len(w) = Len(Window(q))
        /\ \A i \in 1..Len(w) : w[i] = Window(q)[i]
    BY <1>4, <1>5, WindowProperties
  <2> HIDE DEF Window
  <2> QED
    BY <1>4, <2>1, SeqEqual
<1> QED
  BY <1>3, <1>6 DEF r, w

\* The window before a batch is added is a front of the longer queue.
LEMMA WindowOfAppend ==
  ASSUME NEW q \in Seq(Mutation), NEW e \in Mutation
  PROVE  /\ Append(q, e) \in Seq(Mutation)
         /\ Len(Window(q)) <= Filled(Append(q, e))
         /\ \A i \in 1..Len(Window(q)) : Window(q)[i] = Append(q, e)[i]
<1>1. /\ Append(q, e) \in Seq(Mutation) /\ Len(Append(q, e)) = Len(q) + 1
      /\ \A i \in 1..Len(q) : Append(q, e)[i] = q[i]
  BY AppendProperties
<1>2. Filled(q) <= Filled(Append(q, e))
  BY <1>1, MaxPipelineAssumption DEF Filled
<1> QED
  BY <1>1, <1>2, WindowProperties

\* When the first batch leaves, the rest of the window is a front of the rest.
LEMMA WindowOfTail ==
  ASSUME NEW q \in Seq(Mutation), q # <<>>
  PROVE  /\ Tail(q) \in Seq(Mutation) /\ Window(q) # <<>>
         /\ Tail(Window(q)) \in Seq(Mutation)
         /\ Len(Tail(Window(q))) = Len(Window(q)) - 1
         /\ Len(Tail(Window(q))) <= Filled(Tail(q))
         /\ \A i \in 1..Len(Tail(Window(q))) : Tail(Window(q))[i] = Tail(q)[i]
<1>1. /\ Tail(q) \in Seq(Mutation) /\ Len(Tail(q)) = Len(q) - 1
      /\ \A i \in 1..Len(q) - 1 : Tail(q)[i] = q[i + 1]
  BY HeadTailProperties
<1>2. /\ Window(q) \in Seq(Mutation) /\ Window(q) # <<>> /\ Len(Window(q)) = Filled(q)
      /\ Filled(q) \in Nat /\ Filled(q) <= Len(q)
      /\ \A i \in 1..Filled(q) : Window(q)[i] = q[i]
  BY WindowProperties
<1>3. /\ Tail(Window(q)) \in Seq(Mutation) /\ Len(Tail(Window(q))) = Filled(q) - 1
      /\ \A i \in 1..Filled(q) - 1 : Tail(Window(q))[i] = Window(q)[i + 1]
  BY <1>2, HeadTailProperties
<1>4. Filled(q) - 1 <= Filled(Tail(q))
  BY <1>1, MaxPipelineAssumption DEF Filled
<1>5. ASSUME NEW i \in 1..Filled(q) - 1 PROVE Tail(Window(q))[i] = Tail(q)[i]
  <2>1. i + 1 \in 1..Filled(q) /\ i \in 1..Len(q) - 1
    BY <1>2
  <2> QED
    BY <1>1, <1>2, <1>3, <2>1
<1> QED
  BY <1>1, <1>2, <1>3, <1>4, <1>5

\* What is left of a sequence after n elements, when the sequence grows at its
\* end and when it loses its first element.
LEMMA SuffixOfConcat ==
  ASSUME NEW s \in Seq(Mutation), NEW t \in Seq(Mutation), NEW n \in Nat, n <= Len(s)
  PROVE  /\ n <= Len(s \o t)
         /\ SubSeq(s, n + 1, Len(s)) \o t = SubSeq(s \o t, n + 1, Len(s \o t))
<1> DEFINE u == s \o t
           l == SubSeq(s, n + 1, Len(s))
           m == SubSeq(u, n + 1, Len(u))
<1>1. /\ u \in Seq(Mutation) /\ Len(u) = Len(s) + Len(t)
      /\ \A i \in 1..Len(s) + Len(t) : u[i] = IF i <= Len(s) THEN s[i] ELSE t[i - Len(s)]
  BY ConcatProperties
<1>2. Len(s) \in Nat /\ Len(t) \in Nat
  OBVIOUS
<1> HIDE DEF u
<1>3. /\ l \in Seq(Mutation) /\ Len(l) = Len(s) - n
      /\ \A i \in 1..Len(s) - n : l[i] = s[n + i]
  <2>1. n + 1 \in 1..Len(s) + 1 /\ Len(s) \in n..Len(s)
    BY <1>2
  <2> QED
    BY <1>2, <2>1, SubSeqProperties
<1>4. /\ m \in Seq(Mutation) /\ Len(m) = Len(u) - n
      /\ \A i \in 1..Len(u) - n : m[i] = u[n + i]
  <2>1. n + 1 \in 1..Len(u) + 1 /\ Len(u) \in n..Len(u)
    BY <1>1, <1>2
  <2> QED
    BY <1>1, <1>2, <2>1, SubSeqProperties
<1> HIDE DEF l, m
<1>5. /\ l \o t \in Seq(Mutation) /\ Len(l \o t) = Len(m)
      /\ \A i \in 1..Len(m) : (l \o t)[i] = IF i <= Len(l) THEN l[i] ELSE t[i - Len(l)]
  <2>1. /\ l \o t \in Seq(Mutation) /\ Len(l \o t) = Len(l) + Len(t)
        /\ \A i \in 1..Len(l) + Len(t) :
             (l \o t)[i] = IF i <= Len(l) THEN l[i] ELSE t[i - Len(l)]
    BY <1>3, ConcatProperties
  <2>2. Len(m) = Len(l) + Len(t)
    BY <1>1, <1>2, <1>3, <1>4
  <2> QED
    BY <2>1, <2>2
<1>6. ASSUME NEW i \in 1..Len(m) PROVE (l \o t)[i] = m[i]
  <2>1. n + i \in 1..Len(s) + Len(t) /\ (n + i) - Len(s) = i - Len(l) /\ i \in Nat
    BY <1>1, <1>2, <1>3, <1>4
  <2>2. m[i] = IF n + i <= Len(s) THEN s[n + i] ELSE t[(n + i) - Len(s)]
    BY <1>1, <1>4, <2>1
  <2>3. CASE i <= Len(l)
    BY <1>2, <1>3, <1>5, <2>1, <2>2, <2>3
  <2>4. CASE ~(i <= Len(l))
    BY <1>2, <1>3, <1>5, <2>1, <2>2, <2>4
  <2> QED
    BY <2>3, <2>4
<1>7. l \o t = m
  BY <1>4, <1>5, <1>6, SeqEqual
<1>8. n <= Len(u)
  BY <1>1, <1>2
<1> QED
  BY <1>7, <1>8 DEF u, l, m

LEMMA SuffixOfTail ==
  ASSUME NEW s \in Seq(Mutation), NEW n \in Nat \ {0}, n <= Len(s)
  PROVE  /\ n - 1 <= Len(Tail(s))
         /\ SubSeq(s, n + 1, Len(s)) = SubSeq(Tail(s), (n - 1) + 1, Len(Tail(s)))
<1> DEFINE u == Tail(s)
           l == SubSeq(s, n + 1, Len(s))
           m == SubSeq(u, (n - 1) + 1, Len(u))
<1>1. Len(s) \in Nat /\ s # <<>>
  OBVIOUS
<1>2. /\ u \in Seq(Mutation) /\ Len(u) = Len(s) - 1
      /\ \A i \in 1..Len(s) - 1 : u[i] = s[i + 1]
  BY <1>1, HeadTailProperties
<1> HIDE DEF u
<1>3. /\ l \in Seq(Mutation) /\ Len(l) = Len(s) - n
      /\ \A i \in 1..Len(s) - n : l[i] = s[n + i]
  <2>1. n + 1 \in 1..Len(s) + 1 /\ Len(s) \in n..Len(s)
    BY <1>1
  <2> QED
    BY <1>1, <2>1, SubSeqProperties
<1>4. /\ m \in Seq(Mutation) /\ Len(m) = Len(s) - n
      /\ \A i \in 1..Len(s) - n : m[i] = u[(n - 1) + i]
  <2>1. (n - 1) + 1 \in 1..Len(u) + 1 /\ Len(u) \in n - 1..Len(u) /\ n - 1 \in Nat
    BY <1>1, <1>2
  <2> QED
    BY <1>1, <1>2, <2>1, SubSeqProperties
<1> HIDE DEF l, m
<1>5. ASSUME NEW i \in 1..Len(l) PROVE l[i] = m[i]
  <2>1. (n - 1) + i \in 1..Len(s) - 1 /\ ((n - 1) + i) + 1 = n + i /\ i \in 1..Len(s) - n
    BY <1>1, <1>3
  <2> QED
    BY <1>2, <1>3, <1>4, <2>1
<1>6. l = m
  BY <1>3, <1>4, <1>5, SeqEqual
<1> QED
  BY <1>1, <1>2, <1>6 DEF u, l, m

LEMMA WindowOfNothing ==
  ASSUME NEW q \in Seq(Mutation)
  PROVE  /\ <<>> \in Seq(Mutation) /\ Len(<<>>) <= Filled(q)
         /\ \A i \in 1..Len(<<>>) : <<>>[i] = q[i]
BY WindowProperties

-----------------------------------------------------------------------------
(* The operation that all others end with.                                 *)

\* FillWritePipeline on a stream that is not open: the pipeline is filled, and
\* if it then holds anything a stream is on its way.
LEMMA FillOnClosed ==
  ASSUME NEW q \in Seq(Mutation), NEW p \in Seq(Mutation), Len(p) <= Filled(q),
         \A i \in 1..Len(p) : p[i] = q[i],
         NEW st \in {"initial", "starting", "error", "backoff"},
         asked = (st = "starting") \/ st # "starting",
         st \in {"starting", "backoff"} => p # <<>>,
         asked \in BOOLEAN, FillWritePipeline(q, p, st)
  PROVE  /\ pipeline' = Window(q) /\ pipeline' \in Seq(Mutation)
         /\ toServer' = <<>> /\ idle' = FALSE
         /\ stream' \in {"initial", "starting", "error", "backoff"}
         /\ asked' = (stream' = "starting")
         /\ stream' \in {"starting", "backoff"} => pipeline' # <<>>
         /\ pipeline' # <<>> => IsStarted(stream')
<1>1. /\ Refill(q, p) \in Seq(Mutation) /\ p \o Refill(q, p) = Window(q)
      /\ Window(q) \in Seq(Mutation)
  BY RefillGivesWindow, WindowProperties
<1>2. p # <<>> => p \o Refill(q, p) # <<>>
  BY <1>1
<1>3. pipeline' = Window(q) /\ toServer' = <<>> /\ idle' = FALSE
  BY <1>1 DEF FillWritePipeline
<1>4. StartIfNeeded(Window(q), st)
  BY <1>1 DEF FillWritePipeline
<1>5. CASE ~IsStarted(st) /\ Window(q) # <<>>
  BY <1>1, <1>3, <1>4, <1>5 DEF StartIfNeeded, Start, IsStarted
<1>6. CASE ~(~IsStarted(st) /\ Window(q) # <<>>)
  <2>1. stream' = st /\ asked' = (asked /\ st = "starting")
    BY <1>4, <1>6 DEF StartIfNeeded
  <2> QED
    BY <1>1, <1>2, <1>3, <1>6, <2>1 DEF IsStarted
<1> QED
  BY <1>5, <1>6

\* FillWritePipeline on the open stream: what is added is written after the
\* handshake, and the idle timer runs only if there is nothing to send.
LEMMA FillOnOpen ==
  ASSUME NEW q \in Seq(Mutation), NEW p \in Seq(Mutation), Len(p) <= Filled(q),
         \A i \in 1..Len(p) : p[i] = q[i],
         idle => p = <<>>, idle \in BOOLEAN,
         handshake # "complete" => p # <<>>,
         FillWritePipeline(q, p, "open")
  PROVE  /\ pipeline' = Window(q) /\ pipeline' \in Seq(Mutation)
         /\ Refill(q, p) \in Seq(Mutation) /\ p \o Refill(q, p) = Window(q)
         /\ toServer' = IF handshake = "complete" THEN toServer \o Refill(q, p)
                        ELSE toServer
         /\ stream' = "open" /\ asked' = FALSE /\ idle' \in BOOLEAN
         /\ idle' => pipeline' = <<>>
         /\ handshake # "complete" => pipeline' # <<>>
<1>1. /\ Refill(q, p) \in Seq(Mutation) /\ p \o Refill(q, p) = Window(q)
      /\ Window(q) \in Seq(Mutation)
  BY RefillGivesWindow, WindowProperties
<1>2. p # <<>> => p \o Refill(q, p) # <<>>
  BY <1>1
<1>3. p = <<>> /\ Refill(q, p) = <<>> => p \o Refill(q, p) = <<>>
  BY <1>1
<1>4. /\ pipeline' = Window(q)
      /\ toServer' = IF handshake = "complete" THEN toServer \o Refill(q, p)
                     ELSE toServer
      /\ StartIfNeeded(Window(q), "open")
      /\ idle' = (pipeline' = <<>> \/
                    (idle /\ ~(handshake = "complete" /\ Refill(q, p) # <<>>)))
  BY <1>1 DEF FillWritePipeline
<1>5. stream' = "open" /\ asked' = FALSE
  BY <1>4 DEF StartIfNeeded, IsStarted
<1> QED
  BY <1>1, <1>2, <1>3, <1>4, <1>5

-----------------------------------------------------------------------------
(* Every step of the pipeline is a step of the client, or none.            *)

\* What the server reads next is the oldest batch that it has not taken.
LEMMA WireIsPipeline ==
  ASSUME PipelineInv, toServer # <<>>
  PROVE  /\ handshake = "complete" /\ sent < Len(pipeline)
         /\ Len(toServer) = Len(pipeline) - sent
         /\ Head(toServer) = pipeline[sent + 1]
         /\ Tail(toServer) = SubSeq(pipeline, sent + 2, Len(pipeline))
         /\ pipeline[sent + 1] = batches[sent + 1] /\ sent < Len(batches)
<1>1. /\ handshake = "complete" /\ sent <= Len(pipeline)
      /\ toServer = SubSeq(pipeline, sent + 1, Len(pipeline))
      /\ pipeline \in Seq(Mutation) /\ batches \in Seq(Mutation) /\ sent \in Nat
  BY DEF PipelineInv, WireInv, PipelineTypeOK, FirestoreTypeOK
<1>2. /\ Len(toServer) = Len(pipeline) - sent
      /\ \A i \in 1..Len(pipeline) - sent : toServer[i] = pipeline[sent + i]
  <2>1. sent + 1 \in 1..Len(pipeline) + 1 /\ Len(pipeline) \in sent..Len(pipeline)
    BY <1>1
  <2> QED
    BY <1>1, <2>1, SubSeqProperties
<1>3. sent < Len(pipeline) /\ Head(toServer) = pipeline[sent + 1]
  BY <1>1, <1>2
<1>4. Tail(toServer) = SubSeq(pipeline, sent + 2, Len(pipeline))
  BY <1>1, <1>3
<1>5. /\ pipeline = Window(batches) /\ Len(pipeline) <= Len(batches)
      /\ pipeline[sent + 1] = batches[sent + 1]
  BY <1>1, <1>3, WindowProperties DEF PipelineInv
<1> QED
  BY <1>1, <1>2, <1>3, <1>4, <1>5

LEMMA StepImplementsStep ==
  ASSUME PipelineInv, [PipelineNext]_allVars
  PROVE  [FirestoreNext]_firestoreVars
<1> USE DEF PipelineInv, PipelineTypeOK, FirestoreTypeOK
<1>1. CASE AppCall
  BY <1>1 DEF AppCall, FirestoreNext
<1>2. CASE WriteMutations
  BY <1>2 DEF WriteMutations, WriteLocally, FirestoreNext, Background
<1>3. CASE ReadResult
  BY <1>3 DEF ReadResult, AcknowledgeBatch, FirestoreNext, Background
<1>4. CASE ReadRefusal
  <2>1. toServer # <<>> /\ "reject" \in Faults
    BY <1>4 DEF ReadRefusal, WireInv
  <2>2. batches # <<>>
    BY <2>1, WireIsPipeline
  <2> QED
    BY <1>4, <2>1, <2>2 DEF ReadRefusal, Close, RejectBatch, FirestoreNext
<1>5. CASE StreamBreaks \/ IdleStop \/ RestartNetwork
  <2>1. sent' = 0 /\ UNCHANGED <<handoff, batches, collection>>
    BY <1>5 DEF StreamBreaks, IdleStop, RestartNetwork, Close
  <2> QED
    BY <2>1 DEF StreamRestart, FirestoreNext, Background, firestoreVars
<1>6. CASE Relaunch
  BY <1>6 DEF Relaunch, ClientDies, FirestoreNext
<1>7. CASE ServerTakes
  <2>1. /\ toServer # <<>> /\ sent' = sent + 1 /\ UNCHANGED <<handoff, batches>>
        /\ collection' = Apply(collection, Head(toServer))
    BY <1>7 DEF ServerTakes
  <2>2. Head(toServer) = batches[sent + 1] /\ sent < Len(batches)
    BY <2>1, WireIsPipeline
  <2>3. ServerCommit
    BY <2>1, <2>2 DEF ServerCommit
  <2> QED
    BY <2>3 DEF FirestoreNext, Background
<1>8. CASE CredentialsArrive \/ StaleCredentialsArrive \/ ReadHandshake
           \/ BackoffElapsed \/ ServerGreets \/ ServerRefuses
  BY <1>8 DEF CredentialsArrive, StaleCredentialsArrive, ReadHandshake,
              BackoffElapsed, ServerGreets, ServerRefuses
<1>9. CASE UNCHANGED allVars
  BY <1>9 DEF allVars, firestoreVars
<1> QED
  BY <1>1, <1>2, <1>3, <1>4, <1>5, <1>6, <1>7, <1>8, <1>9 DEF PipelineNext

-----------------------------------------------------------------------------
(* The invariant is inductive.                                             *)

\* Where an operation closes the stream, or starts over, and fills the pipeline
\* from a front of the queue, the invariant is established.
LEMMA FreshStart ==
  ASSUME FirestoreTypeOK', NEW p \in Seq(Mutation), Len(p) <= Filled(batches'),
         \A i \in 1..Len(p) : p[i] = batches'[i],
         asked \in BOOLEAN, FillWritePipeline(batches', p, "initial"),
         handshake' = "none", refusal' = FALSE, sent' = 0, stale' \in Nat
  PROVE  PipelineInv'
<1>1. batches' \in Seq(Mutation)
  BY DEF FirestoreTypeOK
<1>2. /\ pipeline' = Window(batches') /\ pipeline' \in Seq(Mutation)
      /\ toServer' = <<>> /\ idle' = FALSE
      /\ stream' \in {"initial", "starting", "error", "backoff"}
      /\ asked' = (stream' = "starting")
      /\ stream' \in {"starting", "backoff"} => pipeline' # <<>>
      /\ pipeline' # <<>> => IsStarted(stream')
  BY <1>1, FillOnClosed
<1>3. PipelineTypeOK'
  <2>1. toServer' \in Seq(Mutation)
    BY <1>2
  <2>2. asked' \in BOOLEAN /\ idle' \in BOOLEAN /\ refusal' \in BOOLEAN
    BY <1>2, Zenon
  <2> QED
    BY <1>2, <2>1, <2>2 DEF PipelineTypeOK
<1> QED
  BY <1>2, <1>3 DEF PipelineInv, StreamInv, WireInv

LEMMA WriteMutationsKeeps ==
  ASSUME PipelineInv, FirestoreTypeOK', WriteMutations
  PROVE  PipelineInv'
<1> USE DEF PipelineInv, PipelineTypeOK, FirestoreTypeOK
<1>1. /\ Head(handoff) \in Mutation /\ batches' = Append(batches, Head(handoff))
      /\ FillWritePipeline(batches', pipeline, stream)
      /\ UNCHANGED <<sent, handshake, stale, refusal>>
  BY DEF WriteMutations
<1>2. /\ batches' \in Seq(Mutation) /\ Len(pipeline) <= Filled(batches')
      /\ \A i \in 1..Len(pipeline) : pipeline[i] = batches'[i]
  BY <1>1, WindowOfAppend
<1>3. CASE stream = "open"
  <2>1. /\ pipeline' = Window(batches') /\ pipeline' \in Seq(Mutation)
        /\ Refill(batches', pipeline) \in Seq(Mutation)
        /\ pipeline \o Refill(batches', pipeline) = Window(batches')
        /\ toServer' = IF handshake = "complete"
                       THEN toServer \o Refill(batches', pipeline) ELSE toServer
        /\ stream' = "open" /\ asked' = FALSE /\ idle' \in BOOLEAN
        /\ idle' => pipeline' = <<>>
        /\ handshake # "complete" => pipeline' # <<>>
    <3>1. (idle => pipeline = <<>>) /\ (handshake # "complete" => pipeline # <<>>)
      BY <1>3 DEF StreamInv
    <3> QED
      BY <1>1, <1>2, <1>3, <3>1, FillOnOpen
  <2> DEFINE r == Refill(batches', pipeline)
  <2>2. CASE handshake = "complete"
    <3>1. /\ sent <= Len(pipeline) /\ toServer = SubSeq(pipeline, sent + 1, Len(pipeline))
          /\ toServer' = toServer \o r /\ pipeline' = pipeline \o r /\ r \in Seq(Mutation)
      BY <2>1, <2>2 DEF WireInv
    <3> HIDE DEF r
    <3>2. sent \in Nat
      OBVIOUS
    <3>3. /\ sent <= Len(pipeline \o r)
          /\ SubSeq(pipeline, sent + 1, Len(pipeline)) \o r
               = SubSeq(pipeline \o r, sent + 1, Len(pipeline \o r))
      BY <3>1, <3>2, SuffixOfConcat
    <3>4. sent' <= Len(pipeline') /\ toServer' = SubSeq(pipeline', sent' + 1, Len(pipeline'))
      BY <1>1, <3>1, <3>3
    <3>5. toServer # <<>> => toServer' # <<>>
      BY <3>1
    <3>6. WireInv'
      BY <1>1, <2>2, <3>4, <3>5 DEF WireInv
    <3>7. toServer' \in Seq(Mutation)
      BY <3>1
    <3> QED
      BY <1>1, <1>3, <2>1, <2>2, <3>6, <3>7 DEF StreamInv, IsStarted
  <2>3. CASE handshake # "complete"
    BY <1>1, <1>3, <2>1, <2>3 DEF StreamInv, WireInv, IsStarted
  <2> QED
    BY <2>2, <2>3
<1>4. CASE stream # "open"
  <2>1. /\ pipeline' = Window(batches') /\ pipeline' \in Seq(Mutation)
        /\ toServer' = <<>> /\ idle' = FALSE
        /\ stream' \in {"initial", "starting", "error", "backoff"}
        /\ asked' = (stream' = "starting")
        /\ stream' \in {"starting", "backoff"} => pipeline' # <<>>
        /\ pipeline' # <<>> => IsStarted(stream')
    <3>1. /\ stream \in {"initial", "starting", "error", "backoff"}
          /\ asked = (stream = "starting")
          /\ stream \in {"starting", "backoff"} => pipeline # <<>>
      BY <1>4 DEF StreamInv
    <3> QED
      BY <1>1, <1>2, <3>1, FillOnClosed
  <2> QED
    BY <1>1, <1>4, <2>1 DEF StreamInv, WireInv
<1> QED
  BY <1>3, <1>4

LEMMA ReadResultKeeps ==
  ASSUME PipelineInv, FirestoreTypeOK', ReadResult
  PROVE  PipelineInv'
<1> USE DEF PipelineInv, PipelineTypeOK, FirestoreTypeOK
<1> DEFINE p == Tail(pipeline)
           r == Refill(batches', p)
<1>1. /\ sent \in Nat \ {0} /\ sent' = sent - 1 /\ batches' = Tail(batches)
      /\ FillWritePipeline(batches', p, stream)
      /\ UNCHANGED <<handshake, stale, refusal>>
  BY DEF ReadResult
<1>2. /\ handshake = "complete" /\ stream = "open" /\ sent <= Len(pipeline)
      /\ toServer = SubSeq(pipeline, sent + 1, Len(pipeline))
      /\ pipeline # <<>> /\ ~idle
  BY <1>1 DEF WireInv, StreamInv
<1>3. batches # <<>>
  BY <1>2, WindowProperties
<1>4. /\ batches' \in Seq(Mutation) /\ p \in Seq(Mutation) /\ Len(p) = Len(pipeline) - 1
      /\ Len(p) <= Filled(batches') /\ \A i \in 1..Len(p) : p[i] = batches'[i]
  BY <1>1, <1>3, WindowOfTail
<1>5. /\ pipeline' = Window(batches') /\ pipeline' \in Seq(Mutation)
      /\ r \in Seq(Mutation) /\ p \o r = Window(batches')
      /\ toServer' = toServer \o r
      /\ stream' = "open" /\ asked' = FALSE /\ idle' \in BOOLEAN
      /\ idle' => pipeline' = <<>>
  BY <1>1, <1>2, <1>4, FillOnOpen
<1>6. sent - 1 <= Len(p) /\ toServer = SubSeq(p, (sent - 1) + 1, Len(p))
  BY <1>1, <1>2, SuffixOfTail
<1> HIDE DEF p, r
<1>7. /\ sent - 1 <= Len(p \o r)
      /\ SubSeq(p, (sent - 1) + 1, Len(p)) \o r
           = SubSeq(p \o r, (sent - 1) + 1, Len(p \o r))
  <2>1. sent - 1 \in Nat
    BY <1>1
  <2> QED
    BY <1>4, <1>5, <1>6, <2>1, SuffixOfConcat
<1>8. sent' <= Len(pipeline') /\ toServer' = SubSeq(pipeline', sent' + 1, Len(pipeline'))
  BY <1>1, <1>5, <1>6, <1>7
<1>9. toServer # <<>> => toServer' # <<>>
  BY <1>5
<1>10. WireInv'
  BY <1>1, <1>2, <1>8, <1>9 DEF WireInv
<1>11. toServer' \in Seq(Mutation)
  BY <1>5
<1> QED
  BY <1>1, <1>2, <1>5, <1>10, <1>11 DEF StreamInv, IsStarted

LEMMA ClosingKeeps ==
  ASSUME PipelineInv, FirestoreTypeOK',
         ReadRefusal \/ RestartNetwork \/ Relaunch \/ StreamBreaks \/ IdleStop
  PROVE  PipelineInv'
<1> USE DEF PipelineInv, PipelineTypeOK, FirestoreTypeOK
<1>1. CASE ReadRefusal
  <2>1. toServer # <<>>
    BY <1>1 DEF ReadRefusal, WireInv
  <2>2. pipeline # <<>>
    BY <2>1, WireIsPipeline
  <2>3. batches # <<>>
    BY <2>2, WindowProperties
  <2>4. /\ batches' = Tail(batches) /\ handshake' = "none" /\ refusal' = FALSE
        /\ sent' = 0 /\ stale' \in Nat
        /\ FillWritePipeline(batches', Tail(pipeline), "initial")
    BY <1>1 DEF ReadRefusal, Close
  <2>5. /\ Tail(pipeline) \in Seq(Mutation) /\ Len(Tail(pipeline)) <= Filled(batches')
        /\ \A i \in 1..Len(Tail(pipeline)) : Tail(pipeline)[i] = batches'[i]
    BY <2>3, <2>4, WindowOfTail
  <2> QED
    BY <2>4, <2>5, FreshStart
<1>2. CASE RestartNetwork \/ Relaunch
  <2>1. /\ handshake' = "none" /\ refusal' = FALSE
        /\ sent' = 0 /\ stale' \in Nat
        /\ FillWritePipeline(batches', <<>>, "initial")
    BY <1>2 DEF RestartNetwork, Relaunch, Close
  <2>2. /\ <<>> \in Seq(Mutation) /\ Len(<<>>) <= Filled(batches')
        /\ \A i \in 1..Len(<<>>) : <<>>[i] = batches'[i]
    BY WindowOfNothing
  <2> QED
    BY <2>1, <2>2, FreshStart
<1>3. CASE StreamBreaks
  <2>1. /\ stream = "open" /\ asked = FALSE
        /\ handshake' = "none" /\ refusal' = FALSE /\ sent' = 0 /\ stale' \in Nat
        /\ toServer' = <<>> /\ idle' = FALSE /\ pipeline' = pipeline /\ batches' = batches
        /\ StartIfNeeded(pipeline, "error")
    BY <1>3 DEF StreamBreaks, Close, StreamInv
  <2>2. /\ asked' = FALSE
        /\ stream' = IF pipeline # <<>> THEN "backoff" ELSE "error"
    BY <2>1 DEF StartIfNeeded, Start, IsStarted
  <2>3. StreamInv' /\ WireInv'
    BY <2>1, <2>2 DEF StreamInv, WireInv, IsStarted
  <2>4. toServer' \in Seq(Mutation)
    BY <2>1
  <2>5. stream' \in {"initial", "starting", "open", "error", "backoff"}
    BY <2>2
  <2>6. asked' \in BOOLEAN /\ idle' \in BOOLEAN /\ refusal' \in BOOLEAN
    BY <2>1, <2>2
  <2> QED
    BY <2>1, <2>3, <2>4, <2>5, <2>6
<1>4. CASE IdleStop
  <2>1. /\ pipeline = <<>> /\ asked' = FALSE /\ stream' = "initial"
        /\ handshake' = "none" /\ refusal' = FALSE /\ sent' = 0 /\ stale' \in Nat
        /\ toServer' = <<>> /\ idle' = FALSE /\ pipeline' = pipeline /\ batches' = batches
    BY <1>4 DEF IdleStop, Close, StreamInv
  <2> QED
    BY <2>1 DEF StreamInv, WireInv, IsStarted
<1> QED
  BY <1>1, <1>2, <1>3, <1>4

LEMMA OthersKeep ==
  ASSUME PipelineInv, FirestoreTypeOK',
         \/ AppCall \/ CredentialsArrive \/ StaleCredentialsArrive
         \/ ReadHandshake \/ BackoffElapsed
         \/ ServerGreets \/ ServerTakes \/ ServerRefuses \/ UNCHANGED allVars
  PROVE  PipelineInv'
<1> USE DEF PipelineInv, PipelineTypeOK, FirestoreTypeOK
<1>1. CASE AppCall \/ UNCHANGED allVars
  <2>1. UNCHANGED remoteVars /\ UNCHANGED <<batches, sent>>
    BY <1>1 DEF AppCall, Enqueue, allVars, firestoreVars
  <2> QED
    BY <2>1 DEF remoteVars, StreamInv, WireInv
<1>2. CASE CredentialsArrive
  BY <1>2 DEF CredentialsArrive, firestoreVars, StreamInv, WireInv, IsStarted
<1>3. CASE StaleCredentialsArrive
  BY <1>3 DEF StaleCredentialsArrive, firestoreVars, StreamInv, WireInv
<1>4. CASE ReadHandshake
  <2>1. /\ stream = "open" /\ pipeline # <<>> /\ sent = 0 /\ ~refusal
        /\ toServer' = pipeline /\ handshake' = "complete" /\ ~idle'
        /\ UNCHANGED <<batches, pipeline, stream, asked, stale, refusal, sent>>
    BY <1>4 DEF ReadHandshake, firestoreVars, StreamInv, WireInv
  <2>2. toServer' = SubSeq(pipeline', sent' + 1, Len(pipeline')) /\ sent' <= Len(pipeline')
    <3>1. pipeline = SubSeq(pipeline, 1, Len(pipeline)) /\ sent' + 1 = 1
      BY <2>1
    <3> QED
      BY <2>1, <3>1
  <2>3. WireInv'
    BY <2>1, <2>2 DEF WireInv
  <2>4. StreamInv'
    BY <2>1 DEF StreamInv
  <2>5. toServer' \in Seq(Mutation) /\ idle' \in BOOLEAN
    BY <1>4, <2>1 DEF ReadHandshake
  <2> QED
    BY <2>1, <2>3, <2>4, <2>5
<1>5. CASE BackoffElapsed
  BY <1>5 DEF BackoffElapsed, Start, firestoreVars, StreamInv, WireInv, IsStarted
<1>6. CASE ServerGreets
  BY <1>6 DEF ServerGreets, firestoreVars, StreamInv, WireInv
<1>7. CASE ServerTakes
  <2>1. /\ toServer # <<>> /\ ~refusal /\ sent' = sent + 1 /\ toServer' = Tail(toServer)
        /\ UNCHANGED <<batches, pipeline, stream, handshake, idle, asked, stale, refusal>>
    BY <1>7 DEF ServerTakes
  <2>2. /\ handshake = "complete" /\ sent < Len(pipeline)
        /\ Tail(toServer) = SubSeq(pipeline, sent + 2, Len(pipeline))
    BY <2>1, WireIsPipeline
  <2>3. sent' + 1 = sent + 2 /\ sent' <= Len(pipeline)
    BY <2>1, <2>2
  <2> QED
    BY <2>1, <2>2, <2>3 DEF StreamInv, WireInv
<1>8. CASE ServerRefuses
  BY <1>8 DEF ServerRefuses, firestoreVars, StreamInv, WireInv
<1> QED
  BY <1>1, <1>2, <1>3, <1>4, <1>5, <1>6, <1>7, <1>8

LEMMA PipelineInvInductive ==
  ASSUME PipelineInv, [PipelineNext]_allVars
  PROVE  PipelineInv'
<1>1. FirestoreTypeOK'
  BY StepImplementsStep, FirestoreTypeInductive DEF PipelineInv, PipelineTypeOK
<1> QED
  BY <1>1, WriteMutationsKeeps, ReadResultKeeps, ClosingKeeps, OthersKeep
  DEF PipelineNext

LEMMA PipelineInvInitially ==
  ASSUME PipelineInit
  PROVE  PipelineInv
<1>1. FirestoreTypeOK /\ batches = <<>> /\ Window(batches) = <<>>
  <2>1. FirestoreTypeOK /\ batches = <<>>
    BY DEF PipelineInit, FirestoreInit, FirestoreTypeOK
  <2> QED
    BY <2>1, WindowProperties DEF FirestoreTypeOK
<1>2. PipelineTypeOK
  BY <1>1 DEF PipelineInit, FirestoreTypeOK, PipelineTypeOK
<1>3. StreamInv /\ WireInv
  BY DEF PipelineInit, FirestoreInit, StreamInv, WireInv, IsStarted
<1> QED
  BY <1>1, <1>2, <1>3 DEF PipelineInit, PipelineInv

LEMMA PipelineInvAlways == PipelineSpec => []PipelineInv
<1>1. PipelineInv /\ [PipelineNext]_allVars => PipelineInv'
  BY PipelineInvInductive
<1> QED
  BY <1>1, PipelineInvInitially, PTL DEF PipelineSpec

-----------------------------------------------------------------------------
(* The theorems.                                                           *)

\* The queues of the pipeline, its stream's states and the documents keep their
\* types.
THEOREM PipelineTypeCorrect == PipelineSpec => []PipelineTypeOK
<1>1. PipelineInv => PipelineTypeOK
  BY DEF PipelineInv
<1> QED
  BY <1>1, PipelineInvAlways, PTL

\* No HARD_ASSERT of RemoteStore and Stream about results, idle stops, reads on
\* a stopped stream and late credentials ever fails.
THEOREM AssertionsAlways == PipelineSpec => []AssertionsHold
<1>1. PipelineInv => AssertionsHold
  BY DEF PipelineInv, PipelineTypeOK, FirestoreTypeOK, StreamInv, WireInv, AssertionsHold
<1> QED
  BY <1>1, PipelineInvAlways, PTL

\* A queue that holds writes always has its oldest in the pipeline and a stream
\* open or on its way.
THEOREM NeverForgottenAlways == PipelineSpec => []NeverForgotten
<1>1. PipelineInv => NeverForgotten
  BY WindowProperties
  DEF PipelineInv, PipelineTypeOK, FirestoreTypeOK, StreamInv, NeverForgotten
<1> QED
  BY <1>1, PipelineInvAlways, PTL

\* No write is dropped for another's refusal: what leaves the queue was executed by
\* the server on this stream, or is the one write that it refused.
THEOREM LeavesDecidedAlways == PipelineSpec => LeavesDecided
<1> DEFINE Decided ==
             Len(batches') < Len(batches) =>
               /\ batches' = Tail(batches)
               /\ \/ sent > 0
                  \/ refusal /\ toServer # <<>> /\ Head(toServer) = Head(batches)
<1>1. PipelineInv /\ [PipelineNext]_allVars => [Decided]_allVars
  <2> SUFFICES ASSUME PipelineInv, PipelineNext, Len(batches') < Len(batches)
               PROVE  /\ batches' = Tail(batches)
                      /\ \/ sent > 0
                         \/ refusal /\ toServer # <<>> /\ Head(toServer) = Head(batches)
    OBVIOUS
  <2>1. /\ batches \in Seq(Mutation) /\ handoff \in Seq(Mutation) /\ sent \in Nat
        /\ refusal => toServer # <<>>
    BY DEF PipelineInv, PipelineTypeOK, FirestoreTypeOK, WireInv
  <2>2. CASE WriteMutations
    <3>1. Head(handoff) \in Mutation /\ batches' = Append(batches, Head(handoff))
      BY <2>1, <2>2 DEF WriteMutations
    <3>2. Len(batches') = Len(batches) + 1
      BY <2>1, <3>1, AppendProperties
    <3> QED
      BY <2>1, <3>2
  <2>3. CASE Relaunch
    <3>1. PICK n \in 0..Len(handoff) : batches' = batches \o SubSeq(handoff, 1, n)
      BY <2>3 DEF Relaunch
    <3>2. SubSeq(handoff, 1, n) \in Seq(Mutation)
      BY <2>1, SubSeqProperties
    <3>3. Len(batches') = Len(batches) + Len(SubSeq(handoff, 1, n))
      BY <2>1, <3>1, <3>2, ConcatProperties
    <3> QED
      BY <2>1, <3>2, <3>3
  <2>4. CASE ReadResult
    BY <2>1, <2>4 DEF ReadResult
  <2>5. CASE ReadRefusal
    <3>1. batches' = Tail(batches) /\ refusal
      BY <2>5 DEF ReadRefusal
    <3>2. CASE sent = 0
      BY <2>1, <3>1, <3>2, WireIsPipeline
    <3>3. CASE sent # 0
      BY <2>1, <3>1, <3>3
    <3> QED
      BY <3>2, <3>3
  <2>6. CASE ~(WriteMutations \/ Relaunch \/ ReadResult \/ ReadRefusal)
    <3>1. UNCHANGED batches
      BY <2>6 DEF PipelineNext, AppCall, Enqueue, CredentialsArrive, StaleCredentialsArrive,
                  ReadHandshake, StreamBreaks, BackoffElapsed, IdleStop, RestartNetwork,
                  ServerGreets, ServerTakes, ServerRefuses, firestoreVars
    <3> QED
      BY <2>1, <3>1
  <2> QED
    BY <2>2, <2>3, <2>4, <2>5, <2>6
<1> QED
  BY <1>1, PipelineInvAlways, PTL DEF PipelineSpec, LeavesDecided

\* The pipeline implements the mutation queue of FirestoreClient: initial states
\* are initial there, and every step is one of its steps or leaves it alone.
THEOREM PipelineRefines == PipelineSpec => ImplementsClient
<1>1. PipelineInit => FirestoreInit
  BY DEF PipelineInit
<1>2. PipelineInv /\ [PipelineNext]_allVars => [FirestoreNext]_firestoreVars
  BY StepImplementsStep
<1> QED
  BY <1>1, <1>2, PipelineInvAlways, PTL DEF PipelineSpec, ImplementsClient

\* Hence what is proved of the abstract queue holds of the pipeline: what the
\* server took on the open stream is what its documents show, and no step of
\* the stream takes an older document back into view.
THEOREM PipelineSentIsApplied == PipelineSpec => []SentIsApplied /\ ViewIsStable
<1>1. FirestoreInit => FirestoreTypeOK /\ SentIsApplied
  BY DEF FirestoreInit, FirestoreTypeOK, SentIsApplied
<1>2. FirestoreTypeOK /\ SentIsApplied /\ [FirestoreNext]_firestoreVars
        => (FirestoreTypeOK /\ SentIsApplied)'
  BY FirestoreTypeInductive, NextIsStreamStep, SentIsAppliedInductive
<1>3. FirestoreTypeOK /\ SentIsApplied /\ [FirestoreNext]_firestoreVars
        => [Background => \A id \in Id : View(id)' = View(id)]_firestoreVars
  BY ViewStableStep
<1> QED
  BY <1>1, <1>2, <1>3, PipelineRefines, PTL DEF ImplementsClient, ViewIsStable
=============================================================================
