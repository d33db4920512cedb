------------------------- MODULE IngestionStatusProofs -------------------------
(***************************************************************************)
(* Theorems about Ingestion for any number of documents, jobs, requests,   *)
(* handlers, crashes and failures, in two parts.                            *)
(*                                                                          *)
(* The pipeline implements the corpus that readers see: Ingestion refines   *)
(* Corpus.  Beyond the invariants of IngestionProofs the mapping needs two  *)
(* facts: a document an upload has in hand is nobody else's and is not      *)
(* there yet, and a handler's generation is its own, so that what it        *)
(* commits is a new edition.                                                *)
(*                                                                          *)
(* What the tables say of one another: the texts behind committed           *)
(* documents, the tenants of jobs and rows, what explains the status a user *)
(* sees.  None of it needs that nothing crashes or fails, except that a     *)
(* failed document can be retried.                                          *)
(***************************************************************************)
EXTENDS IngestionProofs, FiniteSetTheorems


-----------------------------------------------------------------------------
(***************************************************************************)
(* The documents that jobs and requests name.                              *)
(***************************************************************************)

Exists(d) == documents[d].status # "none"

\* A document that is not there is not deleted either.
DeletedExist == \A d \in Docs : documents[d].deleted => Exists(d)

\* Only documents that are there have jobs.
JobsHaveDocuments == \A j \in Jobs : jobs[j].status # "none" => Exists(jobs[j].doc)

\* An upload in progress has a document of its own that is not there yet; a request
\* for a new job has one that is.
UploadsApart ==
    \A r \in Requests :
        /\ request[r].pc \in {"store", "insert"} =>
             /\ ~Exists(request[r].doc)
             /\ \A s \in Requests : request[s].doc = request[r].doc => s = r
        /\ request[r].pc = "requeue" => Exists(request[r].doc)

DocumentsThere == DeletedExist /\ JobsHaveDocuments /\ UploadsApart

\* The steps that write the table of documents.
LEMMA OtherStepsLeaveDocuments ==
  ASSUME [Next]_vars
  PROVE  \/ UNCHANGED documents
         \/ \E r \in Requests : CommitUpload(r) \/ CommitNewJob(r) \/ MarkPublishFailed(r)
         \/ \E h \in Handlers : MarkCompleted(h) \/ MarkFailed(h)
         \/ \E t \in Tenants, d \in Docs : DeleteDocument(t, d)
<1>1. ASSUME NEW r \in Requests, RequestStep(r)
      PROVE  UNCHANGED documents \/ CommitUpload(r) \/ CommitNewJob(r) \/ MarkPublishFailed(r)
  BY <1>1 DEF RequestStep, StoreObject, StoreFails, PublishJob, PublishFails,
              RequestDatabaseError, postgres
<1>2. ASSUME NEW h \in Handlers, HandlerStep(h)
      PROVE  UNCHANGED documents \/ MarkCompleted(h) \/ MarkFailed(h)
  BY <1>2 DEF HandlerStep, FindJob, MarkRunning, ReplaceChunks, WaitForRows,
              RestrictedByCitation, NoChunks, ProcessingFails, UpsertPoints, Rollback,
              HandlerDatabaseError, Settle, OnlyHandler, postgres
<1>3. ASSUME NEW h \in Handlers, NEW j \in Jobs, Deliver(h, j) PROVE UNCHANGED documents
  BY <1>3 DEF Deliver, postgres
<1>4. ASSUME NEW a \in Answers, Cite(a) PROVE UNCHANGED documents
  BY <1>4 DEF Cite
<1>5. ASSUME UserStep
      PROVE  UNCHANGED documents \/ \E t \in Tenants, d \in Docs : DeleteDocument(t, d)
  BY <1>5 DEF UserStep, BeginUpload, RetryJob, ReindexDocument, Requeue, LoadEvidence, postgres
<1>6. ASSUME FaultStep PROVE UNCHANGED documents
  BY <1>6 DEF FaultStep, RequestCrash, HandlerCrash, ConnectionLost, postgres
<1> QED
  BY <1>1, <1>2, <1>3, <1>4, <1>5, <1>6 DEF Next, Rest, vars

\* The document of a handler at work.
LEMMA HandlerDocument ==
  ASSUME TypeOK, Wired, JobsHaveDocuments, NEW h \in Handlers, handler[h].pc # "idle"
  PROVE  /\ handler[h].job \in Jobs /\ jobs[handler[h].job].status # "none"
         /\ Document(h) \in Docs /\ Exists(Document(h))
  BY DEF Wired, HandlersWired, JobsWired, JobsHaveDocuments, Document

\* The document of a request at work.
LEMMA RequestDocument ==
  ASSUME TypeOK, Wired, DocumentsThere, NEW r \in Requests,
         request[r].pc \in {"requeue", "publish", "publish_failed"}
  PROVE  /\ request[r].doc \in Docs /\ Exists(request[r].doc)
         /\ request[r].job \in Jobs
  BY DEF Wired, RequestsWired, DocumentsThere, JobsHaveDocuments, UploadsApart

\* A document that is there stays; none appears but at the commit of its upload.
LEMMA DocumentsKept ==
  ASSUME TypeOK, Wired, DocumentsThere, [Next]_vars
  PROVE  /\ \A d \in Docs : Exists(d) => Exists(d)'
         /\ \A d \in Docs : ~Exists(d) /\ Exists(d)' =>
              \E r \in Requests : CommitUpload(r) /\ d = request[r].doc
         /\ DeletedExist'
<1> DEFINE Kept ==
      /\ \A d \in Docs : Exists(d) => Exists(d)'
      /\ \A d \in Docs : ~Exists(d) /\ Exists(d)' =>
           \E r \in Requests : CommitUpload(r) /\ d = request[r].doc
      /\ DeletedExist'
<1>t. documents \in [Docs -> DocumentRecord]
  BY DEF TypeOK
<1>d. DeletedExist  BY DEF DocumentsThere
<1> USE DEF Exists, DeletedExist, SetDocument
<1>1. ASSUME NEW r \in Requests, CommitUpload(r) PROVE Kept
  BY <1>1, <1>t, <1>d DEF CommitUpload
<1>2. ASSUME NEW r \in Requests, CommitNewJob(r) PROVE Kept
  <2>1. request[r].doc \in Docs /\ Exists(request[r].doc)
    BY <1>2, RequestDocument DEF CommitNewJob
  <2>2. QED  BY <1>2, <1>t, <1>d, <2>1 DEF CommitNewJob, DocumentRecord
<1>3. ASSUME NEW r \in Requests, MarkPublishFailed(r) PROVE Kept
  <2>1. request[r].doc \in Docs /\ Exists(request[r].doc)
    BY <1>3, RequestDocument DEF MarkPublishFailed
  <2>2. QED  BY <1>3, <1>t, <1>d, <2>1 DEF MarkPublishFailed, DocumentRecord
<1>4. ASSUME NEW h \in Handlers, MarkCompleted(h) PROVE Kept
  <2>1. Document(h) \in Docs /\ Exists(Document(h))
    BY <1>4, HandlerDocument DEF MarkCompleted, DocumentsThere
  <2>2. QED  BY <1>4, <1>t, <1>d, <2>1 DEF MarkCompleted, DocumentRecord
<1>5. ASSUME NEW h \in Handlers, MarkFailed(h) PROVE Kept
  <2>1. Document(h) \in Docs /\ Exists(Document(h))
    BY <1>5, HandlerDocument DEF MarkFailed, DocumentsThere
  <2>2. QED  BY <1>5, <1>t, <1>d, <2>1 DEF MarkFailed, DocumentRecord
<1>6. ASSUME NEW t \in Tenants, NEW d \in Docs, DeleteDocument(t, d) PROVE Kept
  BY <1>6, <1>t, <1>d DEF DeleteDocument, Visible, DocumentRecord
<1>7. CASE UNCHANGED documents
  BY <1>7, <1>d
<1> QED
  BY <1>1, <1>2, <1>3, <1>4, <1>5, <1>6, <1>7, OtherStepsLeaveDocuments

\* What a request at work does to its own record in a step: it moves on with the
\* identities it has, goes idle, or has just chosen them.
LEMMA RequestSteps ==
  ASSUME TypeOK, Wired, [Next]_vars, NEW r \in Requests
  PROVE  \/ request'[r] = request[r]
         \/ request'[r].pc = "idle" /\ request'[r].doc = None
         \/ /\ request[r].pc # "idle" /\ request'[r].doc = request[r].doc
            /\ request'[r].pc \in {"store", "insert"} => request[r].pc \in {"store", "insert"}
            /\ request'[r].pc # "requeue"
         \/ /\ request'[r].pc = "store"
            /\ Fresh(request'[r].doc) /\ request'[r].doc \in Docs
            /\ UNCHANGED documents
            /\ \A s \in Requests \ {r} : request'[s] = request[s]
         \/ /\ request'[r].pc = "requeue"
            /\ request'[r].doc \in Docs /\ Exists(request'[r].doc)
            /\ UNCHANGED documents
            /\ \A s \in Requests \ {r} : request'[s] = request[s]
<1>t. request \in [Requests -> RequestRecord]
  BY DEF TypeOK
<1> DEFINE Stepped ==
         \/ request'[r] = request[r]
         \/ request'[r].pc = "idle" /\ request'[r].doc = None
         \/ /\ request[r].pc # "idle" /\ request'[r].doc = request[r].doc
            /\ request'[r].pc \in {"store", "insert"} => request[r].pc \in {"store", "insert"}
            /\ request'[r].pc # "requeue"
<1>1. ASSUME NEW q \in Requests, Return(q) PROVE Stepped
  BY <1>1, <1>t DEF Return, IdleRequest
<1>2. ASSUME NEW q \in Requests, request[q].pc # "idle",
             NEW pc \in {"publish", "publish_failed"}, Proceed(q, pc)
      PROVE  Stepped
  BY <1>2, <1>t DEF Proceed, RequestRecord
<1>3. ASSUME NEW q \in Requests, RequestStep(q) PROVE Stepped
  <2>1. CASE StoreObject(q)
    BY <2>1, <1>t DEF StoreObject, Proceed, RequestRecord
  <2>2. CASE ~StoreObject(q)
    BY <1>1, <1>2, <1>3, <2>2 DEF RequestStep, StoreFails, CommitUpload, CommitNewJob,
       PublishJob, PublishFails, MarkPublishFailed, RequestDatabaseError
  <2>3. QED  BY <2>1, <2>2
<1>4. ASSUME NEW h \in Handlers, HandlerStep(h) PROVE UNCHANGED request
  BY <1>4 DEF HandlerStep, FindJob, MarkRunning, ReplaceChunks, WaitForRows,
              RestrictedByCitation, NoChunks, ProcessingFails, UpsertPoints, MarkCompleted,
              Rollback, MarkFailed, HandlerDatabaseError, Settle, OnlyHandler
<1>5. ASSUME FaultStep PROVE Stepped
  BY <1>1, <1>5 DEF FaultStep, RequestCrash, HandlerCrash, ConnectionLost
<1>6. ASSUME NEW q \in Requests, NEW t \in Tenants, NEW c \in Contents, BeginUpload(q, t, c)
      PROVE  \/ Stepped
             \/ /\ request'[r].pc = "store"
                /\ Fresh(request'[r].doc) /\ request'[r].doc \in Docs
                /\ UNCHANGED documents
                /\ \A s \in Requests \ {r} : request'[s] = request[s]
  BY <1>6, <1>t DEF BeginUpload, postgres
<1>7. ASSUME NEW q \in Requests, NEW t \in Tenants, NEW d \in Docs, Visible(t, d),
             Requeue(q, t, d)
      PROVE  \/ Stepped
             \/ /\ request'[r].pc = "requeue"
                /\ request'[r].doc \in Docs /\ Exists(request'[r].doc)
                /\ UNCHANGED documents
                /\ \A s \in Requests \ {r} : request'[s] = request[s]
  BY <1>7, <1>t DEF Requeue, Visible, Exists, postgres
<1>8. CASE UNCHANGED request
  BY <1>8
<1> QED
  BY <1>3, <1>4, <1>5, <1>6, <1>7, <1>8 DEF Next, UserStep, RetryJob, ReindexDocument,
     DeleteDocument, LoadEvidence, Deliver, Cite, Rest, vars

LEMMA DocumentsThereStep ==
  ASSUME TypeOK, Wired, DocumentsThere, [Next]_vars
  PROVE  DocumentsThere'
<1> USE DEF DocumentsThere
<1>k. /\ \A d \in Docs : Exists(d) => Exists(d)'
      /\ \A d \in Docs : ~Exists(d) /\ Exists(d)' =>
           \E r \in Requests : CommitUpload(r) /\ d = request[r].doc
      /\ DeletedExist'
  BY DocumentsKept
<1>t. jobs \in [Jobs -> JobRecord] /\ documents \in [Docs -> DocumentRecord]
      /\ request \in [Requests -> RequestRecord]
  BY DEF TypeOK
<1>1. JobsHaveDocuments'
  <2> SUFFICES ASSUME NEW j \in Jobs, jobs'[j].status # "none" PROVE Exists(jobs[j].doc)'
    BY DEF JobsHaveDocuments, Exists
  <2>1. CASE jobs[j].status # "none"
    <3>1. jobs'[j].doc = jobs[j].doc  BY <2>1, JobsKept
    <3>2. jobs[j].doc \in Docs /\ Exists(jobs[j].doc)
      BY <2>1 DEF Wired, JobsWired, JobsHaveDocuments
    <3>3. Exists(jobs[j].doc)'  BY <1>k, <3>1, <3>2 DEF Exists
    <3>4. QED  BY <3>3
  <2>2. CASE jobs[j].status = "none"
    <3>1. ASSUME NEW h \in Handlers, handler[h].pc # "idle"
          PROVE  handler[h].job # j
      BY <2>2, <3>1 DEF Wired, HandlersWired
    <3>2. ASSUME NEW r \in Requests, request[r].pc = "publish_failed"
          PROVE  request[r].job # j
      BY <2>2, <3>2 DEF Wired, RequestsWired
    <3>3. PICK r \in Requests : CommitUpload(r) \/ CommitNewJob(r)
      BY <1>t, <2>2, <3>1, <3>2, OtherStepsLeaveJobs
      DEF MarkRunning, MarkCompleted, MarkFailed, MarkPublishFailed, SetJob
    <3>4. j = request[r].job /\ jobs'[j].doc = request[r].doc
      BY <1>t, <2>2, <3>3 DEF CommitUpload, CommitNewJob, NewJob
    <3>5. request[r].doc \in Docs
      BY <3>3 DEF CommitUpload, CommitNewJob, Wired, RequestsWired
    <3>6. documents'[request[r].doc].status # "none"
      <4>1. CASE CommitUpload(r)
        BY <1>t, <3>5, <4>1 DEF CommitUpload, DocumentRecord
      <4>2. CASE CommitNewJob(r)
        <5>1. Exists(request[r].doc)
          BY <4>2 DEF CommitNewJob, UploadsApart
        <5>2. QED  BY <1>k, <3>5, <5>1 DEF Exists
      <4>3. QED  BY <3>3, <4>1, <4>2
    <3>7. QED  BY <3>4, <3>6 DEF Exists
  <2>3. QED  BY <2>1, <2>2
<1>2. UploadsApart'
  <2> SUFFICES ASSUME NEW r \in Requests
               PROVE  /\ request'[r].pc \in {"store", "insert"} =>
                           /\ ~Exists(request[r].doc)'
                           /\ \A s \in Requests : request'[s].doc = request'[r].doc => s = r
                      /\ request'[r].pc = "requeue" => Exists(request[r].doc)'
    BY DEF UploadsApart, Exists
  <2>1. ASSUME request'[r].pc = "requeue" PROVE Exists(request[r].doc)'
    <3>1. request'[r].doc \in Docs /\ Exists(request'[r].doc)
      BY <2>1, RequestSteps DEF UploadsApart, Wired, RequestsWired
    <3>2. QED  BY <1>k, <3>1 DEF Exists
  <2>2. ASSUME request'[r].pc \in {"store", "insert"}
        PROVE  /\ ~Exists(request[r].doc)'
               /\ \A s \in Requests : request'[s].doc = request'[r].doc => s = r
    <3>1. CASE request[r].pc \in {"store", "insert"} /\ request'[r].doc = request[r].doc
      <4>1. request[r].doc \in Docs /\ ~Exists(request[r].doc)
        BY <3>1 DEF UploadsApart, Wired, RequestsWired
      <4>2. \A q \in Requests : CommitUpload(q) => q # r
        BY <1>t, <2>2 DEF CommitUpload, Proceed, Return, IdleRequest, RequestRecord
      <4>3. ~Exists(request[r].doc)'
        BY <1>k, <3>1, <4>1, <4>2 DEF UploadsApart, Exists
      <4>4. ASSUME NEW s \in Requests, s # r, request'[s].doc = request[r].doc
            PROVE  FALSE
        <5>1. request[s].doc # request[r].doc  BY <3>1, <4>4 DEF UploadsApart
        <5>2. request[r].doc # None
          BY <4>1, IngestionAssumption
        <5>3. Fresh(request'[s].doc) \/ Exists(request'[s].doc)
          BY <4>4, <5>1, <5>2, RequestSteps
        <5>4. QED  BY <3>1, <4>1, <4>4, <5>3 DEF Fresh
      <4>5. QED  BY <3>1, <4>3, <4>4
    <3>2. CASE /\ request'[r].pc = "store" /\ Fresh(request'[r].doc)
               /\ request'[r].doc \in Docs /\ UNCHANGED documents
               /\ \A s \in Requests \ {r} : request'[s] = request[s]
      BY <3>2 DEF Fresh, Exists
    <3>3. QED  BY <2>2, <3>1, <3>2, RequestSteps
  <2>3. QED  BY <2>1, <2>2
<1>3. QED  BY <1>k, <1>1, <1>2

LEMMA InitDocumentsThere == Init => DocumentsThere
  BY DEF Init, DocumentsThere, DeletedExist, JobsHaveDocuments, UploadsApart, Exists,
         NoDocument, NoJob, IdleRequest

LEMMA DocumentsThereInvariant == Spec => []DocumentsThere
  BY InitDocumentsThere, DocumentsThereStep, Typed, PTL DEF Spec

-----------------------------------------------------------------------------
(***************************************************************************)
(* Editions.                                                               *)
(***************************************************************************)

\* A handler that has started its job and may still commit chunk rows.
Started(h) == handler[h].pc \in {"load", "blocked", "upsert", "complete"}

\* A handler's generation is of an attempt its job has counted, nobody else's and
\* not yet that of committed rows; committed rows are of a counted attempt.
EditionsApart ==
    /\ \A h \in Handlers :
         Started(h) => handler[h].attempt <= jobs[handler[h].job].attempts
    /\ \A h, o \in Handlers :
         Started(h) /\ Started(o) /\ Generation(h) = Generation(o) => h = o
    /\ \A h \in Handlers, d \in Docs : Started(h) => rows[d] # Generation(h)
    /\ \A d \in Docs : rows[d] # None => rows[d][2] <= jobs[rows[d][1]].attempts

\* The attempts of a job are counted up.
LEMMA AttemptsKept ==
  ASSUME TypeOK, Wired, [Next]_vars
  PROVE  \A j \in Jobs :
           jobs[j].status # "none" =>
             /\ jobs'[j].attempts \in Nat
             /\ jobs[j].attempts <= jobs'[j].attempts
<1>t. jobs \in [Jobs -> JobRecord]
  BY DEF TypeOK
<1> DEFINE Kept == \A j \in Jobs :
             jobs[j].status # "none" =>
               jobs'[j].attempts \in Nat /\ jobs[j].attempts <= jobs'[j].attempts
<1>1. ASSUME NEW r \in Requests, CommitUpload(r) PROVE Kept
  BY <1>1, <1>t DEF CommitUpload, NewJob, Wired, RequestsWired, JobRecord
<1>2. ASSUME NEW r \in Requests, CommitNewJob(r) PROVE Kept
  BY <1>2, <1>t DEF CommitNewJob, NewJob, Wired, RequestsWired, JobRecord
<1>3. ASSUME NEW r \in Requests, MarkPublishFailed(r) PROVE Kept
  BY <1>3, <1>t DEF MarkPublishFailed, SetJob, JobRecord
<1>4. ASSUME NEW h \in Handlers, MarkRunning(h) PROVE Kept
  BY <1>4, <1>t DEF MarkRunning, JobRecord
<1>5. ASSUME NEW h \in Handlers, MarkCompleted(h) PROVE Kept
  BY <1>5, <1>t DEF MarkCompleted, SetJob, JobRecord
<1>6. ASSUME NEW h \in Handlers, MarkFailed(h) PROVE Kept
  BY <1>6, <1>t DEF MarkFailed, SetJob, JobRecord
<1>7. CASE UNCHANGED jobs
  BY <1>7, <1>t DEF JobRecord
<1> QED
  BY <1>1, <1>2, <1>3, <1>4, <1>5, <1>6, <1>7, OtherStepsLeaveJobs

\* No handler starts but in MarkRunning, and none changes its generation on the way.
LEMMA StartedSteps ==
  ASSUME TypeOK, [Next]_vars
  PROVE  \/ /\ UNCHANGED rows
            /\ \A h \in Handlers : Started(h)' =>
                 /\ Started(h)
                 /\ handler'[h].job = handler[h].job
                 /\ handler'[h].attempt = handler[h].attempt
         \/ \E h \in Handlers : MarkRunning(h) \/ MarkCompleted(h)
<1> DEFINE Same ==
      /\ UNCHANGED rows
      /\ \A h \in Handlers : Started(h)' =>
           /\ Started(h)
           /\ handler'[h].job = handler[h].job
           /\ handler'[h].attempt = handler[h].attempt
<1>t. handler \in [Handlers -> HandlerRecord]
  BY DEF TypeOK
<1> USE DEF HandlerRecord, postgres, OnlyHandler, Started
<1>1. ASSUME NEW r \in Requests, RequestStep(r) PROVE Same
  BY <1>1 DEF RequestStep, StoreObject, StoreFails, CommitUpload, CommitNewJob, PublishJob,
              PublishFails, MarkPublishFailed, RequestDatabaseError
<1>2. ASSUME NEW h \in Handlers, NEW pc,
             pc \in {"load", "blocked", "upsert", "complete"} => Started(h),
             Goto(h, pc) \/ Abort(h, pc), UNCHANGED rows
      PROVE  Same
  BY <1>2, <1>t DEF Goto, Abort
<1>3. ASSUME NEW h \in Handlers, Free(h), UNCHANGED rows PROVE Same
  BY <1>3, <1>t DEF Free, IdleHandler
<1>4. ASSUME NEW h \in Handlers, ReplaceChunks(h) PROVE Same
  BY <1>4, <1>t DEF ReplaceChunks
<1>5. ASSUME NEW h \in Handlers, UpsertPoints(h) PROVE Same
  BY <1>5, <1>2 DEF UpsertPoints
<1>6. ASSUME NEW h \in Handlers, NEW j \in Jobs, Deliver(h, j) PROVE Same
  BY <1>6, <1>t DEF Deliver
<1>7. ASSUME NEW h \in Handlers, ConnectionLost(h) PROVE Same
  BY <1>7, <1>t DEF ConnectionLost
<1>8. ASSUME NEW h \in Handlers, HandlerStep(h)
      PROVE  Same \/ MarkRunning(h) \/ MarkCompleted(h)
  BY <1>8, <1>2, <1>3, <1>4, <1>5 DEF HandlerStep, FindJob, WaitForRows,
     RestrictedByCitation, NoChunks, ProcessingFails, Rollback, MarkFailed,
     HandlerDatabaseError, Settle
<1>9. ASSUME NEW a \in Answers, Cite(a) PROVE Same
  BY <1>9 DEF Cite
<1>10. ASSUME UserStep PROVE Same
  BY <1>10 DEF UserStep, BeginUpload, RetryJob, ReindexDocument, Requeue, DeleteDocument,
               LoadEvidence
<1>11. ASSUME FaultStep PROVE Same
  BY <1>11, <1>3, <1>7 DEF FaultStep, RequestCrash, HandlerCrash
<1> QED
  BY <1>1, <1>6, <1>8, <1>9, <1>10, <1>11 DEF Same, Next, Rest, vars

LEMMA EditionsApartStep ==
  ASSUME TypeOK, Wired, Chunks, EditionsApart, [Next]_vars
  PROVE  EditionsApart'
<1>t. /\ handler \in [Handlers -> HandlerRecord]
      /\ jobs \in [Jobs -> JobRecord]
      /\ rows \in [Docs -> Generations \cup {None}]
      /\ None \notin Generations
  BY IngestionAssumption DEF TypeOK, Generations
\* The attempts that are counted before the step are counted after it.
<1>h. \A h \in Handlers : Started(h) =>
        /\ handler[h].job \in Jobs /\ handler[h].attempt \in Nat
        /\ jobs[handler[h].job].attempts \in Nat
        /\ handler[h].attempt <= jobs[handler[h].job].attempts
        /\ jobs'[handler[h].job].attempts \in Nat
        /\ handler[h].attempt <= jobs'[handler[h].job].attempts
  BY <1>t, AttemptsKept DEF Started, Wired, HandlersWired, EditionsApart, JobRecord,
     HandlerRecord
<1>r. \A d \in Docs : rows[d] # None =>
        /\ rows[d][1] \in Jobs /\ rows[d][2] \in Nat
        /\ jobs[rows[d][1]].attempts \in Nat
        /\ rows[d][2] <= jobs[rows[d][1]].attempts
        /\ jobs'[rows[d][1]].attempts \in Nat
        /\ rows[d][2] <= jobs'[rows[d][1]].attempts
  BY <1>t, AttemptsKept DEF Chunks, RowsOwned, EditionsApart, JobRecord, Generations
<1>1. CASE /\ UNCHANGED rows
           /\ \A h \in Handlers : Started(h)' =>
                /\ Started(h)
                /\ handler'[h].job = handler[h].job
                /\ handler'[h].attempt = handler[h].attempt
  BY <1>1, <1>h, <1>r DEF EditionsApart, Generation
<1>2. ASSUME NEW h \in Handlers, MarkRunning(h) PROVE EditionsApart'
  <2> DEFINE j == handler[h].job
  <2>1. UNCHANGED rows /\ j \in Jobs /\ jobs[j].status # "none"
    BY <1>2 DEF MarkRunning, Wired, HandlersWired
  <2>2. /\ handler'[h].job = j
        /\ handler'[h].attempt = jobs[j].attempts + 1
        /\ \A o \in Handlers \ {h} : handler'[o] = handler[o]
    BY <1>2, <1>t DEF MarkRunning, HandlerRecord
  <2>3. jobs[j].attempts \in Nat /\ jobs'[j].attempts = jobs[j].attempts + 1
    BY <1>2, <1>t, <2>1 DEF MarkRunning, JobRecord
  <2>4. \A o \in Handlers \ {h} : Started(o)' => Started(o) /\ Generation(o)' = Generation(o)
    BY <2>2 DEF Started, Generation
  <2>5. \A o \in Handlers \ {h} : Started(o) => Generation(o) # <<j, jobs[j].attempts + 1>>
    BY <1>h, <2>3 DEF Generation
  <2>6. ASSUME NEW d \in Docs, rows[d] = <<j, jobs[j].attempts + 1>> PROVE FALSE
    <3>1. rows[d] \in Generations
      BY <2>1, <2>3, <2>6 DEF Generations
    <3>2. rows[d][2] <= jobs[rows[d][1]].attempts
      BY <1>r, <1>t, <3>1
    <3>3. QED  BY <2>3, <2>6, <3>2
  <2>7. Generation(h)' = <<j, jobs[j].attempts + 1>>
    BY <2>2 DEF Generation
  <2>8. \A o \in Handlers : Started(o)' => handler'[o].attempt <= jobs'[handler'[o].job].attempts
    BY <1>h, <2>2, <2>3, <2>4
  <2>9. \A d \in Docs : rows'[d] # None => rows'[d][2] <= jobs'[rows'[d][1]].attempts
    BY <1>r, <2>1
  <2>10. \A o, q \in Handlers :
           Started(o)' /\ Started(q)' /\ Generation(o)' = Generation(q)' => o = q
    BY <2>4, <2>5, <2>7 DEF EditionsApart
  <2>11. \A o \in Handlers, d \in Docs : Started(o)' => rows'[d] # Generation(o)'
    BY <2>1, <2>4, <2>6, <2>7 DEF EditionsApart
  <2>12. QED  BY <2>8, <2>9, <2>10, <2>11 DEF EditionsApart
<1>3. ASSUME NEW h \in Handlers, MarkCompleted(h) PROVE EditionsApart'
  <2>1. /\ rows' = [rows EXCEPT ![Document(h)] = Generation(h)]
        /\ Started(h) /\ ~Started(h)'
        /\ \A o \in Handlers \ {h} : Started(o)' =>
             /\ Started(o)
             /\ handler'[o].job = handler[o].job
             /\ handler'[o].attempt = handler[o].attempt
    <3>1. PICK pc \in {"settle", "rollback"} : handler' = [o \in Handlers |->
             IF o = h THEN [handler[h] EXCEPT !.pc = pc, !.tx = FALSE]
             ELSE IF o \in Waiting(h) THEN [handler[o] EXCEPT !.pc = "rollback"]
             ELSE handler[o]]
      BY <1>3 DEF MarkCompleted, AfterCommit
    <3>2. handler[h].pc = "complete" /\ rows' = [rows EXCEPT ![Document(h)] = Generation(h)]
      BY <1>3 DEF MarkCompleted
    <3>3. QED  BY <1>t, <3>1, <3>2 DEF HandlerRecord, Started
  <2>2. \A o \in Handlers : Started(o)' =>
          o # h /\ Started(o) /\ Generation(o)' = Generation(o)
    BY <2>1 DEF Generation
  <2>3. \A d \in Docs : rows'[d] = rows[d] \/ rows'[d] = Generation(h)
    BY <1>t, <2>1
  <2>4. \A o \in Handlers : Started(o)' => handler'[o].attempt <= jobs'[handler'[o].job].attempts
    BY <1>h, <2>1, <2>2
  <2>5. \A d \in Docs : rows'[d] # None => rows'[d][2] <= jobs'[rows'[d][1]].attempts
    BY <1>h, <1>r, <2>1, <2>3 DEF Generation
  <2>6. \A o, q \in Handlers :
           Started(o)' /\ Started(q)' /\ Generation(o)' = Generation(q)' => o = q
    BY <2>2 DEF EditionsApart
  <2>7. \A o \in Handlers, d \in Docs : Started(o)' => rows'[d] # Generation(o)'
    BY <2>1, <2>2, <2>3 DEF EditionsApart
  <2>8. QED  BY <2>4, <2>5, <2>6, <2>7 DEF EditionsApart
<1> QED
  BY <1>1, <1>2, <1>3, StartedSteps

LEMMA EditionsApartInvariant == Spec => []EditionsApart
<1>1. Init => EditionsApart
  BY DEF Init, EditionsApart, Started, IdleHandler
<1> QED
  BY <1>1, EditionsApartStep, Typed, ChunksInvariant, PTL DEF Spec

-----------------------------------------------------------------------------
(***************************************************************************)
(* Refinement: what readers see takes a step of the corpus or stays.       *)
(***************************************************************************)

LEMMA InitView == Init => ReadersView!Init
  BY DEF Init, ReadersView!Init, NoDocument

\* A status that is written shows, and no deletion with it.
LEMMA StatusShown ==
  ASSUME TypeOK, NEW d \in Docs, NEW s \in DocumentStatus, SetDocument(d, s)
  PROVE  /\ ReadersView!SetStatus(d, s)
         /\ {e \in Docs : documents'[e].deleted} = {e \in Docs : documents[e].deleted}
<1>1. documents \in [Docs -> DocumentRecord]
  BY DEF TypeOK
<1>2. QED
  BY <1>1 DEF SetDocument, ReadersView!SetStatus, DocumentRecord

LEMMA ViewStep ==
  ASSUME TypeOK, Wired, Chunks, DocumentsThere, EditionsApart, [Next]_vars
  PROVE  [ReadersView!Next]_(ReadersView!vars)
<1> DEFINE Goal == [ReadersView!Next]_(ReadersView!vars)
<1>t. /\ documents \in [Docs -> DocumentRecord]
      /\ rows \in [Docs -> Generations \cup {None}]
      /\ handler \in [Handlers -> HandlerRecord]
      /\ None \notin Generations
  BY IngestionAssumption DEF TypeOK, Generations
<1>u. DeletedExist /\ UploadsApart
  BY DEF DocumentsThere
<1>1. ASSUME NEW r \in Requests, CommitUpload(r) PROVE Goal
  <2>0. PICK d \in Docs : d = request[r].doc
    BY <1>1 DEF CommitUpload, Wired, RequestsWired
  <2>1. /\ ~Exists(d) /\ ~documents[d].deleted
        /\ UNCHANGED <<rows, cited>>
        /\ documents' = [documents EXCEPT ![d] =
             [status |-> "queued", tenant |-> request[r].tenant,
              content |-> request[r].content, deleted |-> FALSE]]
    BY <1>1, <1>t, <1>u, <2>0 DEF CommitUpload, UploadsApart, DeletedExist, DocumentRecord
  <2>2. {e \in Docs : documents'[e].deleted} = {e \in Docs : documents[e].deleted}
    BY <1>t, <2>1
  <2>3. ReadersView!SetStatus(d, "queued")
    BY <1>t, <2>1 DEF ReadersView!SetStatus
  <2>4. ReadersView!Add(d)
    BY <2>1, <2>2, <2>3 DEF ReadersView!Add, ReadersView!Exists, Exists
  <2>5. QED  BY <2>4 DEF ReadersView!Next
<1>2. ASSUME NEW r \in Requests, CommitNewJob(r) PROVE Goal
  <2>0. PICK d \in Docs : d = request[r].doc
    BY <1>2, RequestDocument DEF CommitNewJob
  <2>1. /\ Exists(d)
        /\ UNCHANGED <<rows, cited>>
        /\ IF documents[d].deleted THEN UNCHANGED documents ELSE SetDocument(d, "queued")
    BY <1>2, <2>0, RequestDocument DEF CommitNewJob
  <2>2. CASE documents[d].deleted
    BY <2>1, <2>2 DEF ReadersView!vars
  <2>3. CASE ~documents[d].deleted
    <3>1. ReadersView!Queue(d)
      BY <2>1, <2>3, StatusShown, Statuses DEF ReadersView!Queue, ReadersView!Exists, Exists
    <3>2. QED  BY <3>1 DEF ReadersView!Next
  <2>4. QED  BY <2>2, <2>3
<1>3. ASSUME NEW d \in Docs, Exists(d), SetDocument(d, "failed"), UNCHANGED <<rows, cited>>
      PROVE  Goal
  <2>1. ReadersView!Fail(d)
    BY <1>3, StatusShown, Statuses DEF ReadersView!Fail, ReadersView!Exists, Exists
  <2>2. QED  BY <2>1 DEF ReadersView!Next
<1>4. ASSUME NEW r \in Requests, MarkPublishFailed(r) PROVE Goal
  BY <1>3, <1>4, RequestDocument DEF MarkPublishFailed
<1>5. ASSUME NEW h \in Handlers, MarkFailed(h) PROVE Goal
  BY <1>3, <1>5, HandlerDocument DEF MarkFailed, DocumentsThere
<1>6. ASSUME NEW h \in Handlers, MarkCompleted(h) PROVE Goal
  <2>0. PICK d \in Docs : d = Document(h)
    BY <1>6, HandlerDocument DEF MarkCompleted, DocumentsThere
  <2> DEFINE g == Generation(h)
  <2>1. /\ Exists(d)
        /\ SetDocument(d, "indexed")
        /\ rows' = [rows EXCEPT ![d] = g]
        /\ UNCHANGED cited
    BY <1>6, <2>0, HandlerDocument DEF MarkCompleted, DocumentsThere
  <2>2. rows[d] \notin cited
    BY <1>6, <2>0 DEF MarkCompleted, Chunks, PointsWritten, RowsLocked
  <2>3. g \in Generations /\ rows[d] # g
    BY <1>6, <1>t, <2>1 DEF MarkCompleted, EditionsApart, Started, Wired, HandlersWired,
       Generation, Generations, HandlerRecord
  <2> HIDE DEF g
  <2>4. rows'[d] = g /\ rows' = [rows EXCEPT ![d] = rows'[d]]
    BY <1>t, <2>1
  <2>5. ReadersView!Index(d)
    BY <2>1, <2>2, <2>3, <2>4, StatusShown, Statuses
    DEF ReadersView!Index, ReadersView!Exists, Exists
  <2>6. QED  BY <2>5 DEF ReadersView!Next
<1>7. ASSUME NEW t \in Tenants, NEW d \in Docs, DeleteDocument(t, d) PROVE Goal
  <2>1. /\ Exists(d) /\ ~documents[d].deleted
        /\ UNCHANGED <<rows, cited>>
        /\ documents' = [documents EXCEPT ![d].status = "deleted", ![d].deleted = TRUE]
    BY <1>7 DEF DeleteDocument, Visible, Exists
  <2>2. {e \in Docs : documents'[e].deleted} = {e \in Docs : documents[e].deleted} \cup {d}
    BY <1>t, <2>1 DEF DocumentRecord
  <2>3. ReadersView!SetStatus(d, "deleted")
    BY <1>t, <2>1 DEF ReadersView!SetStatus, DocumentRecord
  <2>4. ReadersView!Remove(d)
    BY <2>1, <2>2, <2>3 DEF ReadersView!Remove, ReadersView!Exists, Exists
  <2>5. QED  BY <2>4 DEF ReadersView!Next
<1>8. ASSUME NEW a \in Answers, Cite(a) PROVE Goal
  <2> DEFINE g == answer[a]
             d == jobs[g[1]].doc
  <2>1. UNCHANGED <<documents, rows>> /\ g # None
    BY <1>8 DEF Cite
  <2>2. d \in Docs
    <3>1. g \in Generations
      BY <2>1 DEF TypeOK
    <3>2. g[1] \in Jobs
      BY <3>1 DEF Generations
    <3>3. QED  BY <2>1, <3>2 DEF Chunks, AnswersOwned, Wired, JobsWired
  <2>3. cited' = cited \/ (rows[d] = g /\ cited' = cited \cup {rows[d]})
    BY <1>8 DEF Cite
  <2> HIDE DEF g, d
  <2>4. CASE cited' = cited
    BY <2>1, <2>4 DEF ReadersView!vars
  <2>5. CASE rows[d] = g /\ cited' = cited \cup {rows[d]}
    <3>1. ReadersView!Cite(d)
      BY <2>1, <2>5 DEF ReadersView!Cite
    <3>2. QED  BY <2>2, <3>1 DEF ReadersView!Next
  <2>6. QED  BY <2>3, <2>4, <2>5
<1>9. CASE UNCHANGED <<documents, rows, cited>>
  BY <1>9 DEF ReadersView!vars
<1>10. ASSUME UNCHANGED documents
       PROVE  \/ UNCHANGED <<rows, cited>>
              \/ \E h \in Handlers : MarkCompleted(h)
              \/ \E a \in Answers : Cite(a)
  BY OtherStepsLeaveChunks DEF ReplaceChunks, UpsertPoints, OnlyHandler, postgres
<1> QED
  BY <1>1, <1>2, <1>4, <1>5, <1>6, <1>7, <1>8, <1>9, <1>10, OtherStepsLeaveDocuments

\* Readers of the pipeline see the corpus of the abstract specification: editions
\* are replaced in one piece, by a new one, together with the status, a failure
\* leaves the old edition where it is and an edition that an answer cites is never
\* replaced, whatever the requests, handlers, redeliveries, crashes and failures
\* behind it do.
THEOREM RefinesCorpus == Spec => ImplementsCorpus
<1>1. [Next]_vars /\ TypeOK /\ Wired /\ Chunks /\ DocumentsThere /\ EditionsApart
        => [ReadersView!Next]_(ReadersView!vars)
  BY ViewStep
<1>2. QED
  BY <1>1, InitView, Typed, ChunksInvariant, DocumentsThereInvariant, EditionsApartInvariant,
     PTL
  DEF Spec, ImplementsCorpus, ReadersView!Spec

-----------------------------------------------------------------------------
(***************************************************************************)
(* Committed documents have their text.                                    *)
(***************************************************************************)

\* The text is there before the row is inserted.
Stored ==
    /\ CommittedIsStored
    /\ \A r \in Requests : request[r].pc = "insert" => request[r].doc \in objects

\* The object store forgets nothing, and a request comes to its INSERT only after
\* it stored the text.
LEMMA ObjectsKept ==
  ASSUME TypeOK, Wired, [Next]_vars
  PROVE  /\ objects \subseteq objects'
         /\ \A r \in Requests : request'[r].pc = "insert" =>
              \/ request'[r] = request[r]
              \/ request'[r].doc \in objects'
<1>t. request \in [Requests -> RequestRecord]
  BY DEF TypeOK
<1> DEFINE Kept == /\ objects \subseteq objects'
                   /\ \A r \in Requests : request'[r].pc = "insert" =>
                        request'[r] = request[r] \/ request'[r].doc \in objects'
<1> USE DEF postgres, RequestRecord
<1>1. ASSUME NEW r \in Requests, Return(r), objects \subseteq objects' PROVE Kept
  BY <1>1, <1>t DEF Return, IdleRequest
<1>2. ASSUME NEW r \in Requests, NEW pc, pc # "insert", Proceed(r, pc), UNCHANGED objects
      PROVE  Kept
  BY <1>2, <1>t DEF Proceed
<1>3. ASSUME NEW r \in Requests, StoreObject(r) PROVE Kept
  BY <1>3, <1>t DEF StoreObject, Proceed
<1>4. ASSUME NEW r \in Requests, RequestStep(r) PROVE Kept
  BY <1>1, <1>2, <1>3, <1>4 DEF RequestStep, StoreFails, CommitUpload, CommitNewJob,
     PublishJob, PublishFails, MarkPublishFailed, RequestDatabaseError
<1>5. ASSUME NEW h \in Handlers, HandlerStep(h) PROVE UNCHANGED <<objects, request>>
  BY <1>5 DEF HandlerStep, FindJob, MarkRunning, ReplaceChunks, WaitForRows,
     RestrictedByCitation, NoChunks, ProcessingFails, UpsertPoints, MarkCompleted, Rollback,
     MarkFailed, HandlerDatabaseError, Settle, OnlyHandler
<1>6. CASE UNCHANGED <<objects, request>>
  BY <1>6
<1>7. ASSUME NEW r \in Requests, NEW pc \in {"store", "requeue"}, request'[r].pc = pc,
             \A q \in Requests \ {r} : request'[q] = request[q], UNCHANGED objects
      PROVE  Kept
  BY <1>7
<1>8. ASSUME NEW r \in Requests, NEW t \in Tenants, NEW c \in Contents, BeginUpload(r, t, c)
      PROVE  Kept
  BY <1>7, <1>8, <1>t DEF BeginUpload
<1>9. ASSUME NEW r \in Requests, NEW t \in Tenants, NEW d \in Docs, Requeue(r, t, d)
      PROVE  Kept
  BY <1>7, <1>9, <1>t DEF Requeue
<1>10. ASSUME UserStep PROVE Kept
  BY <1>6, <1>8, <1>9, <1>10 DEF UserStep, RetryJob, ReindexDocument, DeleteDocument,
     LoadEvidence
<1>11. ASSUME FaultStep PROVE Kept
  BY <1>1, <1>11 DEF FaultStep, RequestCrash, HandlerCrash, ConnectionLost
<1> QED
  BY <1>4, <1>5, <1>6, <1>10, <1>11 DEF Kept, Next, Deliver, Cite, Rest, vars

LEMMA StoredStep ==
  ASSUME TypeOK, Wired, DocumentsThere, Stored, [Next]_vars
  PROVE  Stored'
<1>1. ASSUME NEW d \in Docs, documents'[d].status # "none" PROVE d \in objects'
  <2>1. CASE Exists(d)
    BY <2>1, ObjectsKept DEF Stored, CommittedIsStored, Exists
  <2>2. CASE ~Exists(d)
    <3>1. PICK r \in Requests : CommitUpload(r) /\ d = request[r].doc
      BY <1>1, <2>2, DocumentsKept DEF Exists
    <3>2. QED  BY <3>1, ObjectsKept DEF CommitUpload, Stored
  <2>3. QED  BY <2>1, <2>2
<1>2. ASSUME NEW r \in Requests, request'[r].pc = "insert" PROVE request'[r].doc \in objects'
  BY <1>2, ObjectsKept DEF Stored
<1>3. QED  BY <1>1, <1>2 DEF Stored, CommittedIsStored

\* Every later retry and re-index of a committed document finds its text, whatever
\* failed or crashed while it was uploaded.
THEOREM StoredCorrect == Spec => []CommittedIsStored
<1>1. Init => Stored
  BY DEF Init, Stored, CommittedIsStored, NoDocument, IdleRequest
<1>2. TypeOK /\ Wired /\ DocumentsThere /\ Stored /\ [Next]_vars => Stored'
  BY StoredStep
<1>3. Stored => CommittedIsStored
  BY DEF Stored
<1> QED
  BY <1>1, <1>2, <1>3, Typed, DocumentsThereInvariant, PTL DEF Spec

-----------------------------------------------------------------------------
(***************************************************************************)
(* Tenants.                                                                *)
(***************************************************************************)

\* A request for a new job is of the document's tenant.
Tenancy ==
    /\ \A j \in Jobs : jobs[j].status # "none" => documents[jobs[j].doc].tenant = jobs[j].tenant
    /\ \A r \in Requests :
         request[r].pc = "requeue" => documents[request[r].doc].tenant = request[r].tenant

\* A document that is there keeps its tenant.
LEMMA TenantKept ==
  ASSUME TypeOK, Wired, DocumentsThere, [Next]_vars, NEW d \in Docs, Exists(d)
  PROVE  documents'[d].tenant = documents[d].tenant
<1>t. documents \in [Docs -> DocumentRecord]
  BY DEF TypeOK
<1>1. ASSUME NEW r \in Requests, CommitUpload(r)
      PROVE  documents'[d].tenant = documents[d].tenant
  BY <1>1, <1>t DEF CommitUpload, DocumentsThere, UploadsApart
<1>2. ASSUME NEW e, NEW s, SetDocument(e, s) PROVE documents'[d].tenant = documents[d].tenant
  BY <1>2, <1>t DEF SetDocument, DocumentRecord
<1>3. ASSUME NEW t \in Tenants, NEW e \in Docs, DeleteDocument(t, e)
      PROVE  documents'[d].tenant = documents[d].tenant
  BY <1>3, <1>t DEF DeleteDocument, DocumentRecord
<1> QED
  BY <1>1, <1>2, <1>3, OtherStepsLeaveDocuments DEF CommitNewJob, MarkPublishFailed,
     MarkCompleted, MarkFailed

\* A request that comes to its new job has just found the document of its tenant.
LEMMA RequeueStarts ==
  ASSUME TypeOK, [Next]_vars, NEW r \in Requests, request'[r].pc = "requeue"
  PROVE  \/ request'[r] = request[r]
         \/ /\ request'[r].doc \in Docs
            /\ documents'[request'[r].doc].tenant = request'[r].tenant
<1>t. request \in [Requests -> RequestRecord]
  BY DEF TypeOK
<1> DEFINE Stays == request'[r] = request[r]
<1> USE DEF postgres, RequestRecord
<1>1. ASSUME NEW q \in Requests, Return(q) PROVE Stays
  BY <1>1, <1>t DEF Return, IdleRequest
<1>2. ASSUME NEW q \in Requests, NEW pc, pc # "requeue", Proceed(q, pc)
      PROVE  Stays
  BY <1>2, <1>t DEF Proceed
<1>3. ASSUME NEW q \in Requests, RequestStep(q) PROVE Stays
  BY <1>1, <1>2, <1>3 DEF RequestStep, StoreObject, StoreFails, CommitUpload, CommitNewJob,
     PublishJob, PublishFails, MarkPublishFailed, RequestDatabaseError
<1>4. ASSUME NEW h \in Handlers, HandlerStep(h) PROVE Stays
  BY <1>4 DEF HandlerStep, FindJob, MarkRunning, ReplaceChunks, WaitForRows,
     RestrictedByCitation, NoChunks, ProcessingFails, UpsertPoints, MarkCompleted, Rollback,
     MarkFailed, HandlerDatabaseError, Settle, OnlyHandler
<1>5. ASSUME NEW q \in Requests, NEW t \in Tenants, NEW d \in Docs, Visible(t, d),
             Requeue(q, t, d)
      PROVE  \/ Stays
             \/ /\ request'[r].doc \in Docs
                /\ documents'[request'[r].doc].tenant = request'[r].tenant
  BY <1>5, <1>t DEF Requeue, Visible
<1>6. ASSUME NEW q \in Requests, NEW t \in Tenants, NEW c \in Contents, BeginUpload(q, t, c)
      PROVE  Stays
  BY <1>6, <1>t DEF BeginUpload
<1>7. ASSUME FaultStep PROVE Stays
  BY <1>1, <1>7 DEF FaultStep, RequestCrash, HandlerCrash, ConnectionLost
<1>8. CASE UNCHANGED request
  BY <1>8
<1> QED
  BY <1>3, <1>4, <1>5, <1>6, <1>7, <1>8 DEF Next, UserStep, RetryJob, ReindexDocument,
     DeleteDocument, LoadEvidence, Deliver, Cite, Rest, vars

LEMMA TenancyStep ==
  ASSUME TypeOK, Wired, DocumentsThere, Tenancy, [Next]_vars
  PROVE  Tenancy'
<1>t. jobs \in [Jobs -> JobRecord] /\ documents \in [Docs -> DocumentRecord]
  BY DEF TypeOK
<1>1. ASSUME NEW j \in Jobs, jobs'[j].status # "none"
      PROVE  documents'[jobs'[j].doc].tenant = jobs'[j].tenant
  <2>1. CASE jobs[j].status # "none"
    <3>1. jobs'[j].doc = jobs[j].doc /\ jobs'[j].tenant = jobs[j].tenant
      BY <2>1, JobsKept
    <3>2. jobs[j].doc \in Docs /\ Exists(jobs[j].doc)
      BY <2>1 DEF Wired, JobsWired, DocumentsThere, JobsHaveDocuments
    <3>3. QED  BY <2>1, <3>1, <3>2, TenantKept DEF Tenancy
  <2>2. CASE jobs[j].status = "none"
    <3>1. ASSUME NEW h \in Handlers, handler[h].pc # "idle" PROVE handler[h].job # j
      BY <2>2, <3>1 DEF Wired, HandlersWired
    <3>2. ASSUME NEW r \in Requests, request[r].pc = "publish_failed" PROVE request[r].job # j
      BY <2>2, <3>2 DEF Wired, RequestsWired
    <3>3. PICK r \in Requests : CommitUpload(r) \/ CommitNewJob(r)
      BY <1>1, <1>t, <2>2, <3>1, <3>2, OtherStepsLeaveJobs
      DEF MarkRunning, MarkCompleted, MarkFailed, MarkPublishFailed, SetJob
    <3>4. /\ jobs'[j].doc = request[r].doc /\ jobs'[j].tenant = request[r].tenant
      BY <1>1, <1>t, <2>2, <3>3 DEF CommitUpload, CommitNewJob, NewJob
    <3>5. request[r].doc \in Docs
      BY <3>3 DEF CommitUpload, CommitNewJob, Wired, RequestsWired
    <3>6. CASE CommitUpload(r)
      BY <1>t, <3>4, <3>5, <3>6 DEF CommitUpload
    <3>7. CASE CommitNewJob(r)
      BY <3>4, <3>5, <3>7, TenantKept DEF CommitNewJob, Tenancy, DocumentsThere, UploadsApart
    <3>8. QED  BY <3>3, <3>6, <3>7
  <2>3. QED  BY <2>1, <2>2
<1>2. ASSUME NEW r \in Requests, request'[r].pc = "requeue"
      PROVE  documents'[request'[r].doc].tenant = request'[r].tenant
  <2>1. CASE request'[r] = request[r]
    <3>1. request[r].doc \in Docs /\ Exists(request[r].doc)
      BY <1>2, <2>1 DEF DocumentsThere, UploadsApart, Wired, RequestsWired
    <3>2. QED  BY <1>2, <2>1, <3>1, TenantKept DEF Tenancy
  <2>2. QED  BY <1>2, <2>1, RequeueStarts
<1>3. QED  BY <1>1, <1>2 DEF Tenancy

\* Every job is of the tenant that owns its document, and so is the job that wrote
\* the chunk rows of a document.
THEOREM TenantsIsolated == Spec => []TenantIsolation
<1>1. Init => Tenancy
  BY DEF Init, Tenancy, NoJob, IdleRequest
<1>2. TypeOK /\ Wired /\ DocumentsThere /\ Tenancy /\ [Next]_vars => Tenancy'
  BY TenancyStep
<1>3. ASSUME TypeOK, Chunks, Tenancy PROVE TenantIsolation
  <2>1. ASSUME NEW d \in Docs, rows[d] # None
        PROVE  jobs[rows[d][1]].tenant = documents[d].tenant
    <3>1. rows[d][1] \in Jobs
      BY <1>3, <2>1 DEF TypeOK, Generations
    <3>2. QED  BY <1>3, <2>1, <3>1 DEF Chunks, RowsOwned, Tenancy
  <2>2. QED  BY <1>3, <2>1 DEF TenantIsolation, Tenancy
<1> QED
  BY <1>1, <1>2, <1>3, Typed, ChunksInvariant, DocumentsThereInvariant, PTL DEF Spec

-----------------------------------------------------------------------------
(***************************************************************************)
(* The status of a document is explained by its jobs and rows.             *)
(***************************************************************************)

HasJob(d, S) == \E j \in Jobs : jobs[j].doc = d /\ jobs[j].status \in S

Explained(d) ==
    /\ documents[d].status = "queued" => HasJob(d, {"queued", "running"})
    /\ documents[d].status = "indexed" => rows[d] # None
    /\ documents[d].status = "failed" => HasJob(d, {"failed", "running"})

LEMMA ExplainedStep ==
  ASSUME TypeOK, Wired, Chunks, DocumentsThere, \A d \in Docs : Explained(d), [Next]_vars
  PROVE  \A d \in Docs : Explained(d)'
<1>t. /\ jobs \in [Jobs -> JobRecord]
      /\ documents \in [Docs -> DocumentRecord]
      /\ rows \in [Docs -> Generations \cup {None}]
      /\ handler \in [Handlers -> HandlerRecord]
      /\ None \notin Generations
  BY IngestionAssumption DEF TypeOK, Generations
<1> DEFINE Goal == \A d \in Docs : Explained(d)'
           Same(d) == /\ documents'[d].status = documents[d].status
                      /\ rows'[d] = rows[d]
                      /\ \A j \in Jobs : jobs[j].doc = d /\ jobs[j].status # "none" =>
                           jobs'[j].doc = d /\ jobs'[j].status = jobs[j].status
\* Nothing changes for a document whose row, chunk rows and jobs stay.
<1>0. ASSUME NEW d \in Docs, Same(d) PROVE Explained(d)'
  BY <1>0 DEF Explained, HasJob
<1>1. ASSUME NEW r \in Requests, CommitUpload(r) PROVE Goal
  <2>1. /\ request[r].job \in Jobs /\ request[r].doc \in Docs
        /\ jobs[request[r].job].status = "none"
    BY <1>1 DEF CommitUpload, Wired, RequestsWired
  <2>2. /\ jobs'[request[r].job].doc = request[r].doc
        /\ jobs'[request[r].job].status = "queued"
        /\ documents'[request[r].doc].status = "queued"
    BY <1>1, <1>t, <2>1 DEF CommitUpload, NewJob
  <2>3. \A d \in Docs \ {request[r].doc} : Same(d)
    BY <1>1, <1>t, <2>1 DEF CommitUpload
  <2>4. ASSUME NEW d \in Docs PROVE Explained(d)'
    <3>1. CASE d = request[r].doc
      BY <2>1, <2>2, <3>1 DEF Explained, HasJob
    <3>2. CASE d # request[r].doc
      BY <1>0, <2>3, <3>2
    <3>3. QED  BY <3>1, <3>2
  <2>5. QED  BY <2>4
<1>2. ASSUME NEW r \in Requests, CommitNewJob(r) PROVE Goal
  <2>1. /\ request[r].job \in Jobs /\ request[r].doc \in Docs
        /\ jobs[request[r].job].status = "none"
    BY <1>2 DEF CommitNewJob, Wired, RequestsWired
  <2>2. /\ jobs'[request[r].job].doc = request[r].doc
        /\ jobs'[request[r].job].status = "queued"
        /\ \/ documents'[request[r].doc].status = "queued"
           \/ documents' = documents
    BY <1>2, <1>t, <2>1 DEF CommitNewJob, NewJob, SetDocument, DocumentRecord
  <2>3. \A d \in Docs : documents' = documents \/ d # request[r].doc => Same(d)
    BY <1>2, <1>t, <2>1 DEF CommitNewJob, SetDocument
  <2>4. ASSUME NEW d \in Docs PROVE Explained(d)'
    <3>1. CASE d = request[r].doc /\ documents'[d].status = "queued"
      BY <2>1, <2>2, <3>1 DEF Explained, HasJob
    <3>2. CASE documents' = documents \/ d # request[r].doc
      BY <1>0, <2>3, <3>2
    <3>3. QED  BY <2>2, <3>1, <3>2
  <2>5. QED  BY <2>4
\* A job and its document fail together.
<1>3. ASSUME NEW j \in Jobs, jobs[j].status # "none", NEW e \in Docs, e = jobs[j].doc,
             SetJob(j, "failed"), SetDocument(e, "failed"), UNCHANGED rows
      PROVE  Goal
  <2>1. /\ jobs'[j].status = "failed" /\ jobs'[j].doc = e
        /\ documents'[e].status = "failed"
    BY <1>3, <1>t DEF SetJob, SetDocument, JobRecord, DocumentRecord
  <2>2. \A d \in Docs \ {e} : Same(d)
    BY <1>3, <1>t DEF SetJob, SetDocument, JobRecord
  <2>3. ASSUME NEW d \in Docs PROVE Explained(d)'
    <3>1. CASE d = e
      BY <2>1, <3>1 DEF Explained, HasJob
    <3>2. CASE d # e
      BY <1>0, <2>2, <3>2
    <3>3. QED  BY <3>1, <3>2
  <2>4. QED  BY <2>3
<1>4. ASSUME NEW r \in Requests, MarkPublishFailed(r) PROVE Goal
  BY <1>3, <1>4, RequestDocument DEF MarkPublishFailed, Wired, RequestsWired
<1>5. ASSUME NEW h \in Handlers, MarkFailed(h) PROVE Goal
  BY <1>3, <1>5, HandlerDocument DEF MarkFailed, DocumentsThere, Document
<1>6. ASSUME NEW h \in Handlers, MarkCompleted(h) PROVE Goal
  <2>0. PICK e \in Docs : e = Document(h)
    BY <1>6, HandlerDocument DEF MarkCompleted, DocumentsThere
  <2>1. PICK j \in Jobs : j = handler[h].job /\ jobs[j].doc = e
    BY <1>6, <2>0 DEF MarkCompleted, Wired, HandlersWired, Document
  <2>2. Generation(h) # None
    BY <1>6, <1>t, <2>1 DEF MarkCompleted, Generation, Generations, HandlerRecord
  <2>3. documents'[e].status = "indexed" /\ rows'[e] # None
    BY <1>6, <1>t, <2>0, <2>2 DEF MarkCompleted, SetDocument, DocumentRecord
  <2>4. /\ SetJob(j, "completed") /\ SetDocument(e, "indexed")
        /\ rows' = [rows EXCEPT ![e] = Generation(h)]
    BY <1>6, <2>0, <2>1 DEF MarkCompleted
  <2>5. \A d \in Docs \ {e} : Same(d)
    BY <1>t, <2>1, <2>4 DEF SetJob, SetDocument, JobRecord
  <2>6. ASSUME NEW d \in Docs PROVE Explained(d)'
    <3>1. CASE d = e
      BY <2>3, <3>1 DEF Explained
    <3>2. CASE d # e
      BY <1>0, <2>5, <3>2
    <3>3. QED  BY <3>1, <3>2
  <2>7. QED  BY <2>6
<1>7. ASSUME NEW t \in Tenants, NEW e \in Docs, DeleteDocument(t, e) PROVE Goal
  <2>1. documents'[e].status = "deleted"
    BY <1>7, <1>t DEF DeleteDocument, DocumentRecord
  <2>2. \A d \in Docs \ {e} : Same(d)
    BY <1>7, <1>t DEF DeleteDocument
  <2>3. ASSUME NEW d \in Docs PROVE Explained(d)'
    <3>1. CASE d = e
      BY <2>1, <3>1 DEF Explained
    <3>2. CASE d # e
      BY <1>0, <2>2, <3>2
    <3>3. QED  BY <3>1, <3>2
  <2>4. QED  BY <2>3
\* A job that starts is neither completed nor forgotten.
<1>8. ASSUME NEW h \in Handlers, MarkRunning(h) PROVE Goal
  <2>1. UNCHANGED <<documents, rows>>
    BY <1>8 DEF MarkRunning
  <2>2. \A j \in Jobs : /\ jobs'[j].doc = jobs[j].doc
                        /\ jobs'[j].status \in {jobs[j].status, "running"}
    BY <1>8, <1>t DEF MarkRunning, JobRecord
  <2>3. QED  BY <2>1, <2>2 DEF Explained, HasJob
<1>9. ASSUME UNCHANGED <<documents, jobs, rows>> PROVE Goal
  BY <1>0, <1>9
<1>10. UNCHANGED rows \/ (\E h \in Handlers : MarkCompleted(h))
  BY OtherStepsLeaveChunks DEF ReplaceChunks, UpsertPoints, Cite, OnlyHandler, postgres
<1> QED
  BY <1>1, <1>2, <1>4, <1>5, <1>6, <1>7, <1>8, <1>9, <1>10, OtherStepsLeaveDocuments,
     OtherStepsLeaveJobs

\* At any time a user who sees queued, indexed or failed sees it for a reason.
THEOREM StatusExplained == Spec => []StatusIsExplained
<1> DEFINE All == \A d \in Docs : Explained(d)
<1>1. Init => All
  BY DEF Init, Explained, NoDocument
<1>2. TypeOK /\ Wired /\ Chunks /\ DocumentsThere /\ All /\ [Next]_vars => All'
  BY ExplainedStep
<1>3. All => StatusIsExplained
  BY DEF StatusIsExplained, Explained, HasJob
<1> QED
  BY <1>1, <1>2, <1>3, Typed, ChunksInvariant, DocumentsThereInvariant, PTL DEF Spec

\* Once everything has come to rest, a document that is shown failed has a failed
\* job, which is what the retry endpoint asks for.
THEOREM FailedRetryable == Spec => []FailedIsRetryable
<1>1. ASSUME TypeOK, StatusIsExplained, NoOrphanedJob PROVE FailedIsRetryable
  <2> SUFFICES ASSUME Undisturbed, Quiescent,
                      NEW d \in Docs, documents[d].status = "failed"
               PROVE  \E j \in Jobs : jobs[j].doc = d /\ jobs[j].status = "failed"
    BY DEF FailedIsRetryable
  <2>1. PICK j \in Jobs : jobs[j].doc = d /\ jobs[j].status \in {"failed", "running"}
    BY <1>1 DEF StatusIsExplained
  <2>2. \A h \in Handlers : ~Working(h)
    BY DEF Quiescent, Working
  <2>3. jobs[j].status # "running"
    BY <1>1, <2>2 DEF NoOrphanedJob
  <2>4. QED  BY <2>1, <2>3
<1> QED
  BY <1>1, TypeCorrect, StatusExplained, NoJobOrphaned, PTL

-----------------------------------------------------------------------------
(***************************************************************************)
(* How often a job is started.                                             *)
(***************************************************************************)

\* What can still start j: handlers that have its message and have not started it,
\* its message in the broker, a request that is about to publish it.
Unstarted(j) == {h \in Handlers : handler[h].job = j /\ handler[h].pc \in {"find", "mark"}}
Message(j) == IF j \in queue THEN 1 ELSE 0
Publishing(j) ==
    IF \E r \in Requests : request[r].job = j /\ request[r].pc = "publish" THEN 1 ELSE 0

\* Each start, and each chance of one, is paid for: by the commit of the job or by
\* a fault.
StartsPaid ==
    \A j \in Jobs :
        /\ jobs[j].status = "none" => jobs[j].attempts = 0
        /\ jobs[j].status # "none" =>
             jobs[j].attempts + Cardinality(Unstarted(j)) + Message(j) + Publishing(j)
               <= 1 + drops + crashes

\* How a step moves the chances of a committed job: it takes some away, starts the
\* job, hands its message to a handler, or is a fault that brings the message back.
Fewer(j) ==
    /\ UNCHANGED <<drops, crashes>> \/ drops' + crashes' = drops + crashes + 1
    /\ jobs'[j].attempts = jobs[j].attempts
    /\ Unstarted(j)' \subseteq Unstarted(j)
    /\ Message(j)' + Publishing(j)' <= Message(j) + Publishing(j)

Start(j, h) ==
    /\ UNCHANGED <<drops, crashes>>
    /\ jobs'[j].attempts = jobs[j].attempts + 1
    /\ h \in Unstarted(j) /\ Unstarted(j)' = Unstarted(j) \ {h}
    /\ Message(j)' = Message(j) /\ Publishing(j)' = Publishing(j)

HandOver(j, h) ==
    /\ UNCHANGED <<drops, crashes>>
    /\ jobs'[j].attempts = jobs[j].attempts
    /\ Unstarted(j)' = Unstarted(j) \cup {h}
    /\ Message(j) = 1 /\ Message(j)' = 0 /\ Publishing(j)' = Publishing(j)

Back(j) ==
    /\ drops' + crashes' = drops + crashes + 1
    /\ jobs'[j].attempts = jobs[j].attempts
    /\ Unstarted(j)' \subseteq Unstarted(j)
    /\ Message(j)' <= Message(j) + 1 /\ Publishing(j)' = Publishing(j)

LEMMA ChancesMove ==
  ASSUME TypeOK, Wired, [Next]_vars, NEW j \in Jobs, jobs[j].status # "none"
  PROVE  \/ Fewer(j) \/ Back(j)
         \/ \E h \in Handlers : Start(j, h) \/ HandOver(j, h)
<1>t. /\ jobs \in [Jobs -> JobRecord]
      /\ handler \in [Handlers -> HandlerRecord]
      /\ request \in [Requests -> RequestRecord]
      /\ queue \subseteq Jobs
      /\ drops \in Nat /\ crashes \in Nat
  BY DEF TypeOK
<1> USE DEF Fewer, Back, Start, HandOver
<1>a. /\ UNCHANGED handler => Unstarted(j)' = Unstarted(j)
      /\ UNCHANGED queue => Message(j)' = Message(j)
      /\ UNCHANGED request => Publishing(j)' = Publishing(j)
      /\ UNCHANGED jobs => jobs'[j].attempts = jobs[j].attempts
  BY DEF Unstarted, Message, Publishing
<1>b. Message(j) \in {0, 1} /\ Publishing(j) \in {0, 1}
      /\ Message(j)' \in {0, 1} /\ Publishing(j)' \in {0, 1}
  BY DEF Message, Publishing
\* Requests.
<1>1. ASSUME NEW r \in Requests, RequestStep(r) PROVE Fewer(j)
  <2>1. UNCHANGED <<handler, drops, crashes>>
    BY <1>1 DEF RequestStep, StoreObject, StoreFails, CommitUpload, CommitNewJob,
       PublishJob, PublishFails, MarkPublishFailed, RequestDatabaseError
  <2>2. ASSUME NEW pc, Proceed(r, pc) \/ Return(r), pc = "publish" => request[r].job # j
        PROVE  Publishing(j)' <= Publishing(j)
    BY <1>t, <2>2 DEF Publishing, Proceed, Return, IdleRequest, RequestRecord
  <2>3. CASE CommitUpload(r) \/ CommitNewJob(r)
    <3>1. request[r].job # j
      BY <2>3 DEF CommitUpload, CommitNewJob, Wired, RequestsWired
    <3>2. UNCHANGED queue /\ jobs'[j].attempts = jobs[j].attempts
      BY <1>t, <2>3, <3>1 DEF CommitUpload, CommitNewJob
    <3>3. Publishing(j)' <= Publishing(j)
      BY <2>2, <2>3, <3>1 DEF CommitUpload, CommitNewJob
    <3>4. QED  BY <1>a, <1>b, <2>1, <3>2, <3>3
  <2>4. CASE PublishJob(r) \/ PublishFails(r)
    <3>1. jobs'[j].attempts = jobs[j].attempts
      BY <2>4 DEF PublishJob, PublishFails, postgres
    <3>2. Publishing(j)' <= Publishing(j)
      BY <2>2, <2>4 DEF PublishJob, PublishFails
    <3>3. CASE request[r].job # j
      <4>1. Message(j)' = Message(j)
        BY <2>4, <3>3 DEF PublishJob, PublishFails, Message
      <4>2. QED  BY <1>a, <1>b, <2>1, <3>1, <3>2, <4>1
    <3>4. CASE request[r].job = j
      <4>1. request[r].pc = "publish"
        BY <2>4 DEF PublishJob, PublishFails
      <4>2. Publishing(j) = 1
        BY <3>4, <4>1 DEF Publishing
      <4>3. \A s \in Requests : request[s].job = j => s = r
        BY <1>t, <3>4, <4>1, IngestionAssumption DEF Wired, RequestsWired
      <4>4. /\ request'[r].pc # "publish"
            /\ \A s \in Requests \ {r} : request'[s] = request[s]
        BY <1>t, <2>4 DEF PublishJob, PublishFails, Proceed, Return, IdleRequest, RequestRecord
      <4>5. Publishing(j)' = 0
        BY <4>3, <4>4 DEF Publishing
      <4>6. QED  BY <1>a, <1>b, <2>1, <3>1, <4>2, <4>5
    <3>5. QED  BY <3>3, <3>4
  <2>5. CASE MarkPublishFailed(r)
    <3>1. jobs'[j].attempts = jobs[j].attempts /\ UNCHANGED queue
      BY <1>t, <2>5 DEF MarkPublishFailed, SetJob, JobRecord
    <3>2. Publishing(j)' <= Publishing(j)
      BY <2>2, <2>5 DEF MarkPublishFailed
    <3>3. QED  BY <1>a, <1>b, <2>1, <3>1, <3>2
  <2>6. CASE StoreObject(r) \/ StoreFails(r) \/ RequestDatabaseError(r)
    <3>1. UNCHANGED <<jobs, queue>>
      BY <2>6 DEF StoreObject, StoreFails, RequestDatabaseError, postgres
    <3>2. Publishing(j)' <= Publishing(j)
      BY <2>2, <2>6 DEF StoreObject, StoreFails, RequestDatabaseError
    <3>3. QED  BY <1>a, <1>b, <2>1, <3>1, <3>2
  <2>7. QED  BY <1>1, <2>3, <2>4, <2>5, <2>6 DEF RequestStep
\* Handlers.
<1>2. ASSUME NEW h \in Handlers, MarkRunning(h), handler[h].job = j
      PROVE  Start(j, h)
  <2>1. UNCHANGED <<drops, crashes, queue, request>>
    BY <1>2 DEF MarkRunning
  <2>2. jobs'[j].attempts = jobs[j].attempts + 1
    BY <1>t, <1>2 DEF MarkRunning, JobRecord
  <2>3. /\ handler[h].pc = "mark" /\ handler'[h].pc \in {"load", "settle"}
        /\ \A o \in Handlers \ {h} : handler'[o] = handler[o]
    BY <1>t, <1>2 DEF MarkRunning, AfterCommit, HandlerRecord
  <2>4. h \in Unstarted(j) /\ Unstarted(j)' = Unstarted(j) \ {h}
    BY <1>2, <2>3 DEF Unstarted
  <2>5. QED  BY <1>a, <2>1, <2>2, <2>4
<1>3. ASSUME NEW h \in Handlers, HandlerStep(h), ~(MarkRunning(h) /\ handler[h].job = j)
      PROVE  Fewer(j)
  <2>1. UNCHANGED <<queue, request, drops, crashes>>
    BY <1>3 DEF HandlerStep, FindJob, MarkRunning, ReplaceChunks, WaitForRows,
       RestrictedByCitation, NoChunks, ProcessingFails, UpsertPoints, MarkCompleted, Rollback,
       MarkFailed, HandlerDatabaseError, Settle, OnlyHandler
  <2>2. jobs'[j].attempts = jobs[j].attempts
    <3>1. CASE MarkRunning(h)
      BY <1>t, <1>3, <3>1 DEF MarkRunning
    <3>2. ASSUME NEW k, NEW status, SetJob(k, status)
          PROVE  jobs'[j].attempts = jobs[j].attempts
      BY <1>t, <3>2 DEF SetJob, JobRecord
    <3>3. CASE UNCHANGED jobs
      BY <3>3
    <3>4. QED
      BY <1>3, <3>1, <3>2, <3>3 DEF HandlerStep, FindJob, ReplaceChunks, WaitForRows,
         RestrictedByCitation, NoChunks, ProcessingFails, UpsertPoints, MarkCompleted,
         Rollback, MarkFailed, HandlerDatabaseError, Settle, OnlyHandler, postgres
  <2>3. Unstarted(j)' \subseteq Unstarted(j)
    <3>1. ASSUME NEW pc, pc \in {"find", "mark"} => handler[h].pc \in {"find", "mark"},
                 Goto(h, pc) \/ Abort(h, pc) \/ Free(h)
          PROVE  Unstarted(j)' \subseteq Unstarted(j)
      BY <1>t, <3>1 DEF Goto, Abort, Free, IdleHandler, HandlerRecord, Unstarted
    <3>2. ASSUME MarkRunning(h) \/ ReplaceChunks(h)
          PROVE  Unstarted(j)' \subseteq Unstarted(j)
      <4>1. /\ handler'[h].pc \notin {"find", "mark"}
            /\ \A o \in Handlers \ {h} : handler'[o] = handler[o]
        <5>1. CASE MarkRunning(h)
          BY <1>t, <5>1 DEF MarkRunning, AfterCommit, HandlerRecord
        <5>2. CASE ReplaceChunks(h)
          BY <1>t, <5>2 DEF ReplaceChunks, HandlerRecord
        <5>3. QED  BY <3>2, <5>1, <5>2
      <4>2. QED  BY <4>1 DEF Unstarted
    <3>3. ASSUME MarkCompleted(h) PROVE Unstarted(j)' \subseteq Unstarted(j)
      <4>1. PICK pc \in {"settle", "rollback"} : handler' = [o \in Handlers |->
               IF o = h THEN [handler[h] EXCEPT !.pc = pc, !.tx = FALSE]
               ELSE IF o \in Waiting(h) THEN [handler[o] EXCEPT !.pc = "rollback"]
               ELSE handler[o]]
        BY <3>3 DEF MarkCompleted, AfterCommit
      <4>2. QED  BY <1>t, <4>1 DEF HandlerRecord, Unstarted
    <3>4. QED
      BY <1>3, <3>1, <3>2, <3>3 DEF HandlerStep, FindJob, WaitForRows, RestrictedByCitation,
         NoChunks, ProcessingFails, UpsertPoints, Rollback, MarkFailed, HandlerDatabaseError,
         Settle
  <2>4. QED  BY <1>a, <1>b, <2>1, <2>2, <2>3
<1>4. ASSUME NEW h \in Handlers, NEW k \in Jobs, Deliver(h, k)
      PROVE  Fewer(j) \/ HandOver(j, h)
  <2>1. UNCHANGED <<jobs, request, drops, crashes>>
    BY <1>4 DEF Deliver, postgres
  <2>2. /\ handler[h].pc = "idle"
        /\ handler'[h].pc = "find" /\ handler'[h].job = k
        /\ \A o \in Handlers \ {h} : handler'[o] = handler[o]
        /\ k \in queue /\ queue' = queue \ {k}
    BY <1>t, <1>4 DEF Deliver, HandlerRecord
  <2>3. CASE k = j
    BY <1>a, <2>1, <2>2, <2>3 DEF Unstarted, Message
  <2>4. CASE k # j
    <3>1. Unstarted(j)' = Unstarted(j)
      BY <2>2, <2>4 DEF Unstarted
    <3>2. Message(j)' = Message(j)
      BY <2>2, <2>4 DEF Message
    <3>3. QED  BY <1>a, <1>b, <2>1, <3>1, <3>2
  <2>5. QED  BY <2>3, <2>4
\* Users and faults.
<1>5. ASSUME UserStep PROVE Fewer(j)
  <2>1. UNCHANGED <<jobs, queue, handler, drops, crashes>>
    BY <1>5 DEF UserStep, BeginUpload, RetryJob, ReindexDocument, Requeue, DeleteDocument,
       LoadEvidence, postgres
  <2>2. ASSUME NEW r \in Requests, request'[r].pc # "publish",
               \A s \in Requests \ {r} : request'[s] = request[s]
        PROVE  Publishing(j)' <= Publishing(j)
    BY <2>2 DEF Publishing
  <2>3. ASSUME NEW r \in Requests, NEW t \in Tenants, NEW c \in Contents, BeginUpload(r, t, c)
        PROVE  Publishing(j)' <= Publishing(j)
    BY <1>t, <2>2, <2>3 DEF BeginUpload
  <2>4. ASSUME NEW r \in Requests, NEW t \in Tenants, NEW d \in Docs, Requeue(r, t, d)
        PROVE  Publishing(j)' <= Publishing(j)
    BY <1>t, <2>2, <2>4 DEF Requeue
  <2>5. Publishing(j)' <= Publishing(j)
    <3>1. CASE UNCHANGED request
      BY <1>a, <1>b, <3>1
    <3>2. QED
      BY <1>5, <2>3, <2>4, <3>1 DEF UserStep, RetryJob, ReindexDocument, DeleteDocument,
         LoadEvidence
  <2>6. QED  BY <1>a, <1>b, <2>1, <2>5
<1>6. ASSUME NEW r \in Requests, RequestCrash(r) PROVE Fewer(j)
  <2>1. /\ UNCHANGED <<jobs, queue, handler, drops>> /\ crashes' = crashes + 1
        /\ request'[r].pc # "publish"
        /\ \A s \in Requests \ {r} : request'[s] = request[s]
    BY <1>t, <1>6 DEF RequestCrash, Return, IdleRequest, postgres
  <2>2. Publishing(j)' <= Publishing(j)
    BY <2>1 DEF Publishing
  <2>3. QED  BY <1>a, <1>b, <1>t, <2>1, <2>2
<1>7. ASSUME NEW h \in Handlers, HandlerCrash(h) PROVE Back(j)
  <2>1. UNCHANGED <<jobs, request, drops>> /\ crashes' = crashes + 1
    BY <1>7 DEF HandlerCrash, postgres
  <2>2. Unstarted(j)' \subseteq Unstarted(j)
    BY <1>t, <1>7 DEF HandlerCrash, Free, IdleHandler, Unstarted
  <2>3. QED  BY <1>a, <1>b, <1>t, <2>1, <2>2
<1>8. ASSUME NEW h \in Handlers, ConnectionLost(h) PROVE Back(j)
  <2>1. UNCHANGED <<jobs, request, crashes>> /\ drops' = drops + 1
    BY <1>8 DEF ConnectionLost, postgres
  <2>2. Unstarted(j)' \subseteq Unstarted(j)
    BY <1>t, <1>8 DEF ConnectionLost, HandlerRecord, Unstarted
  <2>3. QED  BY <1>a, <1>b, <1>t, <2>1, <2>2
<1>9. ASSUME NEW a \in Answers, Cite(a) PROVE UNCHANGED <<jobs, queue, request, handler, drops, crashes>>
  BY <1>9 DEF Cite
<1>10. ASSUME UNCHANGED <<jobs, queue, request, handler, drops, crashes>> PROVE Fewer(j)
  BY <1>10, <1>a, <1>b
<1> HIDE DEF Fewer, Back, Start, HandOver
<1> QED
  BY <1>1, <1>2, <1>3, <1>4, <1>5, <1>6, <1>7, <1>8, <1>9, <1>10
  DEF Next, FaultStep, Rest, vars

\* A job that is being committed has no chance but the one its request gets.
LEMMA ChancesOfNewJob ==
  ASSUME TypeOK, Wired, [Next]_vars, NEW j \in Jobs, jobs[j].status = "none"
  PROVE  /\ jobs'[j].status = "none" => jobs'[j].attempts = jobs[j].attempts
         /\ jobs'[j].status # "none" =>
              /\ jobs'[j].attempts = 0
              /\ Unstarted(j)' = {}
              /\ Message(j)' = 0
<1>t. /\ jobs \in [Jobs -> JobRecord]
      /\ handler \in [Handlers -> HandlerRecord]
      /\ queue \subseteq Jobs
  BY DEF TypeOK
<1>1. ASSUME NEW h \in Handlers, handler[h].pc # "idle" PROVE handler[h].job # j
  BY <1>1 DEF Wired, HandlersWired
<1>2. j \notin queue
  BY DEF Wired, JobsWired
<1>3. ASSUME NEW r \in Requests, request[r].pc = "publish_failed" PROVE request[r].job # j
  BY <1>3 DEF Wired, RequestsWired
<1>4. \/ jobs'[j] = jobs[j]
      \/ \E r \in Requests : CommitUpload(r) \/ CommitNewJob(r)
  BY <1>t, <1>1, <1>3, OtherStepsLeaveJobs DEF MarkRunning, MarkCompleted, MarkFailed,
     MarkPublishFailed, SetJob
<1>5. ASSUME NEW r \in Requests, CommitUpload(r) \/ CommitNewJob(r), jobs'[j] # jobs[j]
      PROVE  jobs'[j].status = "queued" /\ jobs'[j].attempts = 0 /\ UNCHANGED <<handler, queue>>
  BY <1>t, <1>5 DEF CommitUpload, CommitNewJob, NewJob
<1>6. Unstarted(j) = {}
  BY <1>1 DEF Unstarted
<1>7. CASE jobs'[j] = jobs[j]
  BY <1>7
<1>8. ASSUME UNCHANGED <<handler, queue>> PROVE Unstarted(j)' = {} /\ Message(j)' = 0
  BY <1>2, <1>6, <1>8 DEF Unstarted, Message
<1> QED
  BY <1>4, <1>5, <1>7, <1>8

LEMMA StartsPaidStep ==
  ASSUME IsFiniteSet(Handlers), TypeOK, Wired, StartsPaid, [Next]_vars
  PROVE  StartsPaid'
<1> SUFFICES ASSUME NEW j \in Jobs
             PROVE  /\ jobs'[j].status = "none" => jobs'[j].attempts = 0
                    /\ jobs'[j].status # "none" =>
                         jobs'[j].attempts + Cardinality(Unstarted(j)') + Message(j)'
                           + Publishing(j)' <= 1 + drops' + crashes'
  BY DEF StartsPaid
<1>t. /\ jobs[j].attempts \in Nat /\ drops \in Nat /\ crashes \in Nat
      /\ jobs'[j].attempts \in Nat /\ drops' \in Nat /\ crashes' \in Nat
  BY TypeStep DEF TypeOK, JobRecord
<1>b. Message(j) \in {0, 1} /\ Publishing(j) \in {0, 1}
      /\ Message(j)' \in {0, 1} /\ Publishing(j)' \in {0, 1}
  BY DEF Message, Publishing
<1>f. /\ IsFiniteSet(Unstarted(j)) /\ Cardinality(Unstarted(j)) \in Nat
      /\ IsFiniteSet(Unstarted(j)') /\ Cardinality(Unstarted(j)') \in Nat
  <2>1. Unstarted(j) \subseteq Handlers /\ Unstarted(j)' \subseteq Handlers
    BY DEF Unstarted
  <2>2. QED  BY <2>1, FS_Subset, FS_CardinalityType
<1>1. CASE jobs[j].status = "none"
  <2>1. jobs'[j].status = "none" => jobs'[j].attempts = 0
    BY <1>1, ChancesOfNewJob DEF StartsPaid
  <2>2. ASSUME jobs'[j].status # "none"
        PROVE  jobs'[j].attempts = 0 /\ Cardinality(Unstarted(j)') = 0 /\ Message(j)' = 0
    BY <1>1, <2>2, ChancesOfNewJob, FS_EmptySet
  <2>3. QED  BY <1>t, <1>b, <2>1, <2>2
<1>2. CASE jobs[j].status # "none"
  <2>1. jobs'[j].status # "none"
    BY <1>2, JobsKept
  <2> DEFINE n == Cardinality(Unstarted(j))
             m == Cardinality(Unstarted(j)')
  <2>3. Unstarted(j)' \subseteq Unstarted(j) => m <= n
    BY <1>f, FS_Subset
  <2>4. ASSUME NEW h \in Unstarted(j), Unstarted(j)' = Unstarted(j) \ {h} PROVE m = n - 1
    BY <1>f, <2>4, FS_RemoveElement
  <2>5. ASSUME NEW h, Unstarted(j)' = Unstarted(j) \cup {h} PROVE m <= n + 1
    BY <1>f, <2>5, FS_AddElement
  <2> DEFINE a == jobs[j].attempts
             b == jobs'[j].attempts
             q == Message(j)
             s == Message(j)'
             p == Publishing(j)
             o == Publishing(j)'
             f == drops + crashes
             g == drops' + crashes'
  <2>6. /\ a \in Nat /\ n \in Nat /\ q \in Nat /\ p \in Nat /\ f \in Nat
        /\ b \in Nat /\ m \in Nat /\ s \in Nat /\ o \in Nat /\ g \in Nat
    <3>1. a \in Nat /\ b \in Nat /\ n \in Nat /\ m \in Nat
      BY <1>t, <1>f
    <3>2. q \in Nat /\ s \in Nat /\ p \in Nat /\ o \in Nat
      BY <1>b
    <3>3. f \in Nat /\ g \in Nat
      <4>1. \A c, d \in Nat : c + d \in Nat
        OBVIOUS
      <4>2. QED  BY <1>t, <4>1
    <3>4. QED  BY <3>1, <3>2, <3>3
  <2>2. a + n + q + p <= 1 + f
    BY <1>t, <1>2 DEF StartsPaid
  <2>7. ASSUME Fewer(j) PROVE b + m + s + o <= 1 + g
    <3>1. m <= n /\ b = a /\ s + o <= q + p
      BY <2>3, <2>7 DEF Fewer
    <3>2. g = f \/ g = f + 1
      BY <2>7 DEF Fewer
    <3> HIDE DEF a, b, n, m, q, s, p, o, f, g
    <3>3. QED  BY <2>2, <2>6, <3>1, <3>2
  <2>8. ASSUME Back(j) PROVE b + m + s + o <= 1 + g
    <3>1. m <= n /\ b = a /\ s <= q + 1 /\ o = p /\ g = f + 1
      BY <2>3, <2>8 DEF Back
    <3> HIDE DEF a, b, n, m, q, s, p, o, f, g
    <3>2. QED  BY <2>2, <2>6, <3>1
  <2>9. ASSUME NEW h \in Handlers, Start(j, h) PROVE b + m + s + o <= 1 + g
    <3>1. m = n - 1
      BY <2>4, <2>9 DEF Start
    <3>2. b = a + 1 /\ s = q /\ o = p /\ g = f
      BY <2>9 DEF Start
    <3> HIDE DEF a, b, n, m, q, s, p, o, f, g
    <3>3. QED  BY <2>2, <2>6, <3>1, <3>2
  <2>10. ASSUME NEW h \in Handlers, HandOver(j, h) PROVE b + m + s + o <= 1 + g
    <3>1. m <= n + 1
      BY <2>5, <2>10 DEF HandOver
    <3>2. b = a /\ q = 1 /\ s = 0 /\ o = p /\ g = f
      BY <2>10 DEF HandOver
    <3> HIDE DEF a, b, n, m, q, s, p, o, f, g
    <3>3. QED  BY <2>2, <2>6, <3>1, <3>2
  <2>11. b + m + s + o <= 1 + g
    BY <1>2, <2>7, <2>8, <2>9, <2>10, ChancesMove
  <2>12. 1 + g = 1 + drops' + crashes'
    BY <1>t
  <2>13. QED  BY <2>1, <2>11, <2>12
<1> QED  BY <1>1, <1>2

\* A job's attempts are its delivery and one more for each crash and each connection
\* lost: nothing a worker does by itself starts a job again.
THEOREM StartedOnce == IsFiniteSet(Handlers) => (Spec => []StartedOncePerDelivery)
<1> SUFFICES ASSUME IsFiniteSet(Handlers) PROVE Spec => []StartedOncePerDelivery
  OBVIOUS
<1>1. Init => StartsPaid
  <2> SUFFICES ASSUME Init, NEW j \in Jobs
               PROVE  jobs[j].status = "none" /\ jobs[j].attempts = 0
    BY DEF StartsPaid
  <2>1. QED  BY DEF Init, NoJob
<1>2. TypeOK /\ Wired /\ StartsPaid /\ [Next]_vars => StartsPaid'
  BY StartsPaidStep
<1>3. ASSUME TypeOK, StartsPaid PROVE StartedOncePerDelivery
  <2> SUFFICES ASSUME NEW j \in Jobs PROVE jobs[j].attempts <= 1 + drops + crashes
    BY DEF StartedOncePerDelivery
  <2>1. /\ jobs[j].attempts \in Nat /\ drops \in Nat /\ crashes \in Nat
        /\ Message(j) \in {0, 1} /\ Publishing(j) \in {0, 1}
    BY <1>3 DEF TypeOK, JobRecord, Message, Publishing
  <2>2. Cardinality(Unstarted(j)) \in Nat
    <3>1. Unstarted(j) \subseteq Handlers
      BY DEF Unstarted
    <3>2. QED  BY <3>1, FS_Subset, FS_CardinalityType
  <2>3. QED  BY <1>3, <2>1, <2>2 DEF StartsPaid
<1> QED
  BY <1>1, <1>2, <1>3, Typed, PTL DEF Spec

=============================================================================
