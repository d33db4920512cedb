-------------------------- MODULE IngestionProofs --------------------------
(***************************************************************************)
(* Theorems about Ingestion, for any number of tenants, documents, jobs,   *)
(* requests, handlers and answers, and any choice of unreliable            *)
(* dependencies.                                                           *)
(***************************************************************************)
EXTENDS Ingestion, TLAPS

-----------------------------------------------------------------------------
(***************************************************************************)
(* How the variables refer to one another.                                 *)
(***************************************************************************)

\* A handler at work has a committed job; one that is idle holds nothing; only
\* between replace_chunks and the end of the transaction is one open.
HandlersWired ==
    \A h \in Handlers :
        /\ handler[h].pc # "idle" =>
             /\ handler[h].job \in Jobs
             /\ jobs[handler[h].job].status # "none"
        /\ handler[h].pc = "idle" => ~handler[h].held
        /\ handler[h].tx => handler[h].pc \in {"upsert", "complete", "rollback"}

\* A request at work has chosen its identities; its job is committed exactly
\* when it is about to be published; no two requests chose the same job.
RequestsWired ==
    \A r \in Requests :
        /\ request[r].pc # "idle" =>
             /\ request[r].tenant \in Tenants
             /\ request[r].doc \in Docs
             /\ request[r].job \in Jobs
        /\ request[r].pc = "idle" => request[r].job = None /\ request[r].doc = None
        /\ request[r].pc \in {"store", "insert"} => request[r].content \in Contents
        /\ request[r].pc \in {"store", "insert", "requeue"} =>
             jobs[request[r].job].status = "none"
        /\ request[r].pc \in {"publish", "publish_failed"} =>
             /\ jobs[request[r].job].status # "none"
             /\ jobs[request[r].job].doc = request[r].doc
        /\ \A s \in Requests : request[s].job = request[r].job => s = r \/ request[r].job = None

\* A committed job has its document; only committed jobs have messages.
JobsWired ==
    /\ \A j \in Jobs : jobs[j].status # "none" => jobs[j].doc \in Docs /\ jobs[j].tenant \in Tenants
    /\ \A j \in queue : jobs[j].status # "none"

Wired == HandlersWired /\ RequestsWired /\ JobsWired

-----------------------------------------------------------------------------
(***************************************************************************)
(* Types and references are preserved.                                     *)
(***************************************************************************)

LEMMA InitTyped == Init => TypeOK /\ Wired
  BY DEF Init, NoDocument, NoJob, IdleRequest, IdleHandler, TypeOK, Wired,
         HandlersWired, RequestsWired, JobsWired, Generations, DocumentRecord,
         JobRecord, RequestRecord, HandlerRecord, DocumentStatus, JobStatus,
         RequestPc, HandlerPc

LEMMA Statuses ==
    /\ {"none", "queued", "indexed", "failed", "deleted"} \subseteq DocumentStatus
    /\ {"none", "queued", "running", "completed", "failed"} \subseteq JobStatus
    /\ {"idle", "store", "insert", "requeue", "publish", "publish_failed"} \subseteq RequestPc
    /\ {"idle", "find", "mark", "load", "blocked", "upsert", "complete", "rollback",
        "mark_failed", "settle"} \subseteq HandlerPc
  BY DEF DocumentStatus, JobStatus, RequestPc, HandlerPc

LEMMA SetJobTyped ==
  ASSUME TypeOK, NEW j, NEW status \in JobStatus, SetJob(j, status)
  PROVE  jobs' \in [Jobs -> JobRecord]
  BY DEF TypeOK, SetJob, JobRecord

LEMMA SetDocumentTyped ==
  ASSUME TypeOK, NEW d, NEW status \in DocumentStatus, SetDocument(d, status)
  PROVE  documents' \in [Docs -> DocumentRecord]
  BY DEF TypeOK, SetDocument, DocumentRecord

LEMMA ProceedTyped ==
  ASSUME TypeOK, NEW r, NEW pc \in RequestPc, Proceed(r, pc)
  PROVE  request' \in [Requests -> RequestRecord]
  BY DEF TypeOK, Proceed, RequestRecord

LEMMA ReturnTyped ==
  ASSUME TypeOK, NEW r, Return(r)
  PROVE  request' \in [Requests -> RequestRecord]
  BY Statuses DEF TypeOK, Return, RequestRecord, IdleRequest

LEMMA GotoTyped ==
  ASSUME TypeOK, NEW h, NEW pc \in HandlerPc, Goto(h, pc)
  PROVE  handler' \in [Handlers -> HandlerRecord]
  BY DEF TypeOK, Goto, HandlerRecord

LEMMA AbortTyped ==
  ASSUME TypeOK, NEW h, NEW pc \in HandlerPc, Abort(h, pc)
  PROVE  handler' \in [Handlers -> HandlerRecord]
  BY DEF TypeOK, Abort, HandlerRecord

LEMMA FreeTyped ==
  ASSUME TypeOK, NEW h, Free(h)
  PROVE  handler' \in [Handlers -> HandlerRecord]
  BY Statuses DEF TypeOK, Free, HandlerRecord, IdleHandler

LEMMA TypeStep == TypeOK /\ Wired /\ [Next]_vars => TypeOK'
<1> SUFFICES ASSUME TypeOK, Wired, [Next]_vars PROVE TypeOK'
  OBVIOUS
<1>h. \A h \in Handlers : handler[h].pc # "idle" \/ handler[h].held => handler[h].job \in Jobs
  BY DEF Wired, HandlersWired
<1>r. \A r \in Requests :
        /\ request[r].pc # "idle" =>
             request[r].tenant \in Tenants /\ request[r].doc \in Docs /\ request[r].job \in Jobs
        /\ request[r].pc \in {"store", "insert"} => request[r].content \in Contents
  BY DEF Wired, RequestsWired
<1>1. ASSUME NEW r \in Requests, StoreObject(r) PROVE TypeOK'
  BY <1>1, ProceedTyped, Statuses, <1>r DEF TypeOK, StoreObject, postgres
<1>2. ASSUME NEW r \in Requests, StoreFails(r) PROVE TypeOK'
  BY <1>2, ReturnTyped, Statuses, <1>r DEF TypeOK, StoreFails, postgres
<1>3. ASSUME NEW r \in Requests, CommitUpload(r) PROVE TypeOK'
  <2>1. jobs' \in [Jobs -> JobRecord]
    BY <1>3, Statuses, <1>r DEF TypeOK, CommitUpload, NewJob, JobRecord
  <2>2. documents' \in [Docs -> DocumentRecord]
    BY <1>3, Statuses, <1>r DEF TypeOK, CommitUpload, DocumentRecord
  <2>3. request' \in [Requests -> RequestRecord]
    BY <1>3, Statuses, ProceedTyped, ReturnTyped DEF TypeOK, CommitUpload
  <2> QED
    BY <2>1, <2>2, <2>3, <1>3, <1>h DEF TypeOK, CommitUpload, OnlyHandler, postgres
<1>4. ASSUME NEW r \in Requests, CommitNewJob(r) PROVE TypeOK'
  <2>1. jobs' \in [Jobs -> JobRecord]
    BY <1>4, Statuses, <1>r DEF TypeOK, CommitNewJob, NewJob, JobRecord
  <2>2. documents' \in [Docs -> DocumentRecord]
    BY <1>4, Statuses, SetDocumentTyped DEF TypeOK, CommitNewJob
  <2>3. request' \in [Requests -> RequestRecord]
    BY <1>4, Statuses, ProceedTyped, ReturnTyped DEF TypeOK, CommitNewJob
  <2> QED
    BY <2>1, <2>2, <2>3, <1>4, <1>h DEF TypeOK, CommitNewJob, OnlyHandler, postgres
<1>5. ASSUME NEW r \in Requests, PublishJob(r) PROVE TypeOK'
  BY <1>5, ReturnTyped, Statuses, <1>r DEF TypeOK, PublishJob, postgres
<1>6. ASSUME NEW r \in Requests, PublishFails(r) PROVE TypeOK'
  BY <1>6, ProceedTyped, Statuses, <1>r DEF TypeOK, PublishFails, postgres
<1>7. ASSUME NEW r \in Requests, MarkPublishFailed(r) PROVE TypeOK'
  BY <1>7, SetJobTyped, SetDocumentTyped, ReturnTyped, Statuses DEF TypeOK, MarkPublishFailed, postgres
<1>8. ASSUME NEW r \in Requests, RequestDatabaseError(r) PROVE TypeOK'
  BY <1>8, ReturnTyped, Statuses DEF TypeOK, RequestDatabaseError, postgres
<1>9. ASSUME NEW h \in Handlers, FindJob(h) PROVE TypeOK'
  BY <1>9, GotoTyped, Statuses DEF TypeOK, FindJob, OnlyHandler, postgres
<1>10. ASSUME NEW h \in Handlers, MarkRunning(h) PROVE TypeOK'
  <2>1. jobs' \in [Jobs -> JobRecord]
    <3> DEFINE j == handler[h].job
    <3>1. jobs' = [jobs EXCEPT ![j].status = "running", ![j].attempts = @ + 1]
      BY <1>10 DEF MarkRunning
    <3>2. jobs \in [Jobs -> JobRecord]
      BY DEF TypeOK
    <3>3. j \in Jobs
      BY <1>10, <1>h DEF MarkRunning
    <3> HIDE DEF j
    <3>4. jobs[j].attempts + 1 \in Nat
      BY <3>2, <3>3 DEF JobRecord
    <3>5. QED
      BY <3>1, <3>2, <3>3, <3>4, Statuses DEF JobRecord
  <2>2. handler' \in [Handlers -> HandlerRecord]
    BY <1>10, Statuses, <1>h DEF TypeOK, MarkRunning, AfterCommit, HandlerRecord, JobRecord
  <2> QED
    BY <2>1, <2>2, <1>10, <1>h DEF TypeOK, MarkRunning, OnlyHandler, postgres
<1>11. ASSUME NEW h \in Handlers, ReplaceChunks(h) PROVE TypeOK'
  <2>1. handler' \in [Handlers -> HandlerRecord]
    BY <1>11, Statuses DEF TypeOK, ReplaceChunks, HandlerRecord
  <2> QED
    BY <2>1, <1>11, <1>h DEF TypeOK, ReplaceChunks, OnlyHandler, postgres
<1>12. ASSUME NEW h \in Handlers, WaitForRows(h) PROVE TypeOK'
  BY <1>12, GotoTyped, Statuses DEF TypeOK, WaitForRows, OnlyHandler, postgres
<1>13. ASSUME NEW h \in Handlers, RestrictedByCitation(h) PROVE TypeOK'
  BY <1>13, GotoTyped, Statuses DEF TypeOK, RestrictedByCitation, OnlyHandler, postgres
<1>14. ASSUME NEW h \in Handlers, NoChunks(h) PROVE TypeOK'
  BY <1>14, GotoTyped, Statuses DEF TypeOK, NoChunks, OnlyHandler, postgres
<1>15. ASSUME NEW h \in Handlers, ProcessingFails(h) PROVE TypeOK'
  BY <1>15, GotoTyped, Statuses DEF TypeOK, ProcessingFails, OnlyHandler, postgres
<1>16. ASSUME NEW h \in Handlers, UpsertPoints(h) PROVE TypeOK'
  <2>1. handler' \in [Handlers -> HandlerRecord]
    BY <1>16, Statuses, GotoTyped DEF TypeOK, UpsertPoints
  <2>2. Generation(h) \in Generations
    BY <1>16, Statuses, <1>h DEF TypeOK, UpsertPoints, Generation, Generations, HandlerRecord
  <2> QED
    BY <2>1, <2>2, <1>16, <1>h DEF TypeOK, UpsertPoints, OnlyHandler, postgres
<1>17. ASSUME NEW h \in Handlers, MarkCompleted(h) PROVE TypeOK'
  <2>1. jobs' \in [Jobs -> JobRecord]
    BY <1>17, Statuses, SetJobTyped DEF TypeOK, MarkCompleted
  <2>2. documents' \in [Docs -> DocumentRecord]
    BY <1>17, Statuses, SetDocumentTyped DEF TypeOK, MarkCompleted
  <2>3. handler' \in [Handlers -> HandlerRecord]
    <3>1. PICK pc \in {"settle", "rollback"} : handler' = [o \in Handlers |->
             IF o = h THEN [handler[h] EXCEPT !.pc = pc, !.tx = FALSE]
             ELSE IF o \in Waiting(h) THEN [handler[o] EXCEPT !.pc = "rollback"]
             ELSE handler[o]]
      BY <1>17 DEF MarkCompleted, AfterCommit
    <3>2. handler \in [Handlers -> HandlerRecord]
      BY DEF TypeOK
    <3>3. \A o \in Handlers : handler'[o] \in HandlerRecord
      BY <3>1, <3>2, Statuses DEF HandlerRecord
    <3>4. QED
      BY <3>1, <3>3
  <2>4. Generation(h) \in Generations
    BY <1>17, Statuses, <1>h DEF TypeOK, MarkCompleted, Generation, Generations, HandlerRecord
  <2> QED
    BY <2>1, <2>2, <2>3, <2>4, <1>17, <1>h DEF TypeOK, MarkCompleted, OnlyHandler, postgres
<1>18. ASSUME NEW h \in Handlers, Rollback(h) PROVE TypeOK'
  BY <1>18, AbortTyped, Statuses DEF TypeOK, Rollback, OnlyHandler, postgres
<1>19. ASSUME NEW h \in Handlers, MarkFailed(h) PROVE TypeOK'
  BY <1>19, SetJobTyped, SetDocumentTyped, GotoTyped, Statuses DEF TypeOK, MarkFailed, postgres
<1>20. ASSUME NEW h \in Handlers, HandlerDatabaseError(h) PROVE TypeOK'
  BY <1>20, AbortTyped, Statuses DEF TypeOK, HandlerDatabaseError, OnlyHandler, postgres
<1>21. ASSUME NEW h \in Handlers, Settle(h) PROVE TypeOK'
  BY <1>21, FreeTyped, Statuses DEF TypeOK, Settle, OnlyHandler, postgres
<1>22. ASSUME NEW h \in Handlers, NEW j \in Jobs, Deliver(h, j) PROVE TypeOK'
  <2>1. handler' \in [Handlers -> HandlerRecord]
    BY <1>22, Statuses DEF TypeOK, Deliver, HandlerRecord
  <2> QED
    BY <2>1, <1>22, <1>h DEF TypeOK, Deliver, OnlyHandler, postgres
<1>23. ASSUME NEW a \in Answers, Cite(a) PROVE TypeOK'
  BY <1>23 DEF TypeOK, Cite, postgres
<1>24. ASSUME NEW r \in Requests, NEW t \in Tenants, NEW c \in Contents,
               BeginUpload(r, t, c)
      PROVE  TypeOK'
  <2>1. request' \in [Requests -> RequestRecord]
    BY <1>24, Statuses DEF TypeOK, BeginUpload, RequestRecord
  <2> QED
    BY <2>1, <1>24, <1>h DEF TypeOK, BeginUpload, OnlyHandler, postgres
<1>25. ASSUME NEW r \in Requests, NEW t \in Tenants, NEW d \in Docs, Requeue(r, t, d)
      PROVE  TypeOK'
  <2>1. request' \in [Requests -> RequestRecord]
    BY <1>25, Statuses DEF TypeOK, Requeue, RequestRecord
  <2> QED
    BY <2>1, <1>25, <1>h DEF TypeOK, Requeue, OnlyHandler, postgres
<1>26. ASSUME NEW t \in Tenants, NEW d \in Docs, DeleteDocument(t, d)
      PROVE  TypeOK'
  <2>1. documents' \in [Docs -> DocumentRecord]
    BY <1>26, Statuses DEF TypeOK, DeleteDocument, DocumentRecord
  <2> QED
    BY <2>1, <1>26, <1>h DEF TypeOK, DeleteDocument, OnlyHandler, postgres
<1>27. ASSUME NEW a \in Answers, NEW d \in Docs, LoadEvidence(a, d)
      PROVE  TypeOK'
  BY <1>27 DEF TypeOK, LoadEvidence, postgres
<1>28. ASSUME NEW r \in Requests, RequestCrash(r) PROVE TypeOK'
  BY <1>28, ReturnTyped, Statuses DEF TypeOK, RequestCrash, postgres
<1>29. ASSUME NEW h \in Handlers, HandlerCrash(h) PROVE TypeOK'
  BY <1>29, FreeTyped, Statuses, <1>h DEF TypeOK, HandlerCrash, postgres
<1>30. ASSUME NEW h \in Handlers, ConnectionLost(h) PROVE TypeOK'
  <2>1. handler' \in [Handlers -> HandlerRecord]
    BY <1>30, Statuses DEF TypeOK, ConnectionLost, HandlerRecord
  <2> QED
    BY <2>1, <1>30, <1>h DEF TypeOK, ConnectionLost, OnlyHandler, postgres
<1>31. ASSUME UNCHANGED vars PROVE TypeOK'
  BY <1>31 DEF TypeOK, vars, postgres
<1> QED
  BY <1>1, <1>2, <1>3, <1>4, <1>5, <1>6, <1>7, <1>8, <1>9, <1>10, <1>11, <1>12, <1>13, <1>14, <1>15, <1>16, <1>17, <1>18, <1>19, <1>20, <1>21, <1>22, <1>23, <1>24, <1>25, <1>26, <1>27, <1>28, <1>29, <1>30, <1>31
  DEF Next, RequestStep, HandlerStep, UserStep, FaultStep, Rest, RetryJob,
      ReindexDocument

\* Only these steps write the table of jobs.
LEMMA OtherStepsLeaveJobs ==
  ASSUME [Next]_vars
  PROVE  \/ UNCHANGED jobs
         \/ \E r \in Requests : CommitUpload(r) \/ CommitNewJob(r) \/ MarkPublishFailed(r)
         \/ \E h \in Handlers : MarkRunning(h) \/ MarkCompleted(h) \/ MarkFailed(h)
<1>1. ASSUME NEW r \in Requests, RequestStep(r)
      PROVE  UNCHANGED jobs \/ CommitUpload(r) \/ CommitNewJob(r) \/ MarkPublishFailed(r)
  BY <1>1 DEF RequestStep, StoreObject, StoreFails, PublishJob, PublishFails,
              RequestDatabaseError, postgres
<1>2. ASSUME NEW h \in Handlers, HandlerStep(h)
      PROVE  UNCHANGED jobs \/ MarkRunning(h) \/ MarkCompleted(h) \/ MarkFailed(h)
  BY <1>2 DEF HandlerStep, FindJob, ReplaceChunks, WaitForRows, RestrictedByCitation,
              NoChunks, ProcessingFails, UpsertPoints, Rollback, HandlerDatabaseError,
              Settle, OnlyHandler, postgres
<1>3. ASSUME NEW h \in Handlers, NEW j \in Jobs, Deliver(h, j) PROVE UNCHANGED jobs
  BY <1>3 DEF Deliver, postgres
<1>4. ASSUME NEW a \in Answers, Cite(a) PROVE UNCHANGED jobs
  BY <1>4 DEF Cite
<1>5. ASSUME UserStep PROVE UNCHANGED jobs
  BY <1>5 DEF UserStep, BeginUpload, RetryJob, ReindexDocument, Requeue, DeleteDocument,
              LoadEvidence, postgres
<1>6. ASSUME FaultStep PROVE UNCHANGED jobs
  BY <1>6 DEF FaultStep, RequestCrash, HandlerCrash, ConnectionLost, postgres
<1> QED
  BY <1>1, <1>2, <1>3, <1>4, <1>5, <1>6 DEF Next, Rest, vars

\* A job never loses its row, its document or its tenant; no step but the commit
\* of an upload, a retry or a re-index creates one.
LEMMA JobsKept ==
  ASSUME TypeOK, Wired, [Next]_vars
  PROVE  \A j \in Jobs :
           jobs[j].status # "none" =>
             /\ jobs'[j].status # "none"
             /\ jobs'[j].doc = jobs[j].doc
             /\ jobs'[j].tenant = jobs[j].tenant
<1> USE DEF SetJob
<1> DEFINE Kept == \A j \in Jobs :
           jobs[j].status # "none" =>
             /\ jobs'[j].status # "none"
             /\ jobs'[j].doc = jobs[j].doc
             /\ jobs'[j].tenant = jobs[j].tenant
<1>0. jobs \in [Jobs -> JobRecord]
  BY DEF TypeOK
<1>1. ASSUME NEW r \in Requests, CommitUpload(r) PROVE Kept
  BY <1>0, <1>1 DEF CommitUpload, NewJob, Wired, RequestsWired, JobRecord
<1>2. ASSUME NEW r \in Requests, CommitNewJob(r) PROVE Kept
  BY <1>0, <1>2 DEF CommitNewJob, NewJob, Wired, RequestsWired, JobRecord
<1>3. ASSUME NEW r \in Requests, MarkPublishFailed(r) PROVE Kept
  BY <1>0, <1>3 DEF MarkPublishFailed, JobRecord
<1>4. ASSUME NEW h \in Handlers, MarkRunning(h) PROVE Kept
  BY <1>0, <1>4 DEF MarkRunning, JobRecord
<1>5. ASSUME NEW h \in Handlers, MarkCompleted(h) PROVE Kept
  BY <1>0, <1>5 DEF MarkCompleted, JobRecord
<1>6. ASSUME NEW h \in Handlers, MarkFailed(h) PROVE Kept
  BY <1>0, <1>6 DEF MarkFailed, JobRecord
<1>7. CASE UNCHANGED jobs
  BY <1>7
<1> QED
  BY <1>1, <1>2, <1>3, <1>4, <1>5, <1>6, <1>7, OtherStepsLeaveJobs DEF Kept


LEMMA HandlersWiredStep ==
  ASSUME TypeOK, Wired, [Next]_vars
  PROVE  HandlersWired'
<1>k. \A j \in Jobs : jobs[j].status # "none" => jobs'[j].status # "none"
  BY JobsKept
<1>t. handler \in [Handlers -> HandlerRecord]
  BY DEF TypeOK
<1> USE DEF Wired, HandlersWired, HandlerRecord
<1>0. CASE UNCHANGED handler
  BY <1>0, <1>k
<1>1. ASSUME NEW h \in Handlers, FindJob(h) PROVE HandlersWired'
  BY <1>1, <1>k, <1>t DEF FindJob, Goto
<1>2. ASSUME NEW h \in Handlers, ReplaceChunks(h) PROVE HandlersWired'
  BY <1>2, <1>k, <1>t DEF ReplaceChunks
<1>3. ASSUME NEW h \in Handlers, WaitForRows(h) PROVE HandlersWired'
  BY <1>3, <1>k, <1>t DEF WaitForRows, Goto
<1>4. ASSUME NEW h \in Handlers, RestrictedByCitation(h) PROVE HandlersWired'
  BY <1>4, <1>k, <1>t DEF RestrictedByCitation, Goto
<1>5. ASSUME NEW h \in Handlers, NoChunks(h) PROVE HandlersWired'
  BY <1>5, <1>k, <1>t DEF NoChunks, Goto
<1>6. ASSUME NEW h \in Handlers, ProcessingFails(h) PROVE HandlersWired'
  BY <1>6, <1>k, <1>t DEF ProcessingFails, CalledAt, Goto
<1>7. ASSUME NEW h \in Handlers, UpsertPoints(h) PROVE HandlersWired'
  BY <1>7, <1>k, <1>t DEF UpsertPoints, Goto
<1>8. ASSUME NEW h \in Handlers, MarkRunning(h) PROVE HandlersWired'
  <2>1. PICK pc \in {"load", "settle"} :
          handler' = [handler EXCEPT ![h].pc = pc, ![h].attempt = jobs[handler[h].job].attempts + 1]
    BY <1>8 DEF MarkRunning, AfterCommit
  <2>2. handler[h].pc = "mark"
    BY <1>8 DEF MarkRunning
  <2>3. QED
    BY <2>1, <2>2, <1>k, <1>t
<1>9. ASSUME NEW h \in Handlers, MarkCompleted(h) PROVE HandlersWired'
  BY <1>9, <1>k, <1>t DEF MarkCompleted, AfterCommit, Waiting
<1>10. ASSUME NEW h \in Handlers, Rollback(h) PROVE HandlersWired'
  BY <1>10, <1>k, <1>t DEF Rollback, Abort
<1>11. ASSUME NEW h \in Handlers, MarkFailed(h) PROVE HandlersWired'
  BY <1>11, <1>k, <1>t DEF MarkFailed, Goto
<1>12. ASSUME NEW h \in Handlers, HandlerDatabaseError(h) PROVE HandlersWired'
  BY <1>12, <1>k, <1>t DEF HandlerDatabaseError, Abort
<1>13. ASSUME NEW h \in Handlers, Settle(h) PROVE HandlersWired'
  BY <1>13, <1>k, <1>t DEF Settle, Free, IdleHandler
<1>14. ASSUME NEW h \in Handlers, HandlerCrash(h) PROVE HandlersWired'
  BY <1>14, <1>k, <1>t DEF HandlerCrash, Free, IdleHandler
<1>15. ASSUME NEW h \in Handlers, ConnectionLost(h) PROVE HandlersWired'
  BY <1>15, <1>k, <1>t DEF ConnectionLost
<1>16. ASSUME NEW h \in Handlers, NEW j \in Jobs, Deliver(h, j) PROVE HandlersWired'
  BY <1>16, <1>k, <1>t DEF Deliver, JobsWired
<1>a. ASSUME NEW r \in Requests, RequestStep(r) PROVE UNCHANGED handler
  BY <1>a DEF RequestStep, StoreObject, StoreFails, CommitUpload, CommitNewJob, PublishJob,
              PublishFails, MarkPublishFailed, RequestDatabaseError
<1>b. ASSUME UserStep PROVE UNCHANGED handler
  BY <1>b DEF UserStep, BeginUpload, RetryJob, ReindexDocument, Requeue, DeleteDocument,
              LoadEvidence
<1>c. ASSUME NEW a \in Answers, Cite(a) PROVE UNCHANGED handler
  BY <1>c DEF Cite
<1>d. ASSUME NEW r \in Requests, RequestCrash(r) PROVE UNCHANGED handler
  BY <1>d DEF RequestCrash
<1> QED
  BY <1>0, <1>1, <1>2, <1>3, <1>4, <1>5, <1>6, <1>7, <1>8, <1>9, <1>10, <1>11, <1>12, <1>13, <1>14, <1>15, <1>16,
     <1>a, <1>b, <1>c, <1>d DEF Next, HandlerStep, FaultStep, Rest, vars

LEMMA JobsWiredStep ==
  ASSUME TypeOK, Wired, [Next]_vars
  PROVE  JobsWired'
<1> DEFINE Placed == \A j \in Jobs :
             jobs'[j].status # "none" => jobs'[j].doc \in Docs /\ jobs'[j].tenant \in Tenants
           Messages == \A j \in queue' : jobs'[j].status # "none"
<1>1. Placed
  <2>0. jobs \in [Jobs -> JobRecord]
    BY DEF TypeOK
  <2> USE DEF Wired, JobsWired, JobRecord, SetJob
  <2>1. ASSUME NEW r \in Requests, CommitUpload(r) \/ CommitNewJob(r) PROVE Placed
    BY <2>0, <2>1 DEF CommitUpload, CommitNewJob, NewJob, RequestsWired
  <2>2. ASSUME NEW r \in Requests, MarkPublishFailed(r) PROVE Placed
    BY <2>0, <2>2 DEF MarkPublishFailed, RequestsWired
  <2>3. ASSUME NEW h \in Handlers, MarkRunning(h) PROVE Placed
    BY <2>0, <2>3 DEF MarkRunning, HandlersWired
  <2>4. ASSUME NEW h \in Handlers, MarkCompleted(h) \/ MarkFailed(h) PROVE Placed
    <3>1. PICK status : jobs' = [jobs EXCEPT ![handler[h].job].status = status]
      BY <2>4 DEF MarkCompleted, MarkFailed
    <3>2. jobs[handler[h].job].status # "none"
      BY <2>4 DEF MarkCompleted, MarkFailed, HandlersWired
    <3>3. QED
      BY <2>0, <3>1, <3>2
  <2>5. CASE UNCHANGED jobs
    BY <2>5
  <2> QED
    BY <2>1, <2>2, <2>3, <2>4, <2>5, OtherStepsLeaveJobs
<1>k. \A j \in Jobs : jobs[j].status # "none" => jobs'[j].status # "none"
  BY JobsKept
<1>q. queue \subseteq Jobs
  BY DEF TypeOK
<1>2. Messages
  <2> USE DEF Wired, JobsWired
  <2>1. ASSUME NEW r \in Requests, RequestStep(r) PROVE Messages
    BY <2>1, <1>k, <1>q DEF RequestStep, StoreObject, StoreFails, CommitUpload, CommitNewJob,
         PublishJob, PublishFails, MarkPublishFailed, RequestDatabaseError, RequestsWired
  <2>2. ASSUME NEW h \in Handlers, HandlerStep(h) PROVE UNCHANGED queue
    BY <2>2 DEF HandlerStep, FindJob, MarkRunning, ReplaceChunks, WaitForRows,
         RestrictedByCitation, NoChunks, ProcessingFails, UpsertPoints, MarkCompleted,
         Rollback, MarkFailed, HandlerDatabaseError, Settle, OnlyHandler
  <2>3. ASSUME NEW h \in Handlers, NEW j \in Jobs, Deliver(h, j) PROVE queue' \subseteq queue
    BY <2>3 DEF Deliver
  <2>4. ASSUME NEW a \in Answers, Cite(a) PROVE UNCHANGED queue
    BY <2>4 DEF Cite
  <2>5. ASSUME UserStep PROVE UNCHANGED queue
    BY <2>5 DEF UserStep, BeginUpload, RetryJob, ReindexDocument, Requeue, DeleteDocument,
         LoadEvidence
  <2>6. ASSUME FaultStep PROVE Messages
    BY <2>6, <1>k, <1>q DEF FaultStep, RequestCrash, HandlerCrash, ConnectionLost, HandlersWired
  <2> QED
    BY <2>1, <2>2, <2>3, <2>4, <2>5, <2>6, <1>k, <1>q DEF Next, Rest, vars
<1> QED
  BY <1>1, <1>2 DEF JobsWired

LEMMA RequestsWiredStep ==
  ASSUME TypeOK, Wired, [Next]_vars
  PROVE  RequestsWired'
<1>t. request \in [Requests -> RequestRecord] /\ jobs \in [Jobs -> JobRecord]
  BY DEF TypeOK
<1>k. \A j \in Jobs : jobs[j].status # "none" => jobs'[j].status # "none" /\ jobs'[j].doc = jobs[j].doc
  BY JobsKept
<1>n. None \notin Docs \cup Jobs
  BY IngestionAssumption
<1> USE DEF Wired, RequestsWired, RequestRecord, JobRecord, Proceed, Return, IdleRequest
\* A step that creates no job and leaves the requests alone.
<1>u. ASSUME UNCHANGED request,
             \A j \in Jobs : jobs[j].status = "none" => jobs'[j].status = "none"
      PROVE  RequestsWired'
  BY <1>u, <1>k, <1>t
<1>1. ASSUME NEW r \in Requests, NEW t \in Tenants, NEW c \in Contents, BeginUpload(r, t, c)
      PROVE  RequestsWired'
  BY <1>1, <1>t, <1>n DEF BeginUpload, Fresh, FreshJob, postgres
<1>2. ASSUME NEW r \in Requests, NEW t \in Tenants, NEW d \in Docs,
             request[r].pc = "idle", Requeue(r, t, d)
      PROVE  RequestsWired'
  BY <1>2, <1>t, <1>n DEF Requeue, FreshJob, postgres
<1>3. ASSUME NEW r \in Requests, StoreObject(r) PROVE RequestsWired'
  BY <1>3, <1>t DEF StoreObject, postgres
<1>4. ASSUME NEW r \in Requests, StoreFails(r) PROVE RequestsWired'
  BY <1>4, <1>t DEF StoreFails, postgres
<1>5. ASSUME NEW r \in Requests, CommitUpload(r) PROVE RequestsWired'
  BY <1>5, <1>t, <1>n DEF CommitUpload, NewJob
<1>6. ASSUME NEW r \in Requests, CommitNewJob(r) PROVE RequestsWired'
  BY <1>6, <1>t, <1>n DEF CommitNewJob, NewJob
<1>7. ASSUME NEW r \in Requests, PublishJob(r) PROVE RequestsWired'
  BY <1>7, <1>t DEF PublishJob, postgres
<1>8. ASSUME NEW r \in Requests, PublishFails(r) PROVE RequestsWired'
  BY <1>8, <1>t DEF PublishFails, postgres
<1>9. ASSUME NEW r \in Requests, MarkPublishFailed(r) PROVE RequestsWired'
  BY <1>9, <1>t, <1>k DEF MarkPublishFailed, SetJob
<1>10. ASSUME NEW r \in Requests, RequestDatabaseError(r) PROVE RequestsWired'
  BY <1>10, <1>t DEF RequestDatabaseError, postgres
<1>11. ASSUME NEW r \in Requests, RequestCrash(r) PROVE RequestsWired'
  BY <1>11, <1>t DEF RequestCrash, postgres
<1>12. ASSUME NEW h \in Handlers, HandlerStep(h) PROVE RequestsWired'
  <2>1. UNCHANGED request
    BY <1>12 DEF HandlerStep, FindJob, MarkRunning, ReplaceChunks, WaitForRows,
         RestrictedByCitation, NoChunks, ProcessingFails, UpsertPoints, MarkCompleted,
         Rollback, MarkFailed, HandlerDatabaseError, Settle, OnlyHandler
  <2>2. UNCHANGED jobs \/ MarkRunning(h) \/ MarkCompleted(h) \/ MarkFailed(h)
    BY <1>12 DEF HandlerStep, FindJob, ReplaceChunks, WaitForRows, RestrictedByCitation,
         NoChunks, ProcessingFails, UpsertPoints, Rollback, HandlerDatabaseError, Settle,
         OnlyHandler, postgres
  <2>3. handler[h].pc # "idle" => jobs[handler[h].job].status # "none"
    BY DEF HandlersWired
  <2>4. \A j \in Jobs : jobs[j].status = "none" => jobs'[j].status = "none"
    BY <2>2, <2>3, <1>t DEF MarkRunning, MarkCompleted, MarkFailed, SetJob
  <2>5. QED
    BY <1>u, <2>1, <2>4
<1>13. ASSUME NEW h \in Handlers, NEW j \in Jobs, Deliver(h, j) PROVE RequestsWired'
  BY <1>13, <1>u DEF Deliver, postgres
<1>14. ASSUME NEW a \in Answers, Cite(a) PROVE RequestsWired'
  BY <1>14, <1>u DEF Cite
<1>15. ASSUME NEW t \in Tenants, NEW d \in Docs, DeleteDocument(t, d) PROVE RequestsWired'
  BY <1>15, <1>u DEF DeleteDocument
<1>16. ASSUME NEW a \in Answers, NEW d \in Docs, LoadEvidence(a, d) PROVE RequestsWired'
  BY <1>16, <1>u DEF LoadEvidence, postgres
<1>17. ASSUME NEW h \in Handlers, HandlerCrash(h) \/ ConnectionLost(h) PROVE RequestsWired'
  BY <1>17, <1>u DEF HandlerCrash, ConnectionLost, postgres
<1>18. ASSUME UNCHANGED vars PROVE RequestsWired'
  BY <1>18, <1>u DEF vars
<1> QED
  BY <1>1, <1>2, <1>3, <1>4, <1>5, <1>6, <1>7, <1>8, <1>9, <1>10, <1>11, <1>12, <1>13,
     <1>14, <1>15, <1>16, <1>17, <1>18
  DEF Next, RequestStep, UserStep, FaultStep, Rest, RetryJob, ReindexDocument

\* Every variable keeps its type, and what a variable refers to exists, in every
\* behaviour of the pipeline.
LEMMA Typed == Spec => [](TypeOK /\ Wired)
<1>1. Init => TypeOK /\ Wired
  BY InitTyped
<1>2. TypeOK /\ Wired /\ [Next]_vars => (TypeOK /\ Wired)'
  BY TypeStep, HandlersWiredStep, RequestsWiredStep, JobsWiredStep DEF Wired
<1> QED
  BY <1>1, <1>2, PTL DEF Spec

\* The tables, stores and handlers hold values of their types: statuses of the
\* schema's enums, generations written by jobs, identities of committed rows.
THEOREM TypeCorrect == Spec => []TypeOK
  BY Typed, PTL

-----------------------------------------------------------------------------
(***************************************************************************)
(* No job is orphaned.                                                     *)
(***************************************************************************)

\* A queued job is on its way to a worker, a running one is being worked on.
Attended(j) ==
    /\ jobs[j].status = "queued" => WaitingForWorker(j)
    /\ jobs[j].status = "running" => \E h \in Handlers : handler[h].job = j /\ Working(h)

LEMMA AttendedStep ==
  ASSUME TypeOK, Wired, "database" \notin Unreliable, \A j \in Jobs : Attended(j),
         [Next]_vars, UNCHANGED crashes
  PROVE  \A j \in Jobs : Attended(j)'
<1> DEFINE Goal == \A j \in Jobs : Attended(j)'
<1>t. /\ jobs \in [Jobs -> JobRecord]
      /\ request \in [Requests -> RequestRecord]
      /\ handler \in [Handlers -> HandlerRecord]
  BY DEF TypeOK
<1>r. RequestsWired
  BY DEF Wired
<1>w. \A h \in Handlers : handler[h].pc # "idle" => handler[h].job \in Jobs
  BY DEF Wired, HandlersWired
<1>c. crashes \in Nat
  BY DEF TypeOK
<1> USE DEF Attended, WaitingForWorker, Working, JobRecord, RequestRecord, HandlerRecord
\* A handler that stays at work keeps its job attended.
<1>m. ASSUME NEW h \in Handlers, Working(h), Working(h)', handler'[h].job = handler[h].job,
             \A o \in Handlers \ {h} : handler'[o] = handler[o],
             UNCHANGED <<jobs, queue, request>>
      PROVE  Goal
  BY <1>m, <1>t
<1>1. ASSUME NEW r \in Requests, StoreObject(r) PROVE Goal
  BY <1>1, <1>t, <1>r DEF StoreObject, Proceed, RequestsWired, postgres
<1>2. ASSUME NEW r \in Requests, StoreFails(r) PROVE Goal
  BY <1>2, <1>t, <1>r DEF StoreFails, Return, IdleRequest, RequestsWired, postgres
<1>3. ASSUME NEW r \in Requests, CommitUpload(r) PROVE Goal
  <2>1. Proceed(r, "publish")
    BY <1>3 DEF CommitUpload
  <2>2. /\ request[r].pc = "insert" /\ request[r].job \in Jobs
        /\ jobs' = [jobs EXCEPT ![request[r].job] = NewJob(request[r].tenant, request[r].doc)]
        /\ UNCHANGED <<queue, handler>>
    BY <1>3, <1>r DEF CommitUpload, RequestsWired
  <2>3. QED
    BY <2>1, <2>2, <1>t DEF NewJob, Proceed
<1>4. ASSUME NEW r \in Requests, CommitNewJob(r) PROVE Goal
  BY <1>4, <1>t, <1>r DEF CommitNewJob, NewJob, Proceed, Return, IdleRequest, RequestsWired, postgres
<1>5. ASSUME NEW r \in Requests, PublishJob(r) PROVE Goal
  BY <1>5, <1>t, <1>r DEF PublishJob, Return, IdleRequest, RequestsWired, postgres
<1>6. ASSUME NEW r \in Requests, PublishFails(r) PROVE Goal
  BY <1>6, <1>t, <1>r DEF PublishFails, Proceed, RequestsWired, postgres
<1>7. ASSUME NEW r \in Requests, MarkPublishFailed(r) PROVE Goal
  BY <1>7, <1>t, <1>r DEF MarkPublishFailed, SetJob, Return, IdleRequest, RequestsWired, postgres
<1>8. ASSUME NEW h \in Handlers, FindJob(h) PROVE Goal
  BY <1>8, <1>t, <1>w DEF FindJob, Processable, Goto, OnlyHandler, postgres
<1>9. ASSUME NEW h \in Handlers, MarkRunning(h) PROVE Goal
  BY <1>9, <1>t, <1>w DEF MarkRunning, AfterCommit, postgres
<1>10. ASSUME NEW h \in Handlers, ReplaceChunks(h) PROVE Goal
  <2>1. /\ handler'[h].job = handler[h].job
        /\ handler[h].pc \in {"load", "blocked"}
        /\ handler'[h].pc = "upsert"
        /\ \A o \in Handlers \ {h} : handler'[o] = handler[o]
    BY <1>10, <1>t DEF ReplaceChunks
  <2>2. QED
    BY <1>10, <1>m, <2>1 DEF ReplaceChunks, OnlyHandler, postgres
<1>11. ASSUME NEW h \in Handlers, WaitForRows(h) PROVE Goal
  BY <1>11, <1>t, <1>w DEF WaitForRows, Goto, OnlyHandler, postgres
<1>12. ASSUME NEW h \in Handlers, RestrictedByCitation(h) PROVE Goal
  BY <1>12, <1>t, <1>w DEF RestrictedByCitation, Goto, OnlyHandler, postgres
<1>13. ASSUME NEW h \in Handlers, NoChunks(h) PROVE Goal
  BY <1>13, <1>t, <1>w DEF NoChunks, Goto, OnlyHandler, postgres
<1>14. ASSUME NEW h \in Handlers, ProcessingFails(h) PROVE Goal
  BY <1>14, <1>t, <1>w DEF ProcessingFails, CalledAt, Goto, OnlyHandler, postgres
<1>15. ASSUME NEW h \in Handlers, UpsertPoints(h) PROVE Goal
  BY <1>15, <1>t, <1>w DEF UpsertPoints, Goto, postgres
<1>16. ASSUME NEW h \in Handlers, MarkCompleted(h) PROVE Goal
  BY <1>16, <1>t, <1>w DEF MarkCompleted, AfterCommit, Waiting, SetJob, postgres
<1>17. ASSUME NEW h \in Handlers, Rollback(h) PROVE Goal
  <2>1. /\ handler'[h].job = handler[h].job
        /\ handler[h].pc = "rollback"
        /\ handler'[h].pc = "mark_failed"
        /\ \A o \in Handlers \ {h} : handler'[o] = handler[o]
    BY <1>17, <1>t DEF Rollback, Abort
  <2>2. QED
    BY <1>17, <1>m, <2>1 DEF Rollback, OnlyHandler, postgres
<1>18. ASSUME NEW h \in Handlers, MarkFailed(h) PROVE Goal
  BY <1>18, <1>t, <1>w DEF MarkFailed, SetJob, Goto, postgres
<1>19. ASSUME NEW h \in Handlers, Settle(h) PROVE Goal
  BY <1>19, <1>t, <1>w DEF Settle, Free, IdleHandler, OnlyHandler, postgres
<1>20. ASSUME NEW h \in Handlers, NEW j \in Jobs, Deliver(h, j)
      PROVE  Goal
  BY <1>20, <1>t DEF Deliver, postgres
<1>21. ASSUME NEW h \in Handlers, ConnectionLost(h)
      PROVE  Goal
  BY <1>21, <1>t DEF ConnectionLost, postgres
<1>22. ASSUME NEW a \in Answers, Cite(a)
      PROVE  Goal
  BY <1>22, <1>t DEF Cite, postgres
<1>23. ASSUME NEW r \in Requests, NEW t \in Tenants, NEW c \in Contents, BeginUpload(r, t, c)
      PROVE  Goal
  BY <1>23, <1>t DEF BeginUpload, postgres
<1>24. ASSUME NEW r \in Requests, NEW t \in Tenants, NEW d \in Docs,
             request[r].pc = "idle", Requeue(r, t, d)
      PROVE  Goal
  BY <1>24, <1>t DEF Requeue, postgres
<1>25. ASSUME NEW t \in Tenants, NEW d \in Docs, DeleteDocument(t, d)
      PROVE  Goal
  BY <1>25, <1>t DEF DeleteDocument, postgres
<1>26. ASSUME NEW a \in Answers, NEW d \in Docs, LoadEvidence(a, d)
      PROVE  Goal
  BY <1>26, <1>t DEF LoadEvidence, postgres
<1>27. ASSUME UNCHANGED vars
      PROVE  Goal
  BY <1>27, <1>t DEF vars, postgres
<1>28. ASSUME NEW r \in Requests, RequestCrash(r) PROVE FALSE
  BY <1>28, <1>c DEF RequestCrash
<1>29. ASSUME NEW h \in Handlers, HandlerCrash(h) PROVE FALSE
  BY <1>29, <1>c DEF HandlerCrash
<1>30. ASSUME NEW r \in Requests, RequestDatabaseError(r) PROVE FALSE
  BY <1>30 DEF RequestDatabaseError
<1>31. ASSUME NEW h \in Handlers, HandlerDatabaseError(h) PROVE FALSE
  BY <1>31 DEF HandlerDatabaseError
<1> QED
  BY <1>1, <1>2, <1>3, <1>4, <1>5, <1>6, <1>7, <1>8, <1>9, <1>10, <1>11, <1>12, <1>13, <1>14, <1>15, <1>16, <1>17, <1>18, <1>19, <1>20, <1>21, <1>22, <1>23, <1>24, <1>25, <1>26, <1>27, <1>28, <1>29, <1>30, <1>31
  DEF Goal, Next, RequestStep, HandlerStep, UserStep, FaultStep, Rest, RetryJob,
      ReindexDocument
LEMMA CrashesCounted == TypeOK /\ [Next]_vars => crashes' = crashes \/ crashes' # 0
<1> SUFFICES ASSUME TypeOK, [Next]_vars PROVE crashes' = crashes \/ crashes' # 0
  OBVIOUS
<1>c. crashes \in Nat
  BY DEF TypeOK
<1>1. ASSUME NEW r \in Requests, RequestStep(r) PROVE UNCHANGED crashes
  BY <1>1 DEF RequestStep, StoreObject, StoreFails, CommitUpload, CommitNewJob, PublishJob,
              PublishFails, MarkPublishFailed, RequestDatabaseError
<1>2. ASSUME NEW h \in Handlers, HandlerStep(h) PROVE UNCHANGED crashes
  BY <1>2 DEF HandlerStep, FindJob, MarkRunning, ReplaceChunks, WaitForRows,
              RestrictedByCitation, NoChunks, ProcessingFails, UpsertPoints, MarkCompleted,
              Rollback, MarkFailed, HandlerDatabaseError, Settle, OnlyHandler
<1>3. ASSUME NEW h \in Handlers, NEW j \in Jobs, Deliver(h, j) PROVE UNCHANGED crashes
  BY <1>3 DEF Deliver
<1>4. ASSUME NEW a \in Answers, Cite(a) PROVE UNCHANGED crashes
  BY <1>4 DEF Cite
<1>5. ASSUME UserStep PROVE UNCHANGED crashes
  BY <1>5 DEF UserStep, BeginUpload, RetryJob, ReindexDocument, Requeue, DeleteDocument,
              LoadEvidence
<1>6. ASSUME FaultStep PROVE crashes' = crashes \/ crashes' # 0
  BY <1>6, <1>c DEF FaultStep, RequestCrash, HandlerCrash, ConnectionLost
<1> QED
  BY <1>1, <1>2, <1>3, <1>4, <1>5, <1>6 DEF Next, Rest, vars

\* For any number of requests, workers and jobs, lost connections and failing
\* publishes included: until something crashes or the database fails, a queued job
\* has its message, its publisher or its handler, and a running job its handler.
THEOREM NoJobOrphaned == Spec => []NoOrphanedJob
<1>1. Init => NoOrphanedJob
  BY DEF Init, NoOrphanedJob, NoJob
<1>2. TypeOK /\ Wired /\ NoOrphanedJob /\ [Next]_vars => NoOrphanedJob'
  <2> SUFFICES ASSUME TypeOK, Wired, NoOrphanedJob, [Next]_vars, Undisturbed'
               PROVE  \A j \in Jobs : Attended(j)'
    BY DEF NoOrphanedJob, Attended, Undisturbed, WaitingForWorker, Working
  <2>1. Undisturbed /\ UNCHANGED crashes
    BY CrashesCounted DEF Undisturbed
  <2>2. \A j \in Jobs : Attended(j)
    BY <2>1 DEF NoOrphanedJob, Attended
  <2>3. QED
    BY <2>1, <2>2, AttendedStep DEF Undisturbed
<1> QED
  BY <1>1, <1>2, Typed, PTL DEF Spec

-----------------------------------------------------------------------------
(***************************************************************************)
(* Generations of chunks.                                                  *)
(***************************************************************************)

\* Committed rows belong to a job of their document.
RowsOwned ==
    \A d \in Docs : rows[d] # None =>
        /\ jobs[rows[d][1]].status # "none"
        /\ jobs[rows[d][1]].doc = d

\* The row locks: one open transaction per document, and none while a row that
\* it deleted is cited.
RowsLocked ==
    /\ \A h, o \in Handlers :
         handler[h].tx /\ handler[o].tx /\ Document(h) = Document(o) => h = o
    /\ \A h \in Handlers : handler[h].tx => rows[Document(h)] \notin cited

\* A handler that is about to commit holds the locks and has its own points in
\* Qdrant.
PointsWritten ==
    \A h \in Handlers :
        /\ handler[h].pc \in {"upsert", "complete"} => handler[h].tx
        /\ handler[h].pc = "complete" => points[Document(h)] = Generation(h)

\* An answer's evidence was written by a committed job.
AnswersOwned ==
    \A a \in Answers : answer[a] # None => jobs[answer[a][1]].status # "none"

Chunks == RowsOwned /\ RowsLocked /\ PointsWritten /\ CitedRowsExist /\ AnswersOwned

LEMMA InitChunks == Init => Chunks
  BY DEF Init, IdleHandler, Chunks, RowsOwned, RowsLocked, PointsWritten, CitedRowsExist,
         AnswersOwned

LEMMA DocumentKept ==
  ASSUME TypeOK, Wired, [Next]_vars, NEW h \in Handlers,
         handler[h].pc # "idle", handler'[h].job = handler[h].job
  PROVE  Document(h)' = Document(h) /\ Document(h) \in Docs
  BY JobsKept DEF Wired, HandlersWired, JobsWired, Document

\* The steps that write chunk rows, points or citations, or open a transaction;
\* after any other step every open transaction was open before.
LEMMA OtherStepsLeaveChunks ==
  ASSUME TypeOK, Wired, [Next]_vars
  PROVE  \/ /\ UNCHANGED <<rows, cited, points>>
            /\ \A h \in Handlers :
                 /\ handler'[h].tx => /\ handler[h].tx
                                      /\ handler'[h].job = handler[h].job
                 /\ handler'[h].pc \in {"upsert", "complete"} =>
                      /\ handler'[h].pc = handler[h].pc
                      /\ handler'[h].tx = handler[h].tx
                      /\ handler'[h].job = handler[h].job
                      /\ handler'[h].attempt = handler[h].attempt
         \/ \E h \in Handlers : ReplaceChunks(h) \/ UpsertPoints(h) \/ MarkCompleted(h)
         \/ \E a \in Answers : Cite(a)
<1> DEFINE Same ==
      /\ UNCHANGED <<rows, cited, points>>
      /\ \A h \in Handlers :
           /\ handler'[h].tx => /\ handler[h].tx
                                /\ handler'[h].job = handler[h].job
           /\ handler'[h].pc \in {"upsert", "complete"} =>
                /\ handler'[h].pc = handler[h].pc
                /\ handler'[h].tx = handler[h].tx
                /\ handler'[h].job = handler[h].job
                /\ handler'[h].attempt = handler[h].attempt
<1>t. handler \in [Handlers -> HandlerRecord]
  BY DEF TypeOK
<1>w. \A h \in Handlers : handler[h].tx => handler[h].pc \in {"upsert", "complete", "rollback"}
  BY DEF Wired, HandlersWired
<1> USE DEF HandlerRecord, postgres, OnlyHandler
<1>1. ASSUME NEW r \in Requests, RequestStep(r) PROVE Same
  BY <1>1 DEF RequestStep, StoreObject, StoreFails, CommitUpload, CommitNewJob, PublishJob,
              PublishFails, MarkPublishFailed, RequestDatabaseError
<1>2. ASSUME NEW h \in Handlers, NEW pc \in HandlerPc \ {"upsert", "complete"}, Goto(h, pc),
             UNCHANGED <<rows, cited, points>>
      PROVE  Same
  BY <1>2, <1>t DEF Goto
<1>3. ASSUME NEW h \in Handlers, NEW pc \in HandlerPc \ {"upsert", "complete"}, Abort(h, pc),
             UNCHANGED <<rows, cited, points>>
      PROVE  Same
  BY <1>3, <1>t DEF Abort
<1>4. ASSUME NEW h \in Handlers, Free(h), UNCHANGED <<rows, cited, points>> PROVE Same
  BY <1>4, <1>t DEF Free, IdleHandler
<1>5. ASSUME NEW h \in Handlers, MarkRunning(h) PROVE Same
  BY <1>5, <1>t, <1>w DEF MarkRunning, AfterCommit
<1>6. ASSUME NEW h \in Handlers, NEW j \in Jobs, Deliver(h, j) PROVE Same
  BY <1>6, <1>t DEF Deliver
<1>7. ASSUME NEW h \in Handlers, ConnectionLost(h) PROVE Same
  BY <1>7, <1>t DEF ConnectionLost
<1>8. ASSUME NEW h \in Handlers, HandlerStep(h)
      PROVE  Same \/ ReplaceChunks(h) \/ UpsertPoints(h) \/ MarkCompleted(h)
  BY <1>8, <1>2, <1>3, <1>4, <1>5, Statuses DEF HandlerStep, FindJob, WaitForRows,
     RestrictedByCitation, NoChunks, ProcessingFails, Rollback, MarkFailed,
     HandlerDatabaseError, Settle
<1>9. ASSUME UserStep PROVE Same
  BY <1>9 DEF UserStep, BeginUpload, RetryJob, ReindexDocument, Requeue, DeleteDocument,
              LoadEvidence
<1>10. ASSUME FaultStep PROVE Same
  BY <1>10, <1>4, <1>7 DEF FaultStep, RequestCrash, HandlerCrash
<1> QED
  BY <1>1, <1>6, <1>8, <1>9, <1>10 DEF Same, Next, Rest, vars

LEMMA AnswersOwnedStep == TypeOK /\ Wired /\ Chunks /\ [Next]_vars => AnswersOwned'
<1> SUFFICES ASSUME TypeOK, Wired, Chunks, [Next]_vars PROVE AnswersOwned'
  OBVIOUS
<1>t. /\ answer \in [Answers -> Generations \cup {None}]
      /\ rows \in [Docs -> Generations \cup {None}]
  BY DEF TypeOK
<1>k. \A g \in Generations : jobs[g[1]].status # "none" => jobs'[g[1]].status # "none"
  BY JobsKept DEF Generations
<1>1. CASE UNCHANGED answer
  BY <1>1, <1>t, <1>k DEF Chunks, AnswersOwned
<1>2. ASSUME NEW a \in Answers, Cite(a) PROVE AnswersOwned'
  BY <1>2, <1>t, <1>k DEF Cite, Chunks, AnswersOwned
<1>3. ASSUME NEW a \in Answers, NEW d \in Docs, LoadEvidence(a, d) PROVE AnswersOwned'
  BY <1>3, <1>t, <1>k DEF LoadEvidence, Evidence, Chunks, AnswersOwned, RowsOwned
<1>4. ASSUME NEW r \in Requests, RequestStep(r) PROVE UNCHANGED answer
  BY <1>4 DEF RequestStep, StoreObject, StoreFails, CommitUpload, CommitNewJob, PublishJob,
              PublishFails, MarkPublishFailed, RequestDatabaseError
<1>5. ASSUME NEW h \in Handlers, HandlerStep(h) PROVE UNCHANGED answer
  BY <1>5 DEF HandlerStep, FindJob, MarkRunning, ReplaceChunks, WaitForRows,
              RestrictedByCitation, NoChunks, ProcessingFails, UpsertPoints, MarkCompleted,
              Rollback, MarkFailed, HandlerDatabaseError, Settle, OnlyHandler
<1>6. ASSUME NEW h \in Handlers, NEW j \in Jobs, Deliver(h, j) PROVE UNCHANGED answer
  BY <1>6 DEF Deliver
<1>7. ASSUME UserStep
      PROVE  UNCHANGED answer \/ \E a \in Answers, d \in Docs : LoadEvidence(a, d)
  BY <1>7 DEF UserStep, BeginUpload, RetryJob, ReindexDocument, Requeue, DeleteDocument
<1>8. ASSUME FaultStep PROVE UNCHANGED answer
  BY <1>8 DEF FaultStep, RequestCrash, HandlerCrash, ConnectionLost
<1> QED
  BY <1>1, <1>2, <1>3, <1>4, <1>5, <1>6, <1>7, <1>8 DEF Next, Rest, vars

LEMMA ChunksStep == TypeOK /\ Wired /\ Chunks /\ [Next]_vars => Chunks'
<1> SUFFICES ASSUME TypeOK, Wired, Chunks, [Next]_vars PROVE Chunks'
  OBVIOUS
<1>t. /\ handler \in [Handlers -> HandlerRecord]
      /\ rows \in [Docs -> Generations \cup {None}]
      /\ points \in [Docs -> Generations \cup {None}]
      /\ cited \subseteq Generations
      /\ None \notin Generations
  BY IngestionAssumption DEF TypeOK, Generations
<1>o. \A h \in Handlers :
        /\ handler[h].tx => handler[h].pc # "idle"
        /\ handler[h].pc # "idle" => handler[h].job \in Jobs
  BY DEF Wired, HandlersWired
<1>a. AnswersOwned'
  BY AnswersOwnedStep
<1>d. \A h \in Handlers : handler[h].pc # "idle" /\ handler'[h].job = handler[h].job =>
        Document(h)' = Document(h) /\ Document(h) \in Docs
  BY DocumentKept
\* Rows that stay keep their owner.
<1>r. ASSUME NEW d \in Docs, rows[d] # None
      PROVE  jobs'[rows[d][1]].status # "none" /\ jobs'[rows[d][1]].doc = d
  <2>1. rows[d][1] \in Jobs
    BY <1>r, <1>t DEF Generations
  <2>2. QED
    BY <1>r, <2>1, JobsKept DEF Chunks, RowsOwned
<1>1. CASE /\ UNCHANGED <<rows, cited, points>>
           /\ \A h \in Handlers :
                /\ handler'[h].tx => /\ handler[h].tx
                                     /\ handler'[h].job = handler[h].job
                /\ handler'[h].pc \in {"upsert", "complete"} =>
                     /\ handler'[h].pc = handler[h].pc
                     /\ handler'[h].tx = handler[h].tx
                     /\ handler'[h].job = handler[h].job
                     /\ handler'[h].attempt = handler[h].attempt
  <2>1. RowsOwned'
    BY <1>1, <1>r DEF RowsOwned
  <2>2. RowsLocked'
    BY <1>1, <1>o, <1>d DEF Chunks, RowsLocked
  <2>3. PointsWritten'
    BY <1>1, <1>o, <1>d DEF Chunks, PointsWritten, Generation
  <2>4. CitedRowsExist'
    BY <1>1 DEF Chunks, CitedRowsExist
  <2> QED
    BY <2>1, <2>2, <2>3, <2>4, <1>a DEF Chunks
<1>2. ASSUME NEW h \in Handlers, ReplaceChunks(h) PROVE Chunks'
  <2>1. UNCHANGED <<rows, cited, points>>
    BY <1>2 DEF ReplaceChunks, OnlyHandler, postgres
  <2>2. /\ handler'[h].pc = "upsert" /\ handler'[h].tx /\ handler'[h].job = handler[h].job
        /\ handler[h].pc # "idle"
        /\ \A o \in Handlers \ {h} : handler'[o] = handler[o]
    BY <1>2, <1>t DEF ReplaceChunks, HandlerRecord
  <2>3. /\ \A o \in Handlers \ {h} : ~(handler[o].tx /\ Document(o) = Document(h))
        /\ rows[Document(h)] \notin cited
    BY <1>2 DEF ReplaceChunks, LockedByOther, Restricted
  <2>4. RowsOwned'
    BY <2>1, <1>r DEF RowsOwned
  <2>5. RowsLocked'
    BY <2>1, <2>2, <2>3, <1>o, <1>d DEF Chunks, RowsLocked
  <2>6. PointsWritten'
    BY <2>1, <2>2, <1>o, <1>d DEF Chunks, PointsWritten, Generation
  <2>7. CitedRowsExist'
    BY <2>1 DEF Chunks, CitedRowsExist
  <2> QED
    BY <2>4, <2>5, <2>6, <2>7, <1>a DEF Chunks
<1>3. ASSUME NEW h \in Handlers, UpsertPoints(h) PROVE Chunks'
  <2>1. UNCHANGED <<rows, cited>> /\ points' = [points EXCEPT ![Document(h)] = Generation(h)]
    BY <1>3 DEF UpsertPoints, postgres
  <2>2. /\ handler[h].pc = "upsert" /\ handler'[h].pc \in {"complete", "rollback"}
        /\ handler'[h].tx = handler[h].tx /\ handler'[h].job = handler[h].job
        /\ handler'[h].attempt = handler[h].attempt
        /\ \A o \in Handlers \ {h} : handler'[o] = handler[o]
    BY <1>3, <1>t DEF UpsertPoints, Goto, HandlerRecord
  <2>3. handler[h].tx
    BY <2>2 DEF Chunks, PointsWritten
  <2>4. RowsOwned'
    BY <2>1, <1>r DEF RowsOwned
  <2>5. RowsLocked'
    BY <2>1, <2>2, <1>o, <1>d DEF Chunks, RowsLocked
  <2>6. PointsWritten'
    <3> SUFFICES ASSUME NEW o \in Handlers
                 PROVE  /\ handler'[o].pc \in {"upsert", "complete"} => handler'[o].tx
                        /\ handler'[o].pc = "complete" => points'[Document(o)'] = Generation(o)'
      BY DEF PointsWritten
    <3>1. CASE o = h
      BY <3>1, <2>1, <2>2, <2>3, <1>d, <1>t DEF Generation
    <3>2. CASE o # h
      BY <3>2, <2>1, <2>2, <2>3, <1>d, <1>o, <1>t
      DEF Chunks, PointsWritten, RowsLocked, Generation
    <3> QED
      BY <3>1, <3>2
  <2>7. CitedRowsExist'
    BY <2>1 DEF Chunks, CitedRowsExist
  <2> QED
    BY <2>4, <2>5, <2>6, <2>7, <1>a DEF Chunks
<1>4. ASSUME NEW h \in Handlers, MarkCompleted(h) PROVE Chunks'
  <2>1. UNCHANGED <<cited, points>> /\ rows' = [rows EXCEPT ![Document(h)] = Generation(h)]
    BY <1>4 DEF MarkCompleted
  <2>2. /\ handler[h].pc = "complete" /\ handler'[h].pc \in {"settle", "rollback"}
        /\ ~handler'[h].tx /\ handler'[h].job = handler[h].job
        /\ \A o \in Handlers \ {h} :
             /\ handler'[o].job = handler[o].job
             /\ handler'[o].tx = handler[o].tx
             /\ handler'[o].attempt = handler[o].attempt
             /\ handler'[o].pc \in {handler[o].pc, "rollback"}
    <3>1. PICK pc \in {"settle", "rollback"} : handler' = [o \in Handlers |->
             IF o = h THEN [handler[h] EXCEPT !.pc = pc, !.tx = FALSE]
             ELSE IF o \in Waiting(h) THEN [handler[o] EXCEPT !.pc = "rollback"]
             ELSE handler[o]]
      BY <1>4 DEF MarkCompleted, AfterCommit
    <3>2. handler[h].pc = "complete"
      BY <1>4 DEF MarkCompleted
    <3>3. QED
      BY <3>1, <3>2, <1>t DEF HandlerRecord
  <2>3. handler[h].tx /\ rows[Document(h)] \notin cited
    BY <2>2 DEF Chunks, PointsWritten, RowsLocked
  <2>4. /\ Document(h) \in Docs
        /\ Generation(h)[1] = handler[h].job
        /\ jobs'[handler[h].job].status # "none"
        /\ jobs'[handler[h].job].doc = Document(h)
    BY <2>2, <1>d, <1>o, JobsKept DEF Wired, HandlersWired, Document, Generation
  <2>5. RowsOwned'
    BY <2>1, <2>4, <1>r, <1>t DEF RowsOwned
  <2>6. RowsLocked'
    BY <2>1, <2>2, <2>3, <1>o, <1>d, <1>t DEF Chunks, RowsLocked
  <2>7. PointsWritten'
    BY <2>1, <2>2, <1>o, <1>d DEF Chunks, PointsWritten, Generation
  <2>8. CitedRowsExist'
    BY <2>1, <2>3, <1>t DEF Chunks, CitedRowsExist
  <2> QED
    BY <2>5, <2>6, <2>7, <2>8, <1>a DEF Chunks
<1>5. ASSUME NEW a \in Answers, Cite(a) PROVE Chunks'
  <2> DEFINE g == answer[a]
             d == jobs[g[1]].doc
  <2>1. UNCHANGED <<rows, points, handler, jobs>>
    BY <1>5 DEF Cite
  <2>2. /\ ~\E h \in Handlers : handler[h].tx /\ Document(h) = d
        /\ cited' = IF rows[d] = g THEN cited \cup {g} ELSE cited
        /\ g # None
    BY <1>5 DEF Cite
  <2>3. \A h \in Handlers : Document(h)' = Document(h)
    BY <2>1 DEF Document
  <2>4. \A e \in Docs : rows[e] = g => e = d
    BY <2>2, <1>t DEF Chunks, RowsOwned
  <2>5. cited' \subseteq {rows[e] : e \in Docs}
    <3>1. CASE cited' = cited
      BY <3>1 DEF Chunks, CitedRowsExist
    <3>2. CASE rows[d] = g /\ cited' = cited \cup {g}
      <4>1. g \in Generations
        BY <2>2, <1>5 DEF TypeOK
      <4>2. g[1] \in Jobs
        BY <4>1 DEF Generations
      <4>3. d \in Docs
        BY <4>2, <2>2 DEF Chunks, AnswersOwned, Wired, JobsWired
      <4>4. QED
        BY <3>2, <4>3 DEF Chunks, CitedRowsExist
    <3> QED
      BY <2>2, <3>1, <3>2
  <2>6. RowsLocked'
    <3>1. ASSUME NEW h \in Handlers, handler[h].tx PROVE rows[Document(h)] # g
      BY <3>1, <2>2, <2>4, <1>o, <1>d, <2>1
    <3>2. QED
      BY <2>1, <2>2, <2>3, <3>1 DEF Chunks, RowsLocked
  <2>7. RowsOwned' /\ PointsWritten'
    BY <2>1, <2>3 DEF Chunks, RowsOwned, PointsWritten, Generation
  <2> QED
    BY <2>1, <2>5, <2>6, <2>7, <1>a DEF Chunks, CitedRowsExist
<1> QED
  BY <1>1, <1>2, <1>3, <1>4, <1>5, OtherStepsLeaveChunks

LEMMA ChunksInvariant == Spec => []Chunks
  BY InitChunks, ChunksStep, Typed, PTL DEF Spec

\* The source trail of an answer never breaks: whatever uploads, re-indexes,
\* redeliveries, crashes and failures happen around it, the rows it cites are the
\* committed rows of their document.
THEOREM CitationsResolve == Spec => []CitedRowsExist
<1>1. Chunks => CitedRowsExist
  BY DEF Chunks
<1> QED
  BY <1>1, ChunksInvariant, PTL

-----------------------------------------------------------------------------
(***************************************************************************)
(* Indexed documents are searchable.                                       *)
(***************************************************************************)

\* A handler that wrote points and has not yet committed rows or a failure.
Pending(h) == handler[h].pc \in {"complete", "rollback", "mark_failed"}

LEMMA PendingKept ==
  ASSUME TypeOK, Wired, [Next]_vars, UNCHANGED crashes, "database" \notin Unreliable
  PROVE  \/ /\ UNCHANGED <<rows, points>>
            /\ \A d \in Docs :
                 documents'[d].status = "indexed" => documents[d].status = "indexed"
            /\ \A h \in Handlers : Pending(h) =>
                 \/ /\ Pending(h)'
                    /\ handler'[h].job = handler[h].job
                    /\ handler'[h].attempt = handler[h].attempt
                 \/ documents'[Document(h)].status # "indexed"
         \/ \E h \in Handlers : UpsertPoints(h) \/ MarkCompleted(h)
<1> DEFINE Indexing == \A d \in Docs :
             documents'[d].status = "indexed" => documents[d].status = "indexed"
           Keeps(h) == /\ handler'[h].pc \in {"complete", "rollback", "mark_failed"}
                       /\ handler'[h].job = handler[h].job
                       /\ handler'[h].attempt = handler[h].attempt
           Same == /\ UNCHANGED <<rows, points>>
                   /\ Indexing
                   /\ \A h \in Handlers : Pending(h) =>
                        Keeps(h) \/ documents'[Document(h)].status # "indexed"
<1>t. /\ handler \in [Handlers -> HandlerRecord]
      /\ documents \in [Docs -> DocumentRecord]
      /\ crashes \in Nat
  BY DEF TypeOK
<1>d. \A h \in Handlers : handler[h].pc # "idle" => Document(h) \in Docs
  BY DEF Wired, HandlersWired, JobsWired, Document
<1> USE DEF HandlerRecord, DocumentRecord, postgres, OnlyHandler, Pending
<1>1. ASSUME NEW r \in Requests, RequestStep(r) PROVE Same
  <2>1. UNCHANGED <<rows, points, handler>>
    BY <1>1 DEF RequestStep, StoreObject, StoreFails, CommitUpload, CommitNewJob,
         PublishJob, PublishFails, MarkPublishFailed, RequestDatabaseError
  <2>2. Indexing
    BY <1>1, <1>t DEF RequestStep, StoreObject, StoreFails, CommitUpload, CommitNewJob,
         PublishJob, PublishFails, MarkPublishFailed, RequestDatabaseError, SetDocument
  <2>3. QED
    BY <2>1, <2>2
\* A handler that moves without writing anything.
<1>2. ASSUME NEW h \in Handlers, NEW pc, Goto(h, pc), Pending(h) => pc = "rollback",
             UNCHANGED <<documents, rows, points>>
      PROVE  Same
  BY <1>2, <1>t DEF Goto
<1>3. ASSUME NEW h \in Handlers, Rollback(h) PROVE Same
  BY <1>3, <1>t DEF Rollback, Abort
<1>4. ASSUME NEW h \in Handlers, Settle(h) PROVE Same
  BY <1>4, <1>t DEF Settle, Free
<1>5. ASSUME NEW h \in Handlers, MarkRunning(h) PROVE Same
  BY <1>5, <1>t DEF MarkRunning
<1>6. ASSUME NEW h \in Handlers, ReplaceChunks(h) PROVE Same
  BY <1>6, <1>t DEF ReplaceChunks
<1>7. ASSUME NEW h \in Handlers, MarkFailed(h) PROVE Same
  <2>1. documents' = [documents EXCEPT ![Document(h)].status = "failed"]
    BY <1>7 DEF MarkFailed, SetDocument
  <2>2. Document(h) \in Docs
    BY <1>7, <1>d DEF MarkFailed
  <2>3. documents'[Document(h)].status # "indexed" /\ Indexing
    BY <2>1, <2>2, <1>t
  <2>4. \A o \in Handlers \ {h} : handler'[o] = handler[o]
    BY <1>7, <1>t DEF MarkFailed, Goto
  <2>5. UNCHANGED <<rows, points>>
    BY <1>7 DEF MarkFailed
  <2>6. QED
    BY <2>3, <2>4, <2>5
<1>8. ASSUME NEW h \in Handlers, HandlerStep(h)
      PROVE  Same \/ UpsertPoints(h) \/ MarkCompleted(h)
  BY <1>8, <1>2, <1>3, <1>4, <1>5, <1>6, <1>7 DEF HandlerStep, FindJob, WaitForRows,
     RestrictedByCitation, NoChunks, ProcessingFails, CalledAt, HandlerDatabaseError
<1>9. ASSUME NEW h \in Handlers, NEW j \in Jobs, Deliver(h, j) PROVE Same
  BY <1>9, <1>t DEF Deliver
<1>10. ASSUME NEW h \in Handlers, ConnectionLost(h) PROVE Same
  BY <1>10, <1>t DEF ConnectionLost
<1>11. ASSUME NEW a \in Answers, Cite(a) PROVE Same
  BY <1>11 DEF Cite
<1>12. ASSUME UserStep PROVE Same
  <2>1. UNCHANGED <<rows, points, handler>>
    BY <1>12 DEF UserStep, BeginUpload, RetryJob, ReindexDocument, Requeue, DeleteDocument,
         LoadEvidence
  <2>2. Indexing
    BY <1>12, <1>t DEF UserStep, BeginUpload, RetryJob, ReindexDocument, Requeue,
         DeleteDocument, LoadEvidence
  <2>3. QED
    BY <2>1, <2>2
<1>13. ASSUME FaultStep PROVE Same
  BY <1>13, <1>10, <1>t DEF FaultStep, RequestCrash, HandlerCrash
<1> QED
  BY <1>1, <1>8, <1>9, <1>11, <1>12, <1>13 DEF Same, Next, Rest, vars

LEMMA SearchableStep ==
  ASSUME TypeOK, Wired, Chunks, IndexedIsSearchable, [Next]_vars
  PROVE  IndexedIsSearchable'
<1> SUFFICES ASSUME Undisturbed', NEW d \in Docs, documents'[d].status = "indexed"
             PROVE  /\ rows'[d] # None
                    /\ \/ points'[d] = rows'[d]
                       \/ \E h \in Handlers : /\ Pending(h)'
                                              /\ Document(h)' = d
                                              /\ points'[d] = Generation(h)'
  BY DEF IndexedIsSearchable, Pending
<1>u. Undisturbed /\ UNCHANGED crashes /\ "database" \notin Unreliable
  BY CrashesCounted DEF Undisturbed
<1>i. documents[d].status = "indexed" =>
        /\ rows[d] # None
        /\ \/ points[d] = rows[d]
           \/ \E h \in Handlers : Pending(h) /\ Document(h) = d /\ points[d] = Generation(h)
  BY <1>u DEF IndexedIsSearchable, Pending
<1>d. \A h \in Handlers : handler[h].pc # "idle" /\ handler'[h].job = handler[h].job =>
        Document(h)' = Document(h) /\ Document(h) \in Docs
  BY DocumentKept
<1>t. /\ handler \in [Handlers -> HandlerRecord]
      /\ documents \in [Docs -> DocumentRecord]
      /\ rows \in [Docs -> Generations \cup {None}]
      /\ points \in [Docs -> Generations \cup {None}]
      /\ None \notin Generations
  BY IngestionAssumption DEF TypeOK, Generations
<1>1. CASE /\ UNCHANGED <<rows, points>>
           /\ \A e \in Docs :
                documents'[e].status = "indexed" => documents[e].status = "indexed"
           /\ \A h \in Handlers : Pending(h) =>
                \/ /\ Pending(h)'
                   /\ handler'[h].job = handler[h].job
                   /\ handler'[h].attempt = handler[h].attempt
                \/ documents'[Document(h)].status # "indexed"
  BY <1>1, <1>i, <1>d DEF Generation, Pending
<1> DEFINE Goal == /\ rows'[d] # None
                   /\ \/ points'[d] = rows'[d]
                      \/ \E h \in Handlers : /\ Pending(h)'
                                             /\ Document(h)' = d
                                             /\ points'[d] = Generation(h)'
<1>2. ASSUME NEW h \in Handlers, UpsertPoints(h) PROVE Goal
  <2>1. /\ points' = [points EXCEPT ![Document(h)] = Generation(h)]
        /\ UNCHANGED <<rows, documents>>
    BY <1>2 DEF UpsertPoints, postgres
  <2>2. /\ handler[h].pc = "upsert" /\ handler'[h].pc \in {"complete", "rollback"}
        /\ handler'[h].job = handler[h].job /\ handler'[h].attempt = handler[h].attempt
        /\ \A o \in Handlers \ {h} : handler'[o] = handler[o]
    BY <1>2, <1>t DEF UpsertPoints, Goto, HandlerRecord
  <2>3. CASE Document(h) = d
    BY <2>1, <2>2, <2>3, <1>i, <1>d, <1>t DEF Generation, Pending
  <2>4. CASE Document(h) # d
    <3>1. points'[d] = points[d]
      BY <2>1, <2>4, <1>t
    <3>2. ASSUME NEW o \in Handlers, Pending(o)
          PROVE  Pending(o)' /\ Document(o)' = Document(o) /\ Generation(o)' = Generation(o)
      <4>1. o # h
        BY <3>2, <2>2 DEF Pending
      <4>2. QED
        BY <3>2, <4>1, <2>2, <1>d DEF Pending, Generation
    <3>3. QED
      BY <2>1, <3>1, <3>2, <1>i
  <2> QED
    BY <2>3, <2>4
<1>3. ASSUME NEW h \in Handlers, MarkCompleted(h) PROVE Goal
  <2>1. /\ rows' = [rows EXCEPT ![Document(h)] = Generation(h)]
        /\ documents' = [documents EXCEPT ![Document(h)].status = "indexed"]
        /\ UNCHANGED points
        /\ handler[h].pc = "complete"
    BY <1>3 DEF MarkCompleted, SetDocument
  <2>2. points[Document(h)] = Generation(h) /\ Generation(h) \in Generations
    BY <2>1, <1>t DEF Chunks, PointsWritten, Generation, Generations, HandlerRecord, Wired,
         HandlersWired
  <2>3. CASE Document(h) = d
    BY <2>1, <2>2, <2>3, <1>t
  <2>4. CASE Document(h) # d
    <3>1. rows'[d] = rows[d] /\ documents[d].status = "indexed"
      BY <2>1, <2>4, <1>t
    <3>2. ASSUME NEW o \in Handlers, Pending(o), o # h
          PROVE  Pending(o)' /\ Document(o)' = Document(o) /\ Generation(o)' = Generation(o)
      <4>1. /\ handler'[o].job = handler[o].job
            /\ handler'[o].attempt = handler[o].attempt
            /\ handler'[o].pc \in {handler[o].pc, "rollback"}
        BY <1>3, <3>2, <1>t DEF MarkCompleted, AfterCommit, HandlerRecord
      <4>2. QED
        BY <3>2, <4>1, <1>d DEF Pending, Generation
    <3>3. QED
      BY <2>1, <2>4, <3>1, <3>2, <1>i
  <2> QED
    BY <2>3, <2>4
<1> QED
  BY <1>1, <1>2, <1>3, <1>u, PendingKept DEF Goal

\* Until something crashes or the database fails, an indexed document has rows and
\* its points in Qdrant were made from them, whichever failures of Qdrant, the
\* embedding provider or the object store the runs before met and however many
\* handlers work on the document.
THEOREM IndexedSearchable == Spec => []IndexedIsSearchable
<1>1. Init => IndexedIsSearchable
  BY DEF Init, IndexedIsSearchable, NoDocument
<1>2. TypeOK /\ Wired /\ Chunks /\ IndexedIsSearchable /\ [Next]_vars => IndexedIsSearchable'
  BY SearchableStep
<1> QED
  BY <1>1, <1>2, Typed, ChunksInvariant, PTL DEF Spec

=============================================================================
