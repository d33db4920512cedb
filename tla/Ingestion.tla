----------------------------- MODULE Ingestion -----------------------------
(***************************************************************************)
(* The document pipeline of Grounded: the ingestion service (its HTTP       *)
(* handlers are requests), the RabbitMQ queue, the embedding worker (its    *)
(* message handlers), and the three stores they share: Postgres, the object *)
(* store and the Qdrant collection.  A question that cites a document is    *)
(* present only as far as it touches the chunk rows.                        *)
(*                                                                          *)
(* A document always has exactly one version (create_version writes version *)
(* 1 and nothing writes another), so a version is identified with its       *)
(* document.  replace_chunks gives every chunk a fresh id, so the chunks one *)
(* processing run writes are one value, its generation: the job and the     *)
(* attempt that wrote it.  A point of Qdrant names the chunk id it was made *)
(* from, so the points of a document carry a generation too.                *)
(***************************************************************************)
EXTENDS Integers, FiniteSets

CONSTANTS
    Tenants,         \* tenants whose users upload documents
    Contents,        \* document contents, one per checksum
    BlankContents,   \* the contents the chunker finds no chunk in
    Docs,            \* identities of documents, never reused
    Jobs,            \* identities of ingestion jobs, never reused
    Requests,        \* requests the API serves at the same time
    Handlers,        \* message handlers that run at the same time
    Answers,         \* questions being answered at the same time
    Unreliable,      \* the dependencies whose calls may fail
    MaxCrashes,      \* bound on process crashes
    MaxDrops,        \* bound on broker connections lost under a handler
    None

Dependencies == {"storage", "database", "broker", "embedding", "qdrant"}

ASSUME IngestionAssumption ==
    /\ BlankContents \subseteq Contents
    /\ Unreliable \subseteq Dependencies
    /\ MaxCrashes \in Nat
    /\ MaxDrops \in Nat
    /\ None \notin Tenants \cup Contents \cup Docs \cup Jobs
    /\ None \notin Jobs \X Nat

VARIABLES
    documents,   \* table Document joined with its DocumentVersion
    jobs,        \* table IngestionJob
    rows,        \* table DocumentChunk: the committed generation per document
    cited,       \* table Citation: the generations whose rows are referenced
    objects,     \* the documents whose text is in the object store
    points,      \* Qdrant: the generation of the points of a document
    queue,       \* jobs with a message waiting in the broker
    request,     \* the API handlers
    handler,     \* the worker's message handlers
    answer,      \* the generation an answer has loaded as its evidence
    crashes,     \* process crashes so far
    drops        \* broker connections lost so far

postgres == <<documents, jobs, rows, cited>>
vars == <<documents, jobs, rows, cited, objects, points, queue, request,
          handler, answer, crashes, drops>>

-----------------------------------------------------------------------------
Generations == Jobs \X Nat

DocumentStatus == {"none", "queued", "indexed", "failed", "deleted"}
JobStatus == {"none", "queued", "running", "completed", "failed"}

NoDocument ==
    [status |-> "none", tenant |-> None, content |-> None, deleted |-> FALSE]
NoJob == [status |-> "none", doc |-> None, tenant |-> None, attempts |-> 0]

\* Where an API handler stands between two of its awaits.
RequestPc == {"idle", "store", "insert", "requeue", "publish", "publish_failed"}
\* Where a message handler stands; "blocked" waits for the row locks of another
\* handler's transaction.
HandlerPc == {"idle", "find", "mark", "load", "blocked", "upsert", "complete",
              "rollback", "mark_failed", "settle"}

IdleRequest ==
    [pc |-> "idle", tenant |-> None, content |-> None, doc |-> None, job |-> None]
IdleHandler ==
    [pc |-> "idle", job |-> None, attempt |-> 0, tx |-> FALSE, held |-> FALSE]

DocumentRecord ==
    [status : DocumentStatus, tenant : Tenants \cup {None},
     content : Contents \cup {None}, deleted : BOOLEAN]
JobRecord ==
    [status : JobStatus, doc : Docs \cup {None}, tenant : Tenants \cup {None},
     attempts : Nat]
RequestRecord ==
    [pc : RequestPc, tenant : Tenants \cup {None}, content : Contents \cup {None},
     doc : Docs \cup {None}, job : Jobs \cup {None}]
HandlerRecord ==
    [pc : HandlerPc, job : Jobs \cup {None}, attempt : Nat, tx : BOOLEAN,
     held : BOOLEAN]

Document(h) == jobs[handler[h].job].doc
Generation(h) == <<handler[h].job, handler[h].attempt>>

\* Another handler has uncommitted chunk rows of d.
LockedByOther(h, d) ==
    \E o \in Handlers \ {h} : handler[o].tx /\ Document(o) = d

\* Where a caller whose COMMIT took effect goes on: when the database is
\* unreliable it may see an error although the transaction is durable.
AfterCommit(answered, failed) ==
    {answered} \cup (IF "database" \in Unreliable THEN {failed} ELSE {})

TypeOK ==
    /\ documents \in [Docs -> DocumentRecord]
    /\ jobs \in [Jobs -> JobRecord]
    /\ rows \in [Docs -> Generations \cup {None}]
    /\ cited \subseteq Generations
    /\ objects \subseteq Docs
    /\ points \in [Docs -> Generations \cup {None}]
    /\ queue \subseteq Jobs
    /\ request \in [Requests -> RequestRecord]
    /\ handler \in [Handlers -> HandlerRecord]
    /\ answer \in [Answers -> Generations \cup {None}]
    /\ crashes \in Nat
    /\ drops \in Nat

Init ==
    /\ documents = [d \in Docs |-> NoDocument]
    /\ jobs = [j \in Jobs |-> NoJob]
    /\ rows = [d \in Docs |-> None]
    /\ cited = {}
    /\ objects = {}
    /\ points = [d \in Docs |-> None]
    /\ queue = {}
    /\ request = [r \in Requests |-> IdleRequest]
    /\ handler = [h \in Handlers |-> IdleHandler]
    /\ answer = [a \in Answers |-> None]
    /\ crashes = 0
    /\ drops = 0

-----------------------------------------------------------------------------
\* The UPDATE statements on a status column, and the moves of a handler.
SetJob(j, status) == jobs' = [jobs EXCEPT ![j].status = status]
SetDocument(d, status) == documents' = [documents EXCEPT ![d].status = status]

Proceed(r, pc) == request' = [request EXCEPT ![r].pc = pc]
Return(r) == request' = [request EXCEPT ![r] = IdleRequest]

Goto(h, pc) == handler' = [handler EXCEPT ![h].pc = pc]
\* The handler's session ends its transaction without a commit.
Abort(h, pc) == handler' = [handler EXCEPT ![h].pc = pc, ![h].tx = FALSE]
Free(h) == handler' = [handler EXCEPT ![h] = IdleHandler]

(***************************************************************************)
(* Uploading: DocumentService.create_document.                             *)
(***************************************************************************)

\* find_document_by_checksum.
HasDuplicate(t, c) ==
    \E d \in Docs : /\ documents[d].tenant = t
                    /\ documents[d].content = c
                    /\ ~documents[d].deleted

\* An identity no committed document, pending upload or stored object has.
Fresh(d) ==
    /\ documents[d].status = "none"
    /\ d \notin objects
    /\ \A r \in Requests : request[r].doc # d

\* The identity the handler will give its job.
FreshJob(j) ==
    /\ jobs[j].status = "none"
    /\ \A r \in Requests : request[r].job # j

BeginUpload(r, t, c) ==
    /\ request[r].pc = "idle"
    /\ ~HasDuplicate(t, c)
    /\ \E d \in Docs, j \in Jobs :
         /\ Fresh(d)
         /\ FreshJob(j)
         /\ request' = [request EXCEPT ![r] =
              [pc |-> "store", tenant |-> t, content |-> c, doc |-> d, job |-> j]]
    /\ UNCHANGED <<postgres, objects, points, queue, handler, answer, crashes, drops>>

StoreObject(r) ==
    /\ request[r].pc = "store"
    /\ objects' = objects \cup {request[r].doc}
    /\ Proceed(r, "insert")
    /\ UNCHANGED <<postgres, points, queue, handler, answer, crashes, drops>>

\* Mutant of StoreFails: the exception of put_text is swallowed.
StoreFailureIgnored(r) ==
    /\ request[r].pc = "store"
    /\ "storage" \in Unreliable
    /\ Proceed(r, "insert")
    /\ UNCHANGED <<postgres, objects, points, queue, handler, answer, crashes, drops>>

\* put_text raises, possibly after the object was written: the transaction is
\* rolled back, the object stays.
StoreFails(r) ==
    /\ request[r].pc = "store"
    /\ "storage" \in Unreliable
    /\ objects' \in {objects, objects \cup {request[r].doc}}
    /\ Return(r)
    /\ UNCHANGED <<postgres, points, queue, handler, answer, crashes, drops>>

\* Mutant of NewJob: a status that is not in the enum of the schema.
NewJobPending(t, d) == [status |-> "pending", doc |-> d, tenant |-> t, attempts |-> 0]

\* The row a new job starts with.
NewJob(t, d) == [status |-> "queued", doc |-> d, tenant |-> t, attempts |-> 0]

CommitUpload(r) ==
    LET q == request[r] IN
    /\ q.pc = "insert"
    /\ jobs' = [jobs EXCEPT ![q.job] = NewJob(q.tenant, q.doc)]
    /\ Proceed(r, "publish") \/ ("database" \in Unreliable /\ Return(r))
    /\ documents' = [documents EXCEPT ![q.doc] =
         [status |-> "queued", tenant |-> q.tenant, content |-> q.content,
          deleted |-> FALSE]]
    /\ UNCHANGED <<rows, cited, objects, points, queue, handler, answer, crashes, drops>>

(***************************************************************************)
(* Retrying and re-indexing.                                               *)
(***************************************************************************)

\* Mutant of Visible: the tenant is missing from the WHERE clause.
VisibleToAll(t, d) ==
    /\ documents[d].status # "none"
    /\ ~documents[d].deleted

\* find_document.
Visible(t, d) ==
    /\ documents[d].status # "none"
    /\ documents[d].tenant = t
    /\ ~documents[d].deleted

\* The reads and checks of retry_job and of reindex_document end in the same
\* place: a new job for the document is about to be written.
Requeue(r, t, d) ==
    /\ \E j \in Jobs :
         /\ FreshJob(j)
         /\ request' = [request EXCEPT ![r] =
              [pc |-> "requeue", tenant |-> t, content |-> None, doc |-> d, job |-> j]]
    /\ UNCHANGED <<postgres, objects, points, queue, handler, answer, crashes, drops>>

RetryJob(r, t, d, j) ==
    /\ request[r].pc = "idle"
    /\ Visible(t, d)
    /\ jobs[j].doc = d
    /\ jobs[j].tenant = t
    /\ jobs[j].status = "failed"
    /\ Requeue(r, t, d)

ReindexDocument(r, t, d) ==
    /\ request[r].pc = "idle"
    /\ Visible(t, d)
    /\ Requeue(r, t, d)

\* create_retry_job or create_reindex_job, and the commit.
CommitNewJob(r) ==
    LET q == request[r] IN
    /\ q.pc = "requeue"
    /\ jobs' = [jobs EXCEPT ![q.job] = NewJob(q.tenant, q.doc)]
    /\ Proceed(r, "publish") \/ ("database" \in Unreliable /\ Return(r))
    /\ IF documents[q.doc].deleted THEN UNCHANGED documents ELSE SetDocument(q.doc, "queued")
    /\ UNCHANGED <<rows, cited, objects, points, queue, handler, answer, crashes, drops>>

(***************************************************************************)
(* Publishing, which follows the commit of an upload, retry or re-index.   *)
(***************************************************************************)

PublishJob(r) ==
    /\ request[r].pc = "publish"
    /\ queue' = queue \cup {request[r].job}
    /\ Return(r)
    /\ UNCHANGED <<postgres, objects, points, handler, answer, crashes, drops>>

\* The publisher sees an exception; the broker may have the message anyway.
PublishFails(r) ==
    /\ request[r].pc = "publish"
    /\ "broker" \in Unreliable
    /\ queue' \in {queue, queue \cup {request[r].job}}
    /\ Proceed(r, "publish_failed")
    /\ UNCHANGED <<postgres, objects, points, handler, answer, crashes, drops>>

\* Mutant of MarkPublishFailed: only the document is marked.
MarkPublishFailedOnDocument(r) ==
    /\ request[r].pc = "publish_failed"
    /\ SetDocument(request[r].doc, "failed")
    /\ Return(r)
    /\ UNCHANGED <<jobs, rows, cited, objects, points, queue, handler, answer, crashes, drops>>

\* Mutant of MarkPublishFailed: only the job is marked.
MarkPublishFailedOnJob(r) ==
    /\ request[r].pc = "publish_failed"
    /\ SetJob(request[r].job, "failed")
    /\ Return(r)
    /\ UNCHANGED <<documents, rows, cited, objects, points, queue, handler, answer, crashes, drops>>

MarkPublishFailed(r) ==
    /\ request[r].pc = "publish_failed"
    /\ SetJob(request[r].job, "failed")
    /\ SetDocument(request[r].doc, "failed")
    /\ Return(r)
    /\ UNCHANGED <<rows, cited, objects, points, queue, handler, answer, crashes, drops>>

\* A statement fails and the transaction is lost.
RequestDatabaseError(r) ==
    /\ "database" \in Unreliable
    /\ request[r].pc \in {"insert", "requeue", "publish_failed"}
    /\ Return(r)
    /\ UNCHANGED <<postgres, objects, points, queue, handler, answer, crashes, drops>>

DeleteDocument(t, d) ==
    /\ Visible(t, d)
    /\ documents' = [documents EXCEPT ![d].status = "deleted", ![d].deleted = TRUE]
    /\ UNCHANGED <<jobs, rows, cited, objects, points, queue, request, handler,
                   answer, crashes, drops>>

RequestCrash(r) ==
    /\ crashes < MaxCrashes
    /\ request[r].pc # "idle"
    /\ crashes' = crashes + 1
    /\ Return(r)
    /\ UNCHANGED <<postgres, objects, points, queue, handler, answer, drops>>

-----------------------------------------------------------------------------
(***************************************************************************)
(* The embedding worker: EmbeddingWorker.handle_message around             *)
(* IngestionJobProcessor.process.                                          *)
(***************************************************************************)

\* What a handler leaves alone when it only moves on.
OnlyHandler ==
    UNCHANGED <<postgres, objects, points, queue, request, answer, crashes, drops>>

\* The broker hands a message to a consumer that has none (prefetch_count=1).
Deliver(h, j) ==
    /\ handler[h].pc = "idle"
    /\ j \in queue
    /\ queue' = queue \ {j}
    /\ handler' = [handler EXCEPT ![h] =
         [pc |-> "find", job |-> j, attempt |-> 0, tx |-> FALSE, held |-> TRUE]]
    /\ UNCHANGED <<postgres, objects, points, request, answer, crashes, drops>>

\* The job statuses process goes on with.
Processable == {"queued", "failed"}

FindJob(h) ==
    /\ handler[h].pc = "find"
    /\ Goto(h, IF jobs[handler[h].job].status \in Processable THEN "mark" ELSE "settle")
    /\ OnlyHandler

MarkRunning(h) ==
    LET j == handler[h].job IN
    /\ handler[h].pc = "mark"
    /\ jobs' = [jobs EXCEPT ![j].status = "running", ![j].attempts = @ + 1]
    /\ \E pc \in AfterCommit("load", "settle") :
         handler' = [handler EXCEPT ![h].pc = pc, ![h].attempt = jobs[j].attempts + 1]
    /\ UNCHANGED <<documents, rows, cited, objects, points, queue, request, answer,
                   crashes, drops>>

\* The text is there and the chunker finds a chunk in it.
HasChunks(d) == d \in objects /\ documents[d].content \notin BlankContents

\* Mutant of Restricted: the foreign key does not restrict.
RestrictedNever(d) == FALSE

\* Citation.chunkId references DocumentChunk ON DELETE RESTRICT.
Restricted(d) == rows[d] \in cited

\* DELETE the old chunk rows, INSERT the new ones; the transaction stays open.
ReplaceChunks(h) ==
    LET d == Document(h) IN
    /\ handler[h].pc \in {"load", "blocked"}
    /\ HasChunks(d)
    /\ ~LockedByOther(h, d)
    /\ ~Restricted(d)
    /\ handler' = [handler EXCEPT ![h].pc = "upsert", ![h].tx = TRUE]
    /\ OnlyHandler

\* The DELETE or the first INSERT meets rows another transaction holds.
WaitForRows(h) ==
    /\ handler[h].pc = "load"
    /\ HasChunks(Document(h))
    /\ LockedByOther(h, Document(h))
    /\ Goto(h, "blocked")
    /\ OnlyHandler

\* The DELETE is refused because an answer cites a row.
RestrictedByCitation(h) ==
    /\ handler[h].pc \in {"load", "blocked"}
    /\ HasChunks(Document(h))
    /\ ~LockedByOther(h, Document(h))
    /\ Restricted(Document(h))
    /\ Goto(h, "rollback")
    /\ OnlyHandler

NoChunks(h) ==
    /\ handler[h].pc = "load"
    /\ ~HasChunks(Document(h))
    /\ Goto(h, "rollback")
    /\ OnlyHandler

\* The dependencies that a handler calls at pc inside the try block.
CalledAt(pc) ==
    CASE pc = "load"     -> {"storage", "database"}
      [] pc = "blocked"  -> {"database"}
      [] pc = "upsert"   -> {"embedding", "qdrant"}
      [] pc = "complete" -> {"database"}
      [] OTHER           -> {}

ProcessingFails(h) ==
    /\ CalledAt(handler[h].pc) \cap Unreliable # {}
    /\ Goto(h, "rollback")
    /\ OnlyHandler

\* The points replace those of the same chunk indexes; the call may apply them
\* and still raise.
UpsertPoints(h) ==
    /\ handler[h].pc = "upsert"
    /\ points' = [points EXCEPT ![Document(h)] = Generation(h)]
    /\ \E pc \in {"complete"} \cup (IF "qdrant" \in Unreliable THEN {"rollback"} ELSE {}) :
         Goto(h, pc)
    /\ UNCHANGED <<postgres, objects, queue, request, answer, crashes, drops>>

\* The handlers whose INSERT waits for h's rows: they violate the unique index
\* of (documentVersionId, chunkIndex) once h commits.
Waiting(h) ==
    {o \in Handlers : handler[o].pc = "blocked" /\ Document(o) = Document(h)}

MarkCompleted(h) ==
    LET j == handler[h].job IN
    LET d == Document(h) IN
    /\ handler[h].pc = "complete"
    /\ SetJob(j, "completed")
    /\ SetDocument(d, "indexed")
    /\ rows' = [rows EXCEPT ![d] = Generation(h)]
    /\ \E pc \in AfterCommit("settle", "rollback") :
         handler' = [o \in Handlers |->
           IF o = h THEN [handler[h] EXCEPT !.pc = pc, !.tx = FALSE]
           ELSE IF o \in Waiting(h) THEN [handler[o] EXCEPT !.pc = "rollback"]
           ELSE handler[o]]
    /\ UNCHANGED <<cited, objects, points, queue, request, answer, crashes, drops>>

Rollback(h) ==
    /\ handler[h].pc = "rollback"
    /\ Abort(h, "mark_failed")
    /\ OnlyHandler

\* Mutant of MarkFailed: the commit that follows mark_failed is missing.
MarkFailedUncommitted(h) ==
    /\ handler[h].pc = "mark_failed"
    /\ Goto(h, "settle")
    /\ OnlyHandler

\* Mutant of MarkFailed: mark_failed is called without the document.
MarkFailedOnJob(h) ==
    /\ handler[h].pc = "mark_failed"
    /\ SetJob(handler[h].job, "failed")
    /\ Goto(h, "settle")
    /\ UNCHANGED <<documents, rows, cited, objects, points, queue, request, answer, crashes, drops>>

\* Mutant of MarkFailed: the chunk rows of the document are deleted.
MarkFailedClears(h) ==
    /\ handler[h].pc = "mark_failed"
    /\ SetJob(handler[h].job, "failed")
    /\ SetDocument(Document(h), "failed")
    /\ rows' = [rows EXCEPT ![Document(h)] = None]
    /\ Goto(h, "settle")
    /\ UNCHANGED <<cited, objects, points, queue, request, answer, crashes, drops>>

MarkFailed(h) ==
    /\ handler[h].pc = "mark_failed"
    /\ SetJob(handler[h].job, "failed")
    /\ SetDocument(Document(h), "failed")
    /\ Goto(h, "settle")
    /\ UNCHANGED <<rows, cited, objects, points, queue, request, answer, crashes, drops>>

\* A statement outside the try block, or inside the except block, raises.
HandlerDatabaseError(h) ==
    /\ "database" \in Unreliable
    /\ handler[h].pc \in {"find", "mark", "rollback", "mark_failed"}
    /\ Abort(h, "settle")
    /\ OnlyHandler

\* Mutant of Settle: message.process(requeue=True).
SettleRequeues(h) ==
    /\ handler[h].pc = "settle"
    /\ queue' = IF handler[h].held /\ jobs[handler[h].job].status = "failed"
                   THEN queue \cup {handler[h].job} ELSE queue
    /\ Free(h)
    /\ UNCHANGED <<postgres, objects, points, request, answer, crashes, drops>>

\* message.process(requeue=False): an ack, or a reject that drops the message.
\* It reaches the broker only on the connection that delivered the message, and
\* either way the message does not come back.
Settle(h) ==
    /\ handler[h].pc = "settle"
    /\ Free(h)
    /\ OnlyHandler

\* The broker gives up the connection and redelivers; the coroutine goes on.
ConnectionLost(h) ==
    /\ drops < MaxDrops
    /\ handler[h].held
    /\ drops' = drops + 1
    /\ queue' = queue \cup {handler[h].job}
    /\ handler' = [handler EXCEPT ![h].held = FALSE]
    /\ UNCHANGED <<postgres, objects, points, request, answer, crashes>>

\* The process dies: its transaction is rolled back by Postgres, its
\* unacknowledged message is redelivered.
HandlerCrash(h) ==
    /\ crashes < MaxCrashes
    /\ handler[h].pc # "idle"
    /\ crashes' = crashes + 1
    /\ queue' = IF handler[h].held THEN queue \cup {handler[h].job} ELSE queue
    /\ Free(h)
    /\ UNCHANGED <<postgres, objects, points, request, answer, drops>>

-----------------------------------------------------------------------------
(***************************************************************************)
(* Answering a question from one document: RetrievalService.answer.        *)
(***************************************************************************)

\* The hit's chunk id has a row and the document is not deleted.
Evidence(d) ==
    /\ rows[d] # None
    /\ points[d] = rows[d]
    /\ ~documents[d].deleted

LoadEvidence(a, d) ==
    /\ answer[a] = None
    /\ Evidence(d)
    /\ answer' = [answer EXCEPT ![a] = rows[d]]
    /\ UNCHANGED <<postgres, objects, points, queue, request, handler, crashes, drops>>

\* The INSERT of the citation checks the foreign key; while a transaction holds
\* the deleted row it waits for its outcome.
Cite(a) ==
    LET g == answer[a] IN
    /\ g # None
    /\ LET d == jobs[g[1]].doc IN
         /\ ~\E h \in Handlers : handler[h].tx /\ Document(h) = d
         /\ cited' = IF rows[d] = g THEN cited \cup {g} ELSE cited
    /\ answer' = [answer EXCEPT ![a] = None]
    /\ UNCHANGED <<documents, jobs, rows, objects, points, queue, request, handler,
                   crashes, drops>>

-----------------------------------------------------------------------------
RequestStep(r) ==
    \/ StoreObject(r)
    \/ StoreFails(r)
    \/ CommitUpload(r)
    \/ CommitNewJob(r)
    \/ PublishJob(r)
    \/ PublishFails(r)
    \/ MarkPublishFailed(r)
    \/ RequestDatabaseError(r)

HandlerStep(h) ==
    \/ FindJob(h)
    \/ MarkRunning(h)
    \/ ReplaceChunks(h)
    \/ WaitForRows(h)
    \/ RestrictedByCitation(h)
    \/ NoChunks(h)
    \/ ProcessingFails(h)
    \/ UpsertPoints(h)
    \/ MarkCompleted(h)
    \/ Rollback(h)
    \/ MarkFailed(h)
    \/ HandlerDatabaseError(h)
    \/ Settle(h)

\* What users ask for.
UserStep ==
    \/ \E r \in Requests, t \in Tenants, c \in Contents : BeginUpload(r, t, c)
    \/ \E r \in Requests, t \in Tenants, d \in Docs, j \in Jobs : RetryJob(r, t, d, j)
    \/ \E r \in Requests, t \in Tenants, d \in Docs : ReindexDocument(r, t, d)
    \/ \E t \in Tenants, d \in Docs : DeleteDocument(t, d)
    \/ \E a \in Answers, d \in Docs : LoadEvidence(a, d)

\* Crashes and lost connections.
FaultStep ==
    \/ \E r \in Requests : RequestCrash(r)
    \/ \E h \in Handlers : HandlerCrash(h) \/ ConnectionLost(h)

\* Nothing is in flight: the system waits for its users.
Quiescent ==
    /\ queue = {}
    /\ \A r \in Requests : request[r].pc = "idle"
    /\ \A h \in Handlers : handler[h].pc = "idle"
    /\ \A a \in Answers : answer[a] = None

Rest == Quiescent /\ UNCHANGED vars

Next ==
    \/ \E r \in Requests : RequestStep(r)
    \/ \E h \in Handlers : HandlerStep(h)
    \/ \E h \in Handlers, j \in Jobs : Deliver(h, j)
    \/ \E a \in Answers : Cite(a)
    \/ UserStep
    \/ FaultStep
    \/ Rest

\* A request or handler that can go on does so; the broker delivers to an idle
\* consumer; an answer that has its evidence is written.  Users and faults owe
\* nothing.
Fairness ==
    /\ \A r \in Requests : WF_vars(RequestStep(r))
    /\ \A h \in Handlers : WF_vars(HandlerStep(h))
    /\ \A h \in Handlers : WF_vars(\E j \in Jobs : Deliver(h, j))
    /\ \A a \in Answers : WF_vars(Cite(a))

Spec == Init /\ [][Next]_vars /\ Fairness

-----------------------------------------------------------------------------
(***************************************************************************)
(* Properties.                                                             *)
(***************************************************************************)

\* Neither a crash nor a failing database has interrupted anything.
Undisturbed == crashes = 0 /\ "database" \notin Unreliable

WaitingForWorker(j) ==
    \/ j \in queue
    \/ \E r \in Requests : request[r].job = j /\ request[r].pc \in {"publish", "publish_failed"}
    \/ \E h \in Handlers : handler[h].job = j /\ handler[h].pc \in {"find", "mark"}

Working(h) ==
    handler[h].pc \in {"load", "blocked", "upsert", "complete", "rollback", "mark_failed"}

\* As long as nothing crashes and the database answers, no job is abandoned: a
\* queued job still has its message, its publisher or a handler that will start
\* it, a running job has a handler that will end it.  Lost broker connections
\* and failing publishes do not break this.
NoOrphanedJob ==
    Undisturbed => \A j \in Jobs :
        /\ jobs[j].status = "queued" => WaitingForWorker(j)
        /\ jobs[j].status = "running" =>
             \E h \in Handlers : handler[h].job = j /\ Working(h)

\* Qdrant and Postgres agree on an indexed document: its points were made from
\* the committed rows, unless a handler that overwrote them is about to commit
\* its own rows or to mark the document failed.
IndexedIsSearchable ==
    Undisturbed => \A d \in Docs : documents[d].status = "indexed" =>
        /\ rows[d] # None
        /\ \/ points[d] = rows[d]
           \/ \E h \in Handlers : /\ handler[h].pc \in {"complete", "rollback", "mark_failed"}
                                  /\ Document(h) = d
                                  /\ points[d] = Generation(h)

\* An answer's citations always lead to rows that exist: no processing run
\* replaces the rows of a document an answer cites, however the citation and
\* the replacement interleave.
CitedRowsExist == cited \subseteq {rows[d] : d \in Docs}

\* A document that was committed has its text in the object store, so that
\* every later retry and re-index finds it.
CommittedIsStored ==
    \A d \in Docs : documents[d].status # "none" => d \in objects

\* A job works for the tenant that owns its document, and the chunk rows of a
\* document were written by a job of that tenant, however retries, re-indexes and
\* processing runs interleave.
TenantIsolation ==
    /\ \A j \in Jobs : jobs[j].status # "none" => documents[jobs[j].doc].tenant = jobs[j].tenant
    /\ \A d \in Docs : rows[d] # None => jobs[rows[d][1]].tenant = documents[d].tenant

\* A failed document that nothing works on can be retried: the retry endpoint
\* takes a failed job, and there is one.
FailedIsRetryable ==
    (Undisturbed /\ Quiescent) => \A d \in Docs :
        (documents[d].status = "failed" /\ ~documents[d].deleted) =>
            \E j \in Jobs : jobs[j].doc = d /\ jobs[j].status = "failed"

\* A document's status can be explained by its jobs and rows at any time, across
\* crashes, lost transactions and redeliveries: one that is shown queued has a
\* job that has not ended, one that is shown indexed has chunk rows, one that is
\* shown failed has a job that failed or is being tried again.
StatusIsExplained ==
    \A d \in Docs :
        LET HasJob(S) == \E j \in Jobs : jobs[j].doc = d /\ jobs[j].status \in S IN
        /\ documents[d].status = "queued" => HasJob({"queued", "running"})
        /\ documents[d].status = "indexed" => rows[d] # None
        /\ documents[d].status = "failed" => HasJob({"failed", "running"})

\* A job is started once, and once more per redelivery: a worker's failure does
\* not bring the message back by itself.
StartedOncePerDelivery ==
    \A j \in Jobs : jobs[j].attempts <= 1 + drops + crashes

\* What readers see of the pipeline.
ReadersView ==
    INSTANCE Corpus WITH
        Editions <- Generations,
        status <- [d \in Docs |-> documents[d].status],
        removed <- {d \in Docs : documents[d].deleted},
        shelf <- rows,
        cited <- cited

\* The pipeline implements the corpus: whatever its requests, handlers, deliveries,
\* transactions and faults do in whatever order, readers see editions replaced in
\* one piece and with the status, failures that leave the old edition where it is,
\* and cited editions that stay.
ImplementsCorpus == ReadersView!Spec

\* Every job that was committed ends, and with it every document leaves the
\* state the user interface polls on.
JobsSettle ==
    /\ \A j \in Jobs :
        jobs[j].status \in {"queued", "running"} ~> jobs[j].status \in {"completed", "failed"}
    /\ \A d \in Docs : documents[d].status = "queued" ~> documents[d].status # "queued"

-----------------------------------------------------------------------------
(***************************************************************************)
(* What the documentation says of the pipeline and the code does not do:   *)
(* a run finds the counterexample.                                         *)
(***************************************************************************)

\* README.md:34: "Re-indexing is a first-class workflow": when no dependency
\* fails, no job does.
NoJobFails == \A j \in Jobs : jobs[j].status # "failed"

=============================================================================
