# Grounded in TLA+

Grounded is a multi-tenant question-answering platform: users upload documents,
a worker cuts them into chunks and indexes them in a vector store, and questions
are answered from the chunks, with citations that lead back to them. This
directory holds TLA+ models of its program logic, the TLC configurations that
check them on small instances, and TLAPS proofs of what matters most. Every
definition translates code under `src/`; `PROJECT.json` maps each one to its
lines.

## 1. Inventory

### 1.1 Parts and how they interact

```
browser -> web BFF (Next.js) -> gateway (Rust) -> auth service      -> Postgres
                                               -> ingestion service -> Postgres, MinIO, RabbitMQ
                                               -> retrieval service -> Postgres, Qdrant
                                  RabbitMQ -> embedding worker      -> Postgres, MinIO, Qdrant
```

| part | state it keeps | operations | talks to |
| --- | --- | --- | --- |
| ingestion service (`services/ingestion`) | none of its own between requests; tables Document, DocumentVersion, IngestionJob | upload, list, get, list jobs, retry a job, re-index, soft delete | Postgres, MinIO (`put_text`), RabbitMQ (`publish_job`) |
| job queue (RabbitMQ) | durable messages that name a job | deliver, ack, reject, redeliver | external |
| embedding worker (`services/embedding`) | one message at a time per process; tables IngestionJob, DocumentChunk | `handle_message`, `process` | all stores |
| chunker (`embedding/app/chunking.py`) | a loop over the text | `split` | - |
| Qdrant | points that carry a chunk id | upsert, search | external |
| retrieval service (`services/retrieval`) | tables ChatSession, Message, Citation, UsageLedger | answer a question | Postgres, Qdrant, answer provider |
| auth service (`services/auth`) | tables User, UserSession, RefreshToken, UserEmailVerification, PasswordResetToken, AuthRateLimit, Tenant, Membership | register, verify, login, refresh, logout, revoke, reset and change a password, tenants | Postgres |
| web BFF (`apps/web/lib`) | two cookies in the browser | proxy a call, refresh on 401, log in, log out | gateway |
| web workspace (`apps/web/components/Workspace.tsx`) | React state | load, poll every 2.5 s, upload, retry, delete | web BFF |
| gateway (`apps/gateway`) | none | forward with a timeout of 3 s | services |

### 1.2 What is hard about each, and what must hold

*Ingestion service and worker.* An upload touches the object store, commits two
tables and then publishes; nothing ties the publish to the commit. A failing
publish is compensated by marking the job failed, although the broker may have
the message. The worker checks a job's status in one statement and changes it
in another, so a redelivered message can start a job that is already running.
Chunk rows and the job's status are committed together, but the Qdrant points
are overwritten before that commit. Citations hold chunk rows through a foreign
key, and a new processing run deletes them. What must hold: no job is abandoned,
jobs end, statuses can be explained, indexed documents can be searched, answers
keep their sources, documents keep their text, tenants stay apart.

*Retrieval.* The vector search returns a fixed number of points, and some of
them may lead to deleted documents or replaced rows. An answer is computed from
rows read earlier, and its message, citations and usage are one transaction,
which takes row locks in another order than the transaction that replaces rows.
What must hold: an answer is stored with all its citations or not at all, they
lead to rows that exist, in the caller's tenant and his own chat; a question is
refused only for a reason; the two transactions do not hold each other up.

*Auth.* A refresh reads the token in one statement and rotates it in another;
revocation is two UPDATEs; the password is checked before the session is
inserted; rate limits are read, incremented and written; accounts are looked up
by lower-case address but unique as they are spelled. What must hold: a token
whose reuse was noticed ends its family, a revoked session stays dead, one reset
and one verification token work at a time, an address has one account and an
account is complete, limits limit up to the attempts they cannot count, and a
session is of the tenant its user registered with.

*Web.* The tabs of a browser share two cookies and may refresh at the same time;
a reply that is lost leaves the browser with a used token; the gateway gives a
call up that the service goes on with. What must hold: a refresh cookie works
unless one of these things happened to its session, and a logout is final.

*Chunker.* The loop's step is the larger of two expressions, so that it ends for
any size and overlap. What must hold: no phrase within the overlap is cut apart, no
character is lost, chunks do not repeat, the loop ends.

The hazards, each at its line, are listed in `PROJECT.json`.

## 2. The modules

| module | models | checked by | proofs |
| --- | --- | --- | --- |
| `Corpus` | what the pipeline promises to readers (abstract) | through `Ingestion` | `IngestionStatusProofs` |
| `Ingestion` | ingestion service, queue, embedding worker, the three stores, citations as far as they touch chunk rows; implements `Corpus` | `MCIngestion` | `IngestionProofs`, `IngestionStatusProofs` |
| `Chunker` | `TextChunker.split`, one iteration per step | `MCChunker` | `ChunkerProofs` |
| `Retrieval` | answering a question, against indexing and deletion | `MCRetrieval` | `RetrievalProofs` |
| `AuthSessions` | sessions, refresh tokens and password resets of one account | `MCAuthSessions` | `AuthSessionsProofs` |
| `WebSession` | browser, cookies, BFF and the gateway's timeout, composed with `AuthSessions` | `MCWebSession` | `WebSessionProofs` |
| `RateLimit` | `RateLimitService`: attempts, windows, locks | `MCRateLimit` | `RateLimitProofs` |
| `Registration` | accounts, verification, tenants, memberships, the tenant of a session | `MCRegistration` | `RegistrationProofs` |

`WebSession` extends `AuthSessions` and takes its actions as they are.
`Ingestion` and `Corpus` are joined by `ReadersView`, an INSTANCE with a
refinement mapping. `Retrieval` and `Ingestion` look at the same two
transactions from two sides: `Ingestion` has everything around a processing run
and two runs of one document, `Retrieval` everything around an answer and the
locks row by row.

A module that is checked also contains the "Mutant of ..." operators of its
definitions: each is a bug that this code could plausibly have and that the
property named in `PROJECT.json` catches in its run.

### 2.1 `Ingestion` and `Corpus`

*State.* `documents`, `jobs`, `rows` and `cited` are committed rows of Postgres;
`objects` is the bucket, `points` the Qdrant collection, `queue` the broker. A
request (`request[r]`) and a message handler (`handler[h]`) carry a program
counter that names the await they are about to run and what they hold in local
variables; `handler[h].tx` says that the handler has an open transaction with
row locks. `answer[a]` is what a question has loaded before it writes citations.

*Actions.* An action is what happens between two awaits of a handler. Uploading
is `BeginUpload` (duplicate check), `StoreObject` (`put_text`), `CommitUpload`,
then `PublishJob`, or `PublishFails` and `MarkPublishFailed`; `retry_job` and
`reindex_document` join at `CommitNewJob`. The worker runs `Deliver`, `FindJob`,
`MarkRunning` (it commits), `ReplaceChunks` (rows written, not committed),
`UpsertPoints`, `MarkCompleted` (the commit); the `except` branch is `Rollback`
and `MarkFailed`; `Settle` ends `message.process(requeue=False)`.
`HandlerCrash`, `RequestCrash` and `ConnectionLost` are the environment.

*What is abstracted.* A document has one version in this code, so the two are
one record. All chunk rows a processing run writes get new ids and are
committed together, so they are one value, the pair of job and attempt; points
carry the same pair because a point's payload names the chunk id. The queue is a
set: every job is published once, so two messages for one job are only a
redelivered one and its original. A delivered message leaves the set and comes
back if its connection is lost. Postgres locks appear where they decide
something: an INSERT that meets another transaction's uncommitted chunk rows
waits (`WaitForRows`) and then violates the unique index, the DELETE is refused
by the citations' foreign key, the INSERT of a citation waits for a
transaction that holds the row. The DELETE locks are taken as one here
(`Retrieval` takes them one by one). "The database is unreliable" covers
failing statements and a commit whose reply is lost (`AfterCommit`).

*The abstract specification.* `Corpus` is what readers see: a document has a
status and at most one edition on the shelf; an edition goes up in one piece
together with the status indexed and replaces one that nobody cites; a failure
leaves the shelf as it is; a cited edition stays. The mapping reads the status
and the deletion off `documents`, the shelf is `rows`, and jobs, messages,
handlers, points and objects disappear.

*Runs.*

| run | instance | what it shows |
| --- | --- | --- |
| `ingestion_faults` | 2 tenants, 1 document, 3 jobs, 2 handlers, 1 answer, all dependencies but the database fail at will, 1 lost connection | no job is orphaned, an indexed document can be searched, citations keep their rows, a failed document can be retried, a document's jobs and chunk rows are of the tenant that owns it |
| `ingestion_crash` | 2 contents (one blank), 2 jobs, 2 handlers, 1 crash, 1 lost connection, all dependencies fail | the text of a document is stored, statuses can be explained, one start per delivery, and `Ingestion` implements `Corpus` |
| `ingestion_liveness` | 2 jobs, 2 handlers, 1 lost connection, failing store, broker and Qdrant | every job ends and no document stays queued |
| `worker_crash` (violated) | 1 job, 1 crash | a worker that dies after `mark_running` leaves the job running for ever |
| `cited_reindex` (violated) | no faults at all | re-indexing a document that an answer cites fails, and so does every retry |

Three jobs are an upload, a re-index and a retry, or an upload and two of
either, on the same document; two handlers are enough for every pair of
conflicting processing runs, and a third could only wait behind the same lock. The liveness run has no answers:
a citation can make a re-index fail, which ends its job as well.
Documents share no row, so one is enough: a tenant that does not own it is the
other tenant.

*Fairness* is needed by `JobsSettle` only. A request or handler that can go on
does (asyncio runs ready tasks), the broker delivers to an idle consumer, an
answer is written. Weak fairness is per request and per handler, over the
disjunction of its steps: which of success and failure happens stays open. Users
owe nothing, and neither do faults. `worker_crash` states the same liveness
under the same fairness and one crash, and fails.

`Undisturbed` (no crash so far, reliable database) guards the properties that a
crash breaks: a worker that dies between the upsert and its commit leaves points
that name rows that do not exist, a redelivered message can mark a completed job
failed when its connection is lost between the check and the start, and nothing
repairs either. `StatusIsExplained`, `CommittedIsStored`, `TenantIsolation`,
`StartedOncePerDelivery` and the refinement hold without the guard.

### 2.2 `Chunker`

The loop of `split` with its variables `start`, `index`, `chunks`; `Cut` is one
iteration, `LeaveLoop` the failing loop condition, `done` the return. A text is a
sequence of "word" and "blank", because only whether a slice strips to nothing
matters; the settings are those `validate_provider_config` accepts.
`PhrasesStayWhole` is what the overlap is for: a stretch of at most overlap + 1
characters with something in it lies in one chunk, wherever it stands, and
(length one) no character is lost. The run `chunker` covers every text of up to
8 characters, every size up to 5 and every overlap below it: sizes above, equal
to and below the length, and all the boundaries of the step
`max(end - overlap, start + 1)`. Its fairness is that the loop goes on.

### 2.3 `Retrieval`

*State.* `rows`, `points`, `deleted` describe the documents as a question meets
them: the run whose chunk rows are committed, the run whose points Qdrant holds,
the soft deletion. `index[d]` is the transaction of a processing run with the
rows its DELETE has reached, `question[q]` a request with what it holds,
`chats` and `saved` the tables an answer is written to. A chunk is a triple of
document, part and run.

*Actions.* `Ask` is the search: any `Limit` points of the tenant, since scores
are arbitrary. `Load` is `load_chunks` and the refusal without evidence.
`WriteMessages` opens the transaction with the caller's chat or a new one,
`Cite` and `CiteFails` are one `create_citation`, `Commit`, `Rollback` the end.
On the other side `StartRun`, `DeleteRow` (one row per step: this is where
locks are taken in another order), `ReplaceRows`, `Upsert`, `CommitRun`.
`DeleteDocument` is the soft deletion, which looks at nothing but whether the
document is deleted already: it comes before a document's first run, while one is
under way, or after it, and a run goes on regardless.
`BreakDeadlock` is Postgres: in a minimal circle of waiting transactions one is
aborted.

*Runs.* `retrieval` has two documents of two parts, three callers of two
tenants, two chats, two questions, a limit of two and two runs per document, and
everything may fail: a document fills the search result by itself, two questions
share a chat or a circle, a run replaces rows another cites.
`retrieval_liveness` has one question and two documents, enough for a circle
through a question and a document, and shows `TransactionsEnd`: every question
gets its answer, refusal or error and every processing run ends. Fairness is weak: a question goes
on, a run goes on, and Postgres looks for deadlocks (`deadlock_timeout`). Nobody
has to ask, and failures are not owed.

`RefusedForAReason` names the weakness of the fixed search limit: deleted
documents keep their points, or get them after the deletion from a run that was
under way, so that enough of them hide evidence that is there.
The property says that this, an overtaking change, and the lack of evidence are
all the reasons there are.

### 2.4 `AuthSessions`

*State.* `sessions`, `tokens`, `resets` are committed rows; `reported` the
sessions with an audit event `refresh_reuse_detected`; `request[r]` is a
transaction in progress with what it has read.

*Actions.* At READ COMMITTED an operation reads, later writes, and its writes
appear with its commit; every operation is therefore at least two actions.
`BeginRefresh` is the SELECT and the decision, `Rotate` and `RevokeFamily` are
the two ways to commit. `revoke_all_sessions` is two UPDATEs that see different
committed rows: `MatchSessions` is the first, `CommitRevocation` the second and
the commit. Row locks matter in three places: the row of the rate limit is
locked from `enforce` to the commit, so that of one account one login and one
forgot_password are past it at a time (`SubjectLocked`), and of one address one
reset (`AddressLocked`); `update_password` holds the user's row
(`PasswordRowLocked`). Other locks only delay a statement until the other
transaction's commit, after which it finds the same rows; a deadlock between
them rolls one back, which `Abort` covers.

*What is abstracted.* Accounts do not meet, so there is one. A login creates its
own family, so a session stands for its family. A refresh token expires no
earlier than its session, whose expiry is fixed at login, so expiry is the
session's. Passwords are right or wrong. Token hashes, JWTs and audit rows other
than the reported reuse are left out.

*Run.* `auth_sessions`: two sessions, three tokens (a login and two
refreshes, or two logins and one), two resets, two requests, two
addresses, one rolled back transaction. Two requests make every pair of
operations interleave; the properties relate two steps of two requests, and a
third request adds no new pair. The module states safety only.

What READ COMMITTED lets through is in the model and in no property: two
overlapping refreshes of one token both succeed (`OneTokenUnlessSpoiled` of
`WebSession` names this case), a login between the two UPDATEs of a logout-all
gets a session whose token is revoked, a login that checked the
old password may commit after the reset, and one reset token can be used from
two addresses at once.

### 2.5 `WebSession`

*State.* `jar` are the two cookies all tabs share, `fetch[f]` a fetch in
progress with the cookies it carries, what it got and what its reply will do to
the cookies; `spoiled` and `out` record history for the properties.

*Actions.* `proxyPrivate` is `Send` (refresh first if there is no access cookie),
`AskRefresh`, `Refreshed` or `NotRefreshed`, `Call`, `CallUnauthorized` (the
second refresh, after a 401), `Throw`; the login and logout routes are
`SendLogin` ... `LogoutFails`. Each one that reaches the auth service is
conjoined with the action of `AuthSessions` it causes, and a fetch shares its
identity with its request there, since it makes one call at a time.
`RefreshTimesOut` and the third case of `LogoutFails` are the gateway's three
seconds: the web server goes on, and `FinishAlone` lets the auth service commit
what nobody waits for. `Receive` applies a reply whenever it arrives, `Leave` is
a tab that has gone, `ExpireAccess` the cookie's max-age.

*Run.* `web_session`: two fetches, two sessions, three tokens, one rolled back
transaction: two tabs, of which one may log out and in again while the other
refreshes. Password resets are left out. Only safety is stated, since a user
need not send anything. `SignedInUnlessSpoiled` is about the refresh cookie that is
in the browser: if no fetch carries it, the auth service accepts it, unless its
session was logged out of or is `spoiled`. A session is spoiled by a fetch that is
sent with a token another fetch has presented, or presents one another fetch may
still present (`Send`, `AskRefresh`), by a refresh or a logout that the gateway gives
up while the auth service is at it (`RefreshTimesOut`, `LogoutFails`), and by a tab
that leaves or a web server that fails with the next token in hand (`Leave`,
`Throw`). It does not say that cookies stay: a fetch whose second refresh fails, for
whatever reason, clears them, even those of a login that came in between.

### 2.6 `RateLimit`

An attempt takes the time once, then for each key reads the row (`FindLock`,
`Find`) and writes what it makes of it (`Save`, which waits for the row's lock),
and holds the rows until `Fail`, `Succeed` or `Abort`; `Refuse` commits the lock
at once. `Abort` rolls an attempt back before it has passed its limits, `Undo`
afterwards: a registration whose slug is taken takes the rows of its limits back
with it. `tally` is history: for the window of each key, how many attempts got past
the limit, whatever became of them (`past`), and how many of them the row does not
count (`missed`), because they were rolled back or committed between another
attempt's read and its write. What an attempt in flight has read goes with the tally
of that moment (`before`) and with those that have overtaken it since (`behind`).
Both ways to lose a count are in the model; `LimitHolds` says that the attempts past
a limit exceed it by no more than those, `LocksAreKept` and `WindowsAreApart` that
only a write over a row that had not been read lifts a lock or moves a window early.
The run `rate_limit` has two addresses with a limit of two, one subject with a
limit of one, two concurrent attempts, a window and a lockout of two ticks, and
a clock that runs from one to three (`MaxTime`): windows and lockouts begin and run
out, and the next window begins. `MaxMissed` is one: an attempt is undone only while
the rows it holds miss none, and an overtaken one may be missed besides. The proofs
need neither bound.

### 2.7 `Registration`

A request is one transaction whose statements are steps where another one can
come between: `BeginRegister` (limit and lookup), `InsertUser`, `InsertTenant`
(also of create_tenant), `FinishRegister`; `BeginVerify`, `Verify`;
`BeginResend`, `Resend`; `BeginLogin`, `ReadTenants`, `OpenSession`;
`BeginWorkspace`, `JoinWorkspace`. `SubjectFree` is the locked row of the rate limit.
A login reads its user's tenants in one step and commits its session in a later one,
and the list is in the order of `createdAt`, which Postgres sets to the time the
transaction began: `older` keeps, for a tenant, those of the user that were begun
before it (`Begun`), committed or not, so that workspaces may commit in another order
than they are listed in. `home`, the tenant of the registration, is history. The run
`registration` has three requests, two spellings of one address and another
address, two users, three tenants and two slugs, three tokens and two sessions:
two registrations of one address in two spellings meet each other, a renewal and
a sign-in. Expiry is an action, since its time is open.

## 3. What is proved

The proofs are for every value of the constants: any number of tenants,
documents, jobs, requests, handlers, texts, settings, sessions, tokens, limits
and questions, and any choice of failing dependencies. The only assumptions are the named ASSUMEs
of the modules, which TLC evaluates on every run, for `StartedOnce` that there
are finitely many handlers, and for `DeadlocksAreSeen` that there are finitely
many questions and that a question is not a document. Every invariant and every
action property of the passing runs is proved; what the runs add is liveness.

| theorem | property |
| --- | --- |
| `IngestionProofs!TypeCorrect` | `TypeOK` |
| `IngestionProofs!NoJobOrphaned` | `NoOrphanedJob` |
| `IngestionProofs!CitationsResolve` | `CitedRowsExist` |
| `IngestionProofs!IndexedSearchable` | `IndexedIsSearchable` |
| `IngestionStatusProofs!RefinesCorpus` | `ImplementsCorpus` (a refinement) |
| `IngestionStatusProofs!StoredCorrect` | `CommittedIsStored` |
| `IngestionStatusProofs!TenantsIsolated` | `TenantIsolation` |
| `IngestionStatusProofs!StatusExplained` | `StatusIsExplained` |
| `IngestionStatusProofs!FailedRetryable` | `FailedIsRetryable` |
| `IngestionStatusProofs!StartedOnce` | `StartedOncePerDelivery` |
| `ChunkerProofs!TypeCorrect` | `TypeOK` |
| `ChunkerProofs!NoPhraseIsCut` | `PhrasesStayWhole` |
| `ChunkerProofs!NoChunkRepeats` | `ChunksAdvance` |
| `ChunkerProofs!LoopStrides` | an iteration but the last moves `start` by size - overlap (an action property) |
| `ChunkerProofs!ChunksAreFew` | never more chunks than characters |
| `RetrievalProofs!TypeCorrect` | `TypeOK` |
| `RetrievalProofs!CitationsCorrect` | `CitationsResolve` |
| `RetrievalProofs!AnswersCited` | `AnswersAreCited` |
| `RetrievalProofs!AnswersInTenant` | `AnswersStayInTenant` |
| `RetrievalProofs!DeletedUnused` | `DeletedStaysUnused` |
| `RetrievalProofs!RefusalsCorrect` | `RefusedForAReason` (an action property) |
| `RetrievalProofs!DeadlocksAreSeen` | a step to take or a circle to break while a transaction is open |
| `AuthSessionsProofs!TypeCorrect` | `TypeOK` |
| `AuthSessionsProofs!ReuseIsFinal` | `ReuseEndsFamily` |
| `AuthSessionsProofs!DeadStayDead` | `DeadSessionsStayDead` (an action property) |
| `AuthSessionsProofs!OneResetAtATime` | `OneLiveReset` |
| `WebSessionProofs!WebImplementsAuth` | `WebSession` refines `AuthSessions` |
| `WebSessionProofs!WebTypeCorrect` | `WebTypeOK` |
| `WebSessionProofs!SignedInCorrect` | `SignedInUnlessSpoiled` |
| `WebSessionProofs!OneTokenCorrect` | `OneTokenUnlessSpoiled` |
| `WebSessionProofs!LogoutFinal` | `LogoutSticks` |
| `RateLimitProofs!TypeCorrect` | `TypeOK` |
| `RateLimitProofs!LimitCorrect` | `LimitHolds` |
| `RateLimitProofs!LocksCorrect` | `LocksAreKept` (an action property) |
| `RateLimitProofs!WindowsCorrect` | `WindowsAreApart` (an action property) |
| `RegistrationProofs!TypeCorrect` | `TypeOK` |
| `RegistrationProofs!AddressesCorrect` | `OneAccountPerAddress` |
| `RegistrationProofs!AccountsCorrect` | `AccountsComeWhole` |
| `RegistrationProofs!VerificationsCorrect` | `OneLiveVerification` |
| `RegistrationProofs!SessionsVerified` | `SessionsAreVerified` |
| `RegistrationProofs!SessionsHome` | `SessionsStayHome` |

*Ingestion.* Types are not inductive alone: that a handler's job is a job, and
that a committed job has its document, is `Wired`, proved together with
`TypeOK`. `NoOrphanedJob` adds that each job separately is attended
(`Attended`): whoever takes a message, publishes or commits hands the job to the
next. `CitedRowsExist` needs the invariant `Chunks`: rows belong to a job of
their document, only one handler has a document's rows locked, and a handler
with locked rows found them uncited, so that neither its commit nor a waiting
citation can break a reference. `IndexedIsSearchable` follows from `Chunks` and
from the handler that wrote the points still holding its lock.

*Corpus.* A step of the pipeline must be a step of the abstract specification or
leave its variables alone (`ViewStep`, one case per action). Beyond `Chunks` this
needs that the document of a job in anybody's hands is there
(`DocumentsThere`), or a late failure could add a document; and that the
generation a handler will commit is not on the shelf already
(`EditionsApart`), or replacing would be no step of `Index`: attempts of a job
only grow and two handlers that hold the same job have different attempts.

*Status.* `CommittedIsStored` and `TenantIsolation` carry what the requests hold
between their statements (`Stored`, `Tenancy`). `StatusIsExplained` is inductive
with the locks. `FailedIsRetryable` is then no invariant of its own: at rest, a
failed document has a job that failed or runs, and a running one would have a
handler. `StartedOncePerDelivery` needs a count: the request that publishes a
job, its message and each handler that has the message and has not started the
job stand for one start each, and they and the starts that happened stay within
one plus the faults (`StartsPaid`).

*Chunker.* `Reach` is how far the text is covered: after an iteration that does
not end the loop, start + overlap. A phrase that ends behind it starts no more
than overlap + 1 before its end, hence not before `start`, and the next slice
holds it. `Progress` says that chunks start before `start` and end by the reach.
`LoopStrides` and `ChunksAreFew` are the part of `Terminates` that the prover
reaches: every iteration but the last makes the same progress of at least one
character, and `start` stays within the text (`Strides`, `Sparse`).

*Retrieval.* `Asked` says that a question holds chunks of its caller's tenant
that were not deleted when it searched, `OwnChat` that the chat it writes to is
its caller's or nobody else's. A written citation pins its row (`Pinned`), a run
past the DELETE holds all rows of its document and none of them is cited
(`Cleared`); either excludes the other, which keeps the citations of `Kept`
answers. `CalmHits` says that a calm question holds the best points of now, so
that its refusal is about the documents of now. `DeadlocksAreSeen` is the part
of `TransactionsEnd` that the prover reaches. A transaction with no step of its
own (`GoesOn`, the guards of its actions) waits for another one that is open,
because only open transactions hold rows (`LocksInRuns`, `Asked`); if all of
them do, the open transactions are stuck, and a smallest stuck set of them, which
is there because they are finitely many (`StuckHasCircle`), is a circle that
`BreakDeadlock` breaks.

*AuthSessions.* `Safe` is `TypeOK` with `Wired` (a request that inserts has rows
nobody has, one that presents a token has a row with a session), `Apart` (two
requests never insert the same row) and `Rows` (the session of a token is there,
an absent session has not expired, a reported session is revoked). Reuse
is then final because refresh looks at the session, not only at the token, which
a rotation in flight may insert unrevoked. For `OneLiveReset`, `Mail` adds that
one forgot_password is past the rate limit's row at a time and that what its
UPDATE matched still contains every token that is out when it inserts.

*WebSession.* The proof first takes the auth service over as it is: every step
is a step of `AuthSessions` or leaves its tables alone (`ServiceStep`), so
`Safe` holds without being proved again, and the composition implements
`AuthSessions` (`WebImplementsAuth`; its corollary `WebKeepsAuth` carries
`ReuseEndsFamily` and `DeadSessionsStayDead` over). `WebInv` adds four things.
`Asking` and `Held` tie a fetch that waits to the request it waits for, and what
it carries to rows that are there: a token given to a fetch is of the session of
the token it was exchanged for. `Ended` keeps what was logged out of revoked,
from which `LogoutSticks` follows. For a session that is not spoiled,
`OneCurrent` says that one of its tokens is unused and that one request at most
is exchanging it. For one that is not logged out of either, `Kept` says that
nothing has ended it or is about to (`Open`), that a token a fetch was given is
unused, in nobody else's hands and on its way to the cookies (`Granted`), that a
token a fetch may still present is unused and presented by no other (`Fresh`),
and that the refresh cookie is unused unless a fetch has exchanged it
(`CookieCurrent`). None of these is inductive alone: the old cookie in the jar is
harmless only while the fetch with its successor is under way, that fetch may
call again only because its token is `Granted`, and the steps that would break
one of them are those that spoil: `Send` and `AskRefresh` with a token that
another fetch presents or may present, `RefreshTimesOut`, `Throw`, `Leave` and a
logout that is given up.

*RateLimit.* A row covers a tally if the attempts past the limit, without those it
misses, are no more than its attempts and no more than the limit (`Covered`). That
holds of the committed rows (`Counted`), of those an attempt has read, with the
tally of that moment (`SeenCounted`), and of those it has written once it has got
past its limits itself (`WrittenCounted`); a row with more attempts than the limit is
written with a lock and lets nobody past. `LimitHolds` is the half of `Counted` about
the limit. A write that is not stale still follows the committed row when it commits
(`WrittenFresh`), because one attempt holds a row at a time (`OneHolder`) and time
does not run back (`Past`); from this come the two action properties.

*Registration.* The tables (`Sound`) are safe because of what the requests in
progress hold (`Reserved`): identities of their own, an address that no account
has and no other registration registers, tokens that no other renewal renews.
`Homes` says that the tenant of the registration is older than every other tenant of
its user, and `KnowsHome` the same of those in the making; it is therefore the one
that a login reads (`FirstIsHome`), whatever commits before its session does.

*Model-checked only.* Liveness (`JobsSettle`, `TransactionsEnd`, `Terminates`):
proofs under fairness need ENABLED, which is out of the prover's reach. What is
safety in them is proved: `NoOrphanedJob` (a job that has not ended has someone
to end it), `DeadlocksAreSeen`, `LoopStrides`. That a sequence of such steps is
finite stays with TLC.

## 4. Findings

Each is a violated run with a line of the repository that says otherwise;
`PROJECT.json` quotes them.

1. A worker that dies while it processes leaves its job running and its document
   queued for ever; the message is skipped and the retry endpoint refuses the job.
2. A document that an answer has cited cannot be re-indexed.

Seen while modelling, and shown by no run: `docs/api-contracts.md:97` has a
registration create the user, the tenant, the owner's membership and a bearer token
in one transaction. `register` (`services/auth/app/services.py:111-137`) creates no
token: it mails a verification token, and the first session is a login's. That is
what `docs/auth-security.md:144` (AAC-001) wants, so the documents disagree with each
other and the code follows the second. `AccountsComeWhole` and `SessionsAreVerified`
are stated for the code as it is: account, tenant, membership and mail come together,
and no session comes before the verification.

## 5. What is not modelled

- Answer texts, embeddings, scores, HTML: data or rendering no property depends
  on. Which points are the best is left open instead.
- Hashing, JWT encoding and the decoding of tokens: an access token is its
  session, a refresh token its row.
- Read-only endpoints (lists, counts, status, the audit trail): they change no
  state.
- The routes of the gateway and `proxyPublic`: they keep nothing and pass on
  requests; the gateway's timeout is in `WebSession`.
- What the workspace page shows, its polling and its form state.
- Two uploads of one content that both pass the duplicate check: two documents
  with one checksum are allowed by the schema, and no document or comment says
  otherwise of concurrent uploads.
- Scripts, migrations and infrastructure.
