----------------------------- MODULE Retrieval -----------------------------
(***************************************************************************)
(* The retrieval service answering questions while documents are indexed    *)
(* and deleted: one question is one RetrievalService.answer, from the       *)
(* vector search to the transaction that writes the chat, the messages, the *)
(* citations and the usage.                                                 *)
(*                                                                          *)
(* Here the transactions of an answer and of a processing run meet at the   *)
(* rows: the INSERT of a citation locks its chunk row, the DELETE of        *)
(* replace_chunks locks a document's rows one after another, and Postgres   *)
(* breaks a deadlock of the two.  (What surrounds a processing run, and two *)
(* runs of one document, are Ingestion's.)                                  *)
(*                                                                          *)
(* The documents are there from the beginning, without chunk rows until     *)
(* their first run commits; a document may be deleted before, during and    *)
(* after any of its runs, and a run goes on with a deleted document.        *)
(*                                                                          *)
(* A chunk is <<document, part, run>>: the text never changes, so every run *)
(* yields the same parts, under the same point ids and with fresh row ids.  *)
(* The order of the hits, of the citations and of the deleted rows is left  *)
(* open: scores and the physical order of rows are arbitrary.               *)
(***************************************************************************)
EXTENDS Integers, FiniteSets

CONSTANTS
    Docs,        \* documents
    Owner,       \* the tenant of a document
    Parts,       \* the chunk indexes of a document
    Callers,     \* a caller is a user with the tenant of his access token
    TenantOf,    \* the tenant of a caller
    Chats,       \* identities of ChatSession rows
    Questions,   \* requests to /questions
    Limit,       \* the setting retrieval_limit
    MaxRuns,     \* bound on the processing runs of a document
    Unreliable,  \* whether providers, Qdrant and the database may fail
    None

ASSUME RetrievalAssumption ==
    /\ Parts # {} /\ IsFiniteSet(Parts) /\ IsFiniteSet(Docs)
    /\ Limit \in Nat \ {0}
    /\ MaxRuns \in Nat
    /\ Unreliable \in BOOLEAN
    /\ DOMAIN Owner = Docs
    /\ DOMAIN TenantOf = Callers
    /\ None \notin Callers \cup Chats

VARIABLES
    rows,        \* the run that wrote the committed chunk rows, 0 if there are none
    points,      \* the run whose points are in Qdrant, 0 if there are none
    deleted,     \* the documents with a deletedAt
    runs,        \* processing runs of a document so far
    index,       \* the transaction of the document's processing run
    question,    \* the questions
    chats,       \* table ChatSession: the caller a chat belongs to
    saved        \* tables Message, Citation and UsageLedger: the answers

documents == <<rows, points, deleted, runs, index>>
vars == <<rows, points, deleted, runs, index, question, chats, saved>>

-----------------------------------------------------------------------------
Chunks == Docs \X Parts \X Nat
ChunksOf(d, n) == {<<d, p, n>> : p \in Parts}

IndexPc == {"idle", "delete", "upsert", "commit"}
QuestionPc == {"new", "load", "answer", "cite", "rollback",
               "answered", "refused", "failed"}

NotIndexing == [pc |-> "idle", held |-> {}]
NotAsked ==
    [pc |-> "new", caller |-> None, chat |-> None, chunks |-> {},
     cites |-> {}, gone |-> {}, calm |-> FALSE]
NoAnswer == [chat |-> None, caller |-> None, sources |-> {}, cites |-> {}, gone |-> {}]

IndexRecord == [pc : IndexPc, held : SUBSET Parts]
\* chunks are the hits of the search, then the evidence; cites the citations that
\* are written but not committed; gone the documents of the hits deleted before the
\* question; calm says that the tenant's documents have not changed since the search.
QuestionRecord ==
    [pc : QuestionPc, caller : Callers \cup {None},
     chat : Chats \cup {None}, chunks : SUBSET Chunks, cites : SUBSET Chunks,
     gone : SUBSET Docs, calm : BOOLEAN]
AnswerRecord ==
    [chat : Chats \cup {None}, caller : Callers \cup {None}, sources : SUBSET Chunks,
     cites : SUBSET Chunks, gone : SUBSET Docs]

TypeOK ==
    /\ rows \in [Docs -> Nat]
    /\ points \in [Docs -> Nat]
    /\ deleted \subseteq Docs
    /\ runs \in [Docs -> Nat]
    /\ index \in [Docs -> IndexRecord]
    /\ question \in [Questions -> QuestionRecord]
    /\ chats \in [Chats -> Callers \cup {None}]
    /\ saved \in [Questions -> AnswerRecord]

Init ==
    /\ rows = [d \in Docs |-> 0]
    /\ points = [d \in Docs |-> 0]
    /\ deleted = {}
    /\ runs = [d \in Docs |-> 0]
    /\ index = [d \in Docs |-> NotIndexing]
    /\ question = [q \in Questions |-> NotAsked]
    /\ chats = [c \in Chats |-> None]
    /\ saved = [q \in Questions |-> NoAnswer]

-----------------------------------------------------------------------------
Goto(q, pc) == question' = [question EXCEPT ![q].pc = pc]
\* The request ends; with it its transaction and the locks of its citations.
EndAs(q, pc) == question' = [question EXCEPT ![q] = [NotAsked EXCEPT !.pc = pc]]

Tenant(q) == TenantOf[question[q].caller]

\* The row of the chunk is committed and not replaced.
HasRow(c) == rows[c[1]] = c[3]
\* A processing run has deleted the row and not committed.
Held(c) == HasRow(c) /\ c[2] \in index[c[1]].held
\* A citation of the row is written and not committed.
Pending(c) == \E q \in Questions : c \in question[q].cites
\* Mutant of Cited: the foreign key does not restrict.
CitedNever(c) == FALSE

\* A citation of the row is committed.
Cited(c) == \E q \in Questions : c \in saved[q].cites

\* The points a search of the tenant ranks.
PointsOf(t) ==
    UNION {ChunksOf(d, points[d]) : d \in {e \in Docs : Owner[e] = t /\ points[e] # 0}}

\* Mutant of Loadable: deletedAt is missing from the WHERE clause.
LoadableDeleted(t, c) == HasRow(c) /\ Owner[c[1]] = t

\* What load_chunks returns of the hits.
Loadable(t, c) == HasRow(c) /\ Owner[c[1]] = t /\ c[1] \notin deleted

\* Questions of the tenant that have searched are no longer calm.
Disturb(t) ==
    question' = [q \in Questions |->
        IF question[q].pc = "load" /\ Tenant(q) = t
          THEN [question[q] EXCEPT !.calm = FALSE] ELSE question[q]]

(***************************************************************************)
(* Answering: RetrievalService.answer.                                     *)
(***************************************************************************)

\* Mutant of TopHits: a search that fails is taken for one without hits.
TopHitsOrNone(H, P) ==
    /\ H \subseteq P
    /\ \/ Cardinality(H) = Limit
       \/ H = P /\ Cardinality(P) < Limit
       \/ Unreliable /\ H = {}

\* The best points of the tenant, as many as the limit admits.
TopHits(H, P) ==
    /\ H \subseteq P
    /\ \/ Cardinality(H) = Limit
       \/ H = P /\ Cardinality(P) < Limit

\* A question arrives and its vector is searched for.
Ask(q, u) ==
    /\ question[q].pc = "new"
    /\ \E H \in SUBSET PointsOf(TenantOf[u]) :
         /\ TopHits(H, PointsOf(TenantOf[u]))
         /\ question' = [question EXCEPT ![q] =
              [NotAsked EXCEPT !.pc = "load", !.caller = u, !.chunks = H,
                 !.gone = {c[1] : c \in H} \cap deleted, !.calm = TRUE]]
    /\ UNCHANGED <<documents, chats, saved>>

\* load_chunks and the join of its rows with the hits.
Load(q) ==
    /\ question[q].pc = "load"
    /\ LET evidence == {c \in question[q].chunks : Loadable(Tenant(q), c)} IN
         IF evidence = {} THEN EndAs(q, "refused")
         ELSE question' = [question EXCEPT ![q].pc = "answer", ![q].chunks = evidence,
                                           ![q].calm = FALSE]
    /\ UNCHANGED <<documents, chats, saved>>

\* Qdrant, the answer provider or a SELECT raises before anything is written.
AskFails(q) ==
    /\ Unreliable
    /\ question[q].pc \in {"load", "answer"}
    /\ EndAs(q, "failed")
    /\ UNCHANGED <<documents, chats, saved>>

\* Mutant of ChatFor: the owner is missing from the WHERE clause.
ChatForAnyone(q, wanted, c) ==
    IF wanted # None /\ chats[wanted] # None THEN c = wanted
    ELSE chats[c] = None /\ \A o \in Questions : question[o].chat # c

\* ensure_session: the chat the request names if it is the caller's, or else a new
\* one.
ChatFor(q, wanted, c) ==
    IF wanted # None /\ chats[wanted] = question[q].caller THEN c = wanted
    ELSE chats[c] = None /\ \A o \in Questions : question[o].chat # c

\* The provider has answered from the evidence; the transaction begins with the
\* chat and the two messages.
WriteMessages(q) ==
    /\ question[q].pc = "answer"
    /\ \E wanted \in Chats \cup {None}, c \in Chats :
         /\ ChatFor(q, wanted, c)
         /\ question' = [question EXCEPT ![q].pc = "cite", ![q].chat = c]
    /\ UNCHANGED <<documents, chats, saved>>

\* create_citation: the row of the chunk is there and becomes locked.
Cite(q, c) ==
    /\ question[q].pc = "cite"
    /\ c \in question[q].chunks \ question[q].cites
    /\ HasRow(c) /\ ~Held(c)
    /\ question' = [question EXCEPT ![q].cites = @ \cup {c}]
    /\ UNCHANGED <<documents, chats, saved>>

\* The row was replaced: the foreign key refuses the citation.
CiteFails(q, c) ==
    /\ question[q].pc = "cite"
    /\ c \in question[q].chunks \ question[q].cites
    /\ ~HasRow(c)
    /\ Goto(q, "rollback")
    /\ UNCHANGED <<documents, chats, saved>>

\* A statement of the transaction fails.
WriteFails(q) ==
    /\ Unreliable
    /\ question[q].pc = "cite"
    /\ Goto(q, "rollback")
    /\ UNCHANGED <<documents, chats, saved>>

Answer(q) ==
    [chat |-> question[q].chat, caller |-> question[q].caller,
     sources |-> question[q].chunks, cites |-> question[q].cites,
     gone |-> question[q].gone]

\* create_usage, touch_session and the commit; whether its reply is lost makes no
\* difference to what is stored.
Commit(q) ==
    /\ question[q].pc = "cite"
    /\ question[q].cites = question[q].chunks
    /\ saved' = [saved EXCEPT ![q] = Answer(q)]
    /\ chats' = [chats EXCEPT ![question[q].chat] = question[q].caller]
    /\ EndAs(q, "answered")
    /\ UNCHANGED documents

\* Mutant of Rollback: the exception handler commits.
RollbackCommits(q) ==
    /\ question[q].pc = "rollback"
    /\ saved' = [saved EXCEPT ![q] = Answer(q)]
    /\ chats' = [chats EXCEPT ![question[q].chat] = question[q].caller]
    /\ EndAs(q, "failed")
    /\ UNCHANGED documents

\* Mutant of Rollback: the transaction stays open.
RollbackForgotten(q) ==
    /\ question[q].pc = "rollback"
    /\ Goto(q, "failed")
    /\ UNCHANGED <<documents, chats, saved>>

Rollback(q) ==
    /\ question[q].pc = "rollback"
    /\ EndAs(q, "failed")
    /\ UNCHANGED <<documents, chats, saved>>

-----------------------------------------------------------------------------
(***************************************************************************)
(* Indexing, as far as it meets the answers: the transaction of            *)
(* IngestionJobProcessor.process around the upsert, and soft deletion.     *)
(***************************************************************************)
StartRun(d) ==
    /\ index[d].pc = "idle"
    /\ runs[d] < MaxRuns
    /\ runs' = [runs EXCEPT ![d] = @ + 1]
    /\ index' = [index EXCEPT ![d].pc = "delete"]
    /\ UNCHANGED <<rows, points, deleted, question, chats, saved>>

\* The DELETE reaches one more row; a row with a pending citation makes it wait.
DeleteRow(d, p) ==
    /\ index[d].pc = "delete"
    /\ rows[d] # 0
    /\ p \notin index[d].held
    /\ ~Pending(<<d, p, rows[d]>>)
    /\ index' = [index EXCEPT ![d].held = @ \cup {p}]
    /\ UNCHANGED <<rows, points, deleted, runs, question, chats, saved>>

\* Mutant of AbandonRun: the transaction is parked as failed.
AbandonRunParked(d) ==
    /\ index' = [index EXCEPT ![d].pc = "failed"]
    /\ UNCHANGED <<rows, points, deleted, runs, question, chats, saved>>

\* The transaction ends without effect.
AbandonRun(d) ==
    /\ index' = [index EXCEPT ![d] = NotIndexing]
    /\ UNCHANGED <<rows, points, deleted, runs, question, chats, saved>>

\* Citation.chunkId restricts the DELETE, which is checked when it has reached
\* all rows; the new rows are inserted after it.
ReplaceRows(d) ==
    /\ index[d].pc = "delete"
    /\ rows[d] = 0 \/ index[d].held = Parts
    /\ IF rows[d] # 0 /\ \E c \in ChunksOf(d, rows[d]) : Cited(c)
         THEN AbandonRun(d)
         ELSE /\ index' = [index EXCEPT ![d].pc = "upsert"]
              /\ UNCHANGED <<rows, points, deleted, runs, question, chats, saved>>

Upsert(d) ==
    /\ index[d].pc = "upsert"
    /\ points' = [points EXCEPT ![d] = runs[d]]
    /\ index' = [index EXCEPT ![d].pc = "commit"]
    /\ Disturb(Owner[d])
    /\ UNCHANGED <<rows, deleted, runs, chats, saved>>

CommitRun(d) ==
    /\ index[d].pc = "commit"
    /\ rows' = [rows EXCEPT ![d] = runs[d]]
    /\ index' = [index EXCEPT ![d] = NotIndexing]
    /\ Disturb(Owner[d])
    /\ UNCHANGED <<points, deleted, runs, chats, saved>>

RunFails(d) ==
    /\ Unreliable
    /\ index[d].pc # "idle"
    /\ AbandonRun(d)

\* soft_delete_document: whatever has become of the document's runs by then, also
\* before the first of them has committed its rows.
DeleteDocument(d) ==
    /\ d \notin deleted
    /\ deleted' = deleted \cup {d}
    /\ Disturb(Owner[d])
    /\ UNCHANGED <<rows, points, runs, index, chats, saved>>

-----------------------------------------------------------------------------
(***************************************************************************)
(* Postgres breaks a deadlock: it aborts a transaction that waits in a      *)
(* circle of transactions.                                                 *)
(***************************************************************************)
Transactions == Questions \cup Docs

WaitsFor(x) ==
    IF x \in Questions
      THEN {d \in Docs : question[x].pc = "cite" /\ \E c \in question[x].chunks \ question[x].cites :
                            c[1] = d /\ Held(c)}
      ELSE {q \in Questions : index[x].pc = "delete" /\ \E c \in question[q].cites :
                            c[1] = x /\ HasRow(c)}

\* Each one waits for another one of them.
Stuck(S) == S # {} /\ \A x \in S : WaitsFor(x) \cap S # {}
Circle(S) == Stuck(S) /\ \A T \in SUBSET S : Stuck(T) => T = S

BreakDeadlock ==
    \E S \in SUBSET Transactions : \E x \in S :
        /\ Circle(S)
        /\ IF x \in Questions
             THEN Goto(x, "rollback") /\ UNCHANGED <<documents, chats, saved>>
             ELSE AbandonRun(x)

-----------------------------------------------------------------------------
QuestionStep(q) ==
    \/ Load(q) \/ WriteMessages(q)
    \/ \E c \in question[q].chunks : Cite(q, c) \/ CiteFails(q, c)
    \/ Commit(q) \/ Rollback(q)

IndexStep(d) ==
    \/ \E p \in Parts : DeleteRow(d, p)
    \/ ReplaceRows(d) \/ Upsert(d) \/ CommitRun(d)

FaultStep ==
    \/ \E q \in Questions : AskFails(q) \/ WriteFails(q)
    \/ \E d \in Docs : RunFails(d)

Ended(q) == question[q].pc \in {"answered", "refused", "failed"}

\* Nothing is in flight; users may or may not go on.
Rest ==
    /\ \A q \in Questions : question[q].pc = "new" \/ Ended(q)
    /\ \A d \in Docs : index[d].pc = "idle"
    /\ UNCHANGED vars

Next ==
    \/ \E q \in Questions, u \in Callers : Ask(q, u)
    \/ \E q \in Questions : QuestionStep(q)
    \/ \E d \in Docs : StartRun(d) \/ IndexStep(d) \/ DeleteDocument(d)
    \/ BreakDeadlock
    \/ FaultStep
    \/ Rest

\* A request and a processing run go on when they can, and Postgres looks for
\* deadlocks; nobody has to ask, upload or delete, and nothing has to fail.
Fairness ==
    /\ \A q \in Questions : WF_vars(QuestionStep(q))
    /\ \A d \in Docs : WF_vars(IndexStep(d))
    /\ WF_vars(BreakDeadlock)

Spec == Init /\ [][Next]_vars /\ Fairness

-----------------------------------------------------------------------------
(***************************************************************************)
(* Properties.                                                             *)
(***************************************************************************)
Answered == {q \in Questions : saved[q].chat # None}

\* The citations of every stored answer lead to rows that are still there, however
\* the citations, the replacement of rows and the breaking of deadlocks interleave.
CitationsResolve == \A q \in Answered : \A c \in saved[q].cites : HasRow(c)

\* An answer is stored with all its citations or not at all (RAC-001, RAC-003): it
\* has one for every chunk it draws on, also when a citation was refused or a
\* deadlock broken half-way.
AnswersAreCited == \A q \in Answered : saved[q].sources # {} /\ saved[q].sources \subseteq saved[q].cites

\* An answer draws on the documents of the caller's tenant only, and goes into a
\* chat of his own, whatever chat the request names.
AnswersStayInTenant ==
    \A q \in Answered :
        /\ chats[saved[q].chat] = saved[q].caller
        /\ \A c \in saved[q].cites : Owner[c[1]] = TenantOf[saved[q].caller]

\* A question asked after a document was deleted is not answered from it, although
\* its rows and points stay.
DeletedStaysUnused == \A q \in Answered : \A c \in saved[q].cites : c[1] \notin saved[q].gone

\* Points that lead to loadable rows, and points that do not.
Useful(t) == {c \in PointsOf(t) : Loadable(t, c)}
Useless(t) == PointsOf(t) \ Useful(t)

\* A question is refused for want of evidence only if the tenant has none, if the
\* useless points of deleted or half-replaced documents fill the whole search
\* result, or if a change of the tenant's documents overtook the question.
RefusedForAReason ==
    [][\A q \in Questions :
        question[q].pc = "load" /\ question[q].calm /\ question'[q].pc = "refused" =>
            Useful(Tenant(q)) = {} \/ Cardinality(Useless(Tenant(q))) >= Limit]_vars

\* Every question gets its answer, refusal or error, and every processing run ends:
\* the locks of the two cannot hold each other up for ever.
TransactionsEnd ==
    /\ \A q \in Questions : question[q].pc # "new" ~> Ended(q)
    /\ \A d \in Docs : index[d].pc # "idle" ~> index[d].pc = "idle"

=============================================================================
