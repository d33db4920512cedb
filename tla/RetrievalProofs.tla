---------------------------- MODULE RetrievalProofs ----------------------------
(***************************************************************************)
(* Theorems about Retrieval, for any number of documents, parts, callers,   *)
(* questions and processing runs, and any limit of the search.              *)
(*                                                                          *)
(* A question that is under way holds chunks of the caller's tenant that no *)
(* deletion had reached when it searched (Asked), and a chat that is its    *)
(* caller's or nobody else's (OwnChat).  A citation and the replacement of  *)
(* its row are kept apart by locks: a citation that is written pins its row *)
(* (Pinned), and a run that is past the DELETE holds all rows of the        *)
(* document and has found none of them cited (Cleared).                     *)
(***************************************************************************)
EXTENDS Retrieval, FiniteSetTheorems, TLAPS

-----------------------------------------------------------------------------
Searched == {"load", "answer", "cite", "rollback"}
Loaded == {"answer", "cite", "rollback"}
Writing == {"cite", "rollback"}

Asked(q) ==
    /\ question[q].pc \in Searched => question[q].caller \in Callers
    /\ question[q].pc \in Loaded => question[q].chunks # {}
    /\ \A c \in question[q].chunks : c[3] # 0 /\ Owner[c[1]] = Tenant(q)
    /\ question[q].pc \in Loaded =>
         \A c \in question[q].chunks : c[1] \notin question[q].gone
    /\ question[q].gone \subseteq deleted
    /\ question[q].cites \subseteq question[q].chunks
    /\ question[q].pc \notin Writing => question[q].cites = {}

OwnChat(q) ==
    question[q].pc \in Writing =>
        /\ question[q].chat \in Chats
        /\ \/ chats[question[q].chat] = question[q].caller
           \/ /\ chats[question[q].chat] = None
              /\ \A o \in Questions \ {q} : question[o].chat # question[q].chat

Pinned(q) == \A c \in question[q].cites : HasRow(c) /\ ~Held(c)

Cleared(d) ==
    index[d].pc \in {"upsert", "commit"} =>
        /\ rows[d] = 0 \/ index[d].held = Parts
        /\ \A q \in Questions : \A c \in saved[q].cites : c[1] = d => ~HasRow(c)

\* What is promised of an answer that is stored.
Kept(q) ==
    /\ \A c \in saved[q].cites : c[3] # 0
    /\ saved[q].chat # None =>
         /\ saved[q].chat \in Chats
         /\ saved[q].caller \in Callers
         /\ chats[saved[q].chat] = saved[q].caller
         /\ saved[q].sources # {}
         /\ saved[q].sources \subseteq saved[q].cites
         /\ \A c \in saved[q].cites :
              /\ HasRow(c)
              /\ Owner[c[1]] = TenantOf[saved[q].caller]
              /\ c[1] \notin saved[q].gone

\* A question whose tenant has not changed anything still holds the best hits.
CalmHits(q) ==
    question[q].pc = "load" /\ question[q].calm =>
        TopHits(question[q].chunks, PointsOf(Tenant(q)))

Sound ==
    /\ \A q \in Questions : Asked(q) /\ OwnChat(q) /\ Pinned(q) /\ Kept(q) /\ CalmHits(q)
    /\ \A d \in Docs : Cleared(d)

IInv == TypeOK /\ Sound

-----------------------------------------------------------------------------
(***************************************************************************)
(* Types.                                                                  *)
(***************************************************************************)

LEMMA Pcs ==
    /\ QuestionPc = {"new", "load", "answer", "cite", "rollback",
                     "answered", "refused", "failed"}
    /\ IndexPc = {"idle", "delete", "upsert", "commit"}
  BY DEF QuestionPc, IndexPc

LEMMA InitTyped == Init => TypeOK
  BY RetrievalAssumption, Pcs
  DEF Init, TypeOK, NotIndexing, NotAsked, NoAnswer, IndexRecord, QuestionRecord, AnswerRecord

LEMMA GotoTyped ==
  ASSUME TypeOK, NEW q, NEW pc \in QuestionPc, Goto(q, pc)
  PROVE  question' \in [Questions -> QuestionRecord]
  BY DEF TypeOK, Goto, QuestionRecord

LEMMA EndTyped ==
  ASSUME TypeOK, NEW q, NEW pc \in QuestionPc, EndAs(q, pc)
  PROVE  question' \in [Questions -> QuestionRecord]
  BY DEF TypeOK, EndAs, NotAsked, QuestionRecord

LEMMA DisturbTyped ==
  ASSUME TypeOK, NEW t, Disturb(t)
  PROVE  question' \in [Questions -> QuestionRecord]
  BY DEF TypeOK, Disturb, QuestionRecord

LEMMA AbandonTyped ==
  ASSUME TypeOK, NEW d, AbandonRun(d)
  PROVE  TypeOK'
  BY Pcs DEF TypeOK, AbandonRun, NotIndexing, IndexRecord

LEMMA PointsAreChunks ==
  ASSUME TypeOK, NEW t
  PROVE  \A c \in PointsOf(t) :
           /\ c \in Chunks
           /\ c[3] = points[c[1]]
           /\ c[3] # 0
           /\ Owner[c[1]] = t
  BY DEF TypeOK, PointsOf, ChunksOf, Chunks

\* What a question may do by itself, its answer apart: the rows stay as they are.
QuestionMoves(q) ==
    \/ \E u \in Callers : Ask(q, u)
    \/ Load(q) \/ WriteMessages(q) \/ Rollback(q) \/ AskFails(q) \/ WriteFails(q)
    \/ \E c \in question[q].chunks : Cite(q, c) \/ CiteFails(q, c)
    \/ Goto(q, "rollback") /\ question[q].pc = "cite" /\ UNCHANGED <<documents, chats, saved>>

\* The cases of a step.
LEMMA Cases ==
  ASSUME TypeOK, Next
  PROVE  \/ \E q \in Questions : QuestionMoves(q) \/ Commit(q)
         \/ \E d \in Docs :
              \/ StartRun(d) \/ ReplaceRows(d) \/ Upsert(d) \/ CommitRun(d)
              \/ DeleteDocument(d) \/ AbandonRun(d)
              \/ \E p \in Parts : DeleteRow(d, p)
         \/ UNCHANGED vars
<1>1. CASE BreakDeadlock
  <2>0. PICK S \in SUBSET Transactions :
           \E x \in S :
              /\ Circle(S)
              /\ IF x \in Questions
                   THEN Goto(x, "rollback") /\ UNCHANGED <<documents, chats, saved>>
                   ELSE AbandonRun(x)
    BY <1>1 DEF BreakDeadlock
  <2>1. PICK x \in S :
           /\ Circle(S)
           /\ IF x \in Questions
                THEN Goto(x, "rollback") /\ UNCHANGED <<documents, chats, saved>>
                ELSE AbandonRun(x)
    BY <2>0
  <2>2. CASE x \in Questions
    <3>1. WaitsFor(x) # {}
      BY <2>1 DEF Circle, Stuck
    <3>2. question[x].pc = "cite"
      BY <2>2, <3>1 DEF WaitsFor
    <3>3. QuestionMoves(x)
      BY <2>1, <2>2, <3>2 DEF QuestionMoves
    <3>4. QED  BY <2>2, <3>3
  <2>3. CASE x \notin Questions
    BY <2>1, <2>3 DEF Transactions
  <2>4. QED  BY <2>2, <2>3
<1>2. CASE ~BreakDeadlock
  BY <1>2 DEF Next, QuestionStep, IndexStep, FaultStep, Rest, RunFails, QuestionMoves
<1>3. QED  BY <1>1, <1>2

LEMMA TypeStep == TypeOK /\ [Next]_vars => TypeOK'
<1> SUFFICES ASSUME TypeOK, [Next]_vars PROVE TypeOK'
  OBVIOUS
<1>1. ASSUME NEW q \in Questions, QuestionMoves(q) PROVE TypeOK'
  <2>1. UNCHANGED <<documents, chats, saved>>
    BY <1>1 DEF QuestionMoves, Ask, Load, WriteMessages, Rollback, AskFails, WriteFails,
                Cite, CiteFails
  <2>2. SUFFICES question' \in [Questions -> QuestionRecord]
    BY <2>1 DEF TypeOK, documents
  <2>3. ASSUME NEW u \in Callers, Ask(q, u) PROVE question' \in [Questions -> QuestionRecord]
    <3>1. PICK H \in SUBSET PointsOf(TenantOf[u]) :
             question' = [question EXCEPT ![q] =
                [NotAsked EXCEPT !.pc = "load", !.caller = u, !.chunks = H,
                   !.gone = {c[1] : c \in H} \cap deleted, !.calm = TRUE]]
      BY <2>3 DEF Ask
    <3>2. H \subseteq Chunks
      BY PointsAreChunks
    <3>3. {c[1] : c \in H} \cap deleted \subseteq Docs
      BY DEF TypeOK
    <3>4. [NotAsked EXCEPT !.pc = "load", !.caller = u, !.chunks = H,
                   !.gone = {c[1] : c \in H} \cap deleted, !.calm = TRUE] \in QuestionRecord
      BY <3>2, <3>3, Pcs DEF NotAsked, QuestionRecord
    <3>5. QED  BY <3>1, <3>4 DEF TypeOK
  <2>4. CASE Load(q)
    <3> DEFINE evidence == {c \in question[q].chunks : Loadable(Tenant(q), c)}
    <3>1. CASE EndAs(q, "refused")
      BY <3>1, EndTyped, Pcs
    <3>2. CASE question' = [question EXCEPT ![q].pc = "answer", ![q].chunks = evidence,
                                            ![q].calm = FALSE]
      <4>1. evidence \subseteq Chunks
        BY DEF TypeOK, QuestionRecord
      <4> DEFINE loaded == [question[q] EXCEPT !.pc = "answer", !.chunks = evidence, !.calm = FALSE]
      <4>2. question[q] \in QuestionRecord
        BY DEF TypeOK
      <4>3. loaded \in QuestionRecord
        BY <4>1, <4>2, Pcs DEF QuestionRecord
      <4>4. question' = [question EXCEPT ![q] = loaded]
        BY <3>2 DEF TypeOK
      <4>5. QED  BY <4>3, <4>4 DEF TypeOK
    <3>3. QED  BY <2>4, <3>1, <3>2 DEF Load
  <2>5. CASE WriteMessages(q)
    <3>1. PICK c \in Chats :
             question' = [question EXCEPT ![q].pc = "cite", ![q].chat = c]
      BY <2>5 DEF WriteMessages
    <3> DEFINE n == [question[q] EXCEPT !.pc = "cite", !.chat = c]
    <3>2. question[q] \in QuestionRecord
      BY DEF TypeOK
    <3>3. n \in QuestionRecord
      BY <3>2, Pcs DEF QuestionRecord
    <3>4. question' = [question EXCEPT ![q] = n]
      BY <3>1 DEF TypeOK
    <3>5. QED  BY <3>3, <3>4 DEF TypeOK
  <2>6. CASE Rollback(q) \/ AskFails(q)
    BY <2>6, EndTyped, Pcs DEF Rollback, AskFails
  <2>7. CASE \E c \in question[q].chunks : Cite(q, c)
    BY <2>7 DEF Cite, TypeOK, QuestionRecord
  <2>8. CASE Goto(q, "rollback")
    BY <2>8, GotoTyped, Pcs
  <2>9. QED
    BY <1>1, <2>3, <2>4, <2>5, <2>6, <2>7, <2>8 DEF QuestionMoves, WriteFails, CiteFails
<1>2. ASSUME NEW q \in Questions, Commit(q) PROVE TypeOK'
  <2>1. question' \in [Questions -> QuestionRecord]
    BY <1>2, EndTyped, Pcs DEF Commit
  <2>2. saved' \in [Questions -> AnswerRecord]
    BY <1>2 DEF Commit, Answer, TypeOK, QuestionRecord, AnswerRecord
  <2>3. chats' \in [Chats -> Callers \cup {None}]
    BY <1>2 DEF Commit, TypeOK, QuestionRecord
  <2>4. QED  BY <1>2, <2>1, <2>2, <2>3 DEF Commit, TypeOK, documents
<1>3. ASSUME NEW d \in Docs, StartRun(d) \/ Upsert(d) \/ CommitRun(d) \/ DeleteDocument(d)
      PROVE  TypeOK'
  <2>1. question' \in [Questions -> QuestionRecord]
    BY <1>3, DisturbTyped DEF StartRun, Upsert, CommitRun, DeleteDocument, TypeOK
  <2>2. index' \in [Docs -> IndexRecord]
    BY <1>3, Pcs DEF StartRun, Upsert, CommitRun, DeleteDocument, TypeOK, IndexRecord, NotIndexing
  <2>3. QED
    BY <1>3, <2>1, <2>2 DEF StartRun, Upsert, CommitRun, DeleteDocument, TypeOK
<1>4. ASSUME NEW d \in Docs, AbandonRun(d) PROVE TypeOK'
  BY <1>4, AbandonTyped
<1>5. ASSUME NEW d \in Docs, ReplaceRows(d) PROVE TypeOK'
  <2>1. CASE index' = [index EXCEPT ![d].pc = "upsert"]
             /\ UNCHANGED <<rows, points, deleted, runs, question, chats, saved>>
    BY <2>1, Pcs DEF TypeOK, IndexRecord
  <2>2. QED  BY <1>4, <1>5, <2>1 DEF ReplaceRows
<1>6. ASSUME NEW d \in Docs, NEW p \in Parts, DeleteRow(d, p) PROVE TypeOK'
  BY <1>6 DEF DeleteRow, TypeOK, IndexRecord
<1>7. CASE UNCHANGED vars
  BY <1>7 DEF TypeOK, vars
<1>8. QED  BY <1>1, <1>2, <1>3, <1>4, <1>5, <1>6, <1>7, Cases

-----------------------------------------------------------------------------
(***************************************************************************)
(* A question moves: what is stored stays, and so do the other questions;   *)
(* only the chat it enters concerns them.                                   *)
(***************************************************************************)

\* The chat is left, kept, its owner's, or new to everybody.
Polite(q, c) ==
    \/ c = None \/ c = question[q].chat
    \/ chats[c] \in Callers
    \/ \A o \in Questions : question[o].chat # c

LEMMA MoveKeeps ==
  ASSUME IInv, NEW q \in Questions, NEW n \in QuestionRecord,
         question' = [question EXCEPT ![q] = n],
         UNCHANGED <<documents, chats, saved>>,
         Polite(q, n.chat),
         Asked(q)', OwnChat(q)', Pinned(q)', CalmHits(q)'
  PROVE  Sound'
<1>1. /\ question'[q] = n
      /\ \A o \in Questions \ {q} : question'[o] = question[o]
  BY DEF IInv, TypeOK
<1>2. UNCHANGED <<rows, points, deleted, runs, index, chats, saved>>
  BY DEF documents
<1>3. \A c : HasRow(c)' = HasRow(c) /\ Held(c)' = Held(c)
  BY <1>2 DEF HasRow, Held
<1>4. \A t : PointsOf(t)' = PointsOf(t)
  BY <1>2 DEF PointsOf
<1>5. ASSUME NEW o \in Questions PROVE Kept(o)'
  <2>1. Kept(o)
    BY DEF IInv, Sound
  <2>2. QED  BY <1>2, <1>3, <2>1 DEF Kept
<1>6. ASSUME NEW d \in Docs PROVE Cleared(d)'
  <2>1. Cleared(d)
    BY DEF IInv, Sound
  <2>2. QED  BY <1>2, <1>3, <2>1 DEF Cleared
<1>7. ASSUME NEW o \in Questions \ {q}
      PROVE  Asked(o)' /\ OwnChat(o)' /\ Pinned(o)' /\ CalmHits(o)'
  <2>1. Asked(o) /\ OwnChat(o) /\ Pinned(o) /\ CalmHits(o)
    BY DEF IInv, Sound
  <2>2. question'[o] = question[o] /\ Tenant(o)' = Tenant(o)
    BY <1>1 DEF Tenant
  <2>3. Asked(o)'
    BY <1>2, <2>1, <2>2 DEF Asked
  <2>4. Pinned(o)'
    BY <1>3, <2>1, <2>2 DEF Pinned
  <2>5. CalmHits(o)'
    BY <1>4, <2>1, <2>2 DEF CalmHits, TopHits
  <2>6. OwnChat(o)'
    <3> SUFFICES ASSUME question[o].pc \in Writing,
                        chats[question[o].chat] # question[o].caller
                 PROVE  /\ question[o].chat \in Chats
                        /\ chats[question[o].chat] = None
                        /\ \A r \in Questions \ {o} : question'[r].chat # question[o].chat
      BY <1>2, <2>1, <2>2 DEF OwnChat
    <3>1. /\ question[o].chat \in Chats
          /\ chats[question[o].chat] = None
          /\ \A r \in Questions \ {o} : question[r].chat # question[o].chat
      BY <2>1 DEF OwnChat
    <3>2. n.chat # question[o].chat
      BY <3>1, RetrievalAssumption DEF Polite
    <3>3. QED  BY <1>1, <3>1, <3>2
  <2>7. QED  BY <2>3, <2>4, <2>5, <2>6
<1>8. QED  BY <1>5, <1>6, <1>7 DEF Sound

LEMMA EndKeeps ==
  ASSUME IInv, NEW q \in Questions, NEW pc \in {"refused", "failed"}, EndAs(q, pc),
         UNCHANGED <<documents, chats, saved>>
  PROVE  Sound'
<1> DEFINE n == [NotAsked EXCEPT !.pc = pc]
<1>1. n \in QuestionRecord
  BY Pcs DEF NotAsked, QuestionRecord
<1>2. question' = [question EXCEPT ![q] = n] /\ question'[q] = n
  BY DEF EndAs, IInv, TypeOK
<1>3. n.chat = None /\ n.chunks = {} /\ n.cites = {} /\ n.gone = {} /\ n.pc = pc
  BY DEF NotAsked
<1>4. Asked(q)' /\ OwnChat(q)' /\ Pinned(q)' /\ CalmHits(q)'
  BY <1>2, <1>3 DEF Asked, OwnChat, Pinned, CalmHits, Searched, Loaded, Writing
<1>5. Polite(q, n.chat)
  BY <1>3 DEF Polite
<1>6. QED  BY <1>1, <1>2, <1>4, <1>5, MoveKeeps

LEMMA RollbackKeeps ==
  ASSUME IInv, NEW q \in Questions, question[q].pc = "cite", Goto(q, "rollback"),
         UNCHANGED <<documents, chats, saved>>
  PROVE  Sound'
<1> DEFINE n == [question[q] EXCEPT !.pc = "rollback"]
<1>1. question[q] \in QuestionRecord
  BY DEF IInv, TypeOK
<1>2. n \in QuestionRecord
  BY <1>1, Pcs DEF QuestionRecord
<1>3. question' = [question EXCEPT ![q] = n] /\ question'[q] = n
  BY DEF Goto, IInv, TypeOK
<1>4. /\ n.chat = question[q].chat /\ n.chunks = question[q].chunks
      /\ n.cites = question[q].cites /\ n.gone = question[q].gone
      /\ n.caller = question[q].caller /\ n.pc = "rollback"
  BY <1>1 DEF QuestionRecord
<1>5. Asked(q) /\ OwnChat(q) /\ Pinned(q)
  BY DEF IInv, Sound
<1>6. UNCHANGED <<rows, deleted, index, chats>>
  BY DEF documents
<1>7. Asked(q)'
  BY <1>3, <1>4, <1>5, <1>6 DEF Asked, Tenant, Searched, Loaded, Writing
<1>8. OwnChat(q)'
  <2>1. \A o \in Questions \ {q} : question'[o] = question[o]
    BY <1>3 DEF IInv, TypeOK
  <2>2. QED  BY <1>3, <1>4, <1>5, <1>6, <2>1 DEF OwnChat, Writing
<1>9. Pinned(q)' /\ CalmHits(q)'
  BY <1>3, <1>4, <1>5, <1>6 DEF Pinned, HasRow, Held, CalmHits
<1>10. Polite(q, n.chat)
  BY <1>4 DEF Polite
<1>11. QED  BY <1>2, <1>3, <1>7, <1>8, <1>9, <1>10, MoveKeeps

LEMMA AskKeeps ==
  ASSUME IInv, NEW q \in Questions, NEW u \in Callers, Ask(q, u)
  PROVE  Sound'
<1> DEFINE P == PointsOf(TenantOf[u])
<1>1. PICK H \in SUBSET P :
         /\ TopHits(H, P)
         /\ question' = [question EXCEPT ![q] =
              [NotAsked EXCEPT !.pc = "load", !.caller = u, !.chunks = H,
                 !.gone = {c[1] : c \in H} \cap deleted, !.calm = TRUE]]
  BY DEF Ask
<1> DEFINE n == [NotAsked EXCEPT !.pc = "load", !.caller = u, !.chunks = H,
                   !.gone = {c[1] : c \in H} \cap deleted, !.calm = TRUE]
<1>2. /\ n.pc = "load" /\ n.caller = u /\ n.chunks = H /\ n.cites = {} /\ n.chat = None
      /\ n.gone = {c[1] : c \in H} \cap deleted
  BY DEF NotAsked
<1>3. \A c \in H : c \in Chunks /\ c[3] # 0 /\ Owner[c[1]] = TenantOf[u]
  BY PointsAreChunks DEF IInv
<1>4. n \in QuestionRecord
  <2>1. {c[1] : c \in H} \cap deleted \subseteq Docs
    BY DEF IInv, TypeOK
  <2>2. QED  BY <1>3, <2>1, Pcs DEF NotAsked, QuestionRecord
<1>5. question'[q] = n
  BY <1>1 DEF IInv, TypeOK
<1>6. UNCHANGED <<documents, chats, saved>> /\ UNCHANGED <<points, deleted>>
  BY DEF Ask, documents
<1>7. Asked(q)'
  <2>1. Tenant(q)' = TenantOf[u]
    BY <1>2, <1>5 DEF Tenant
  <2>2. QED  BY <1>2, <1>3, <1>5, <1>6, <2>1 DEF Asked, Searched, Loaded, Writing
<1>8. OwnChat(q)' /\ Pinned(q)'
  BY <1>2, <1>5 DEF OwnChat, Pinned, Writing
<1>9. CalmHits(q)'
  <2>1. Tenant(q)' = TenantOf[u]
    BY <1>2, <1>5 DEF Tenant
  <2>2. PointsOf(Tenant(q))' = P
    BY <1>6, <2>1 DEF PointsOf
  <2>3. QED  BY <1>1, <1>2, <1>5, <2>2 DEF CalmHits, TopHits
<1>10. Polite(q, n.chat)
  BY <1>2 DEF Polite
<1>11. QED  BY <1>1, <1>4, <1>5, <1>6, <1>7, <1>8, <1>9, <1>10, MoveKeeps

LEMMA LoadKeeps ==
  ASSUME IInv, NEW q \in Questions, Load(q)
  PROVE  Sound'
<1> DEFINE evidence == {c \in question[q].chunks : Loadable(Tenant(q), c)}
           n == [question[q] EXCEPT !.pc = "answer", !.chunks = evidence, !.calm = FALSE]
<1>1. question[q] \in QuestionRecord /\ question[q].pc = "load"
  BY DEF IInv, TypeOK, Load
<1>2. CASE EndAs(q, "refused")
  BY <1>2, EndKeeps DEF Load
<1>3. CASE evidence # {}
           /\ question' = [question EXCEPT ![q].pc = "answer", ![q].chunks = evidence,
                                           ![q].calm = FALSE]
  <2>1. n \in QuestionRecord
    BY <1>1, Pcs DEF QuestionRecord
  <2>2. question' = [question EXCEPT ![q] = n] /\ question'[q] = n
    BY <1>3 DEF IInv, TypeOK
  <2>3. /\ n.pc = "answer" /\ n.chunks = evidence /\ n.caller = question[q].caller
        /\ n.gone = question[q].gone /\ n.cites = question[q].cites
        /\ n.chat = question[q].chat
    BY <1>1 DEF QuestionRecord
  <2>4. Asked(q) /\ Pinned(q)
    BY DEF IInv, Sound
  <2>5. UNCHANGED <<rows, index, deleted>> /\ UNCHANGED <<documents, chats, saved>>
    BY DEF Load, documents
  <2>6. \A c \in evidence : c[1] \notin question[q].gone
    BY <2>4 DEF Asked, Loadable
  <2>7. question[q].cites \subseteq evidence
    BY <1>1, <2>4 DEF Asked, Writing
  <2>8. Asked(q)'
    BY <1>1, <1>3, <2>2, <2>3, <2>4, <2>5, <2>6, <2>7 DEF Asked, Tenant, Searched, Loaded, Writing
  <2>9. Pinned(q)'
    BY <2>2, <2>3, <2>4, <2>5 DEF Pinned, HasRow, Held
  <2>10. OwnChat(q)' /\ CalmHits(q)' /\ Polite(q, n.chat)
    BY <2>2, <2>3 DEF OwnChat, CalmHits, Polite, Writing
  <2>11. QED  BY <2>1, <2>2, <2>5, <2>8, <2>9, <2>10, MoveKeeps
<1>4. QED  BY <1>2, <1>3 DEF Load

LEMMA WriteKeeps ==
  ASSUME IInv, NEW q \in Questions, WriteMessages(q)
  PROVE  Sound'
<1>1. PICK wanted \in Chats \cup {None}, c \in Chats :
         /\ ChatFor(q, wanted, c)
         /\ question' = [question EXCEPT ![q].pc = "cite", ![q].chat = c]
  BY DEF WriteMessages
<1> DEFINE n == [question[q] EXCEPT !.pc = "cite", !.chat = c]
<1>2. question[q] \in QuestionRecord /\ question[q].pc = "answer"
  BY DEF IInv, TypeOK, WriteMessages
<1>3. n \in QuestionRecord
  BY <1>2, Pcs DEF QuestionRecord
<1>4. question' = [question EXCEPT ![q] = n] /\ question'[q] = n
  BY <1>1 DEF IInv, TypeOK
<1>5. /\ n.pc = "cite" /\ n.chat = c /\ n.chunks = question[q].chunks
      /\ n.caller = question[q].caller /\ n.gone = question[q].gone
      /\ n.cites = question[q].cites
  BY <1>2 DEF QuestionRecord
<1>6. Asked(q) /\ Pinned(q)
  BY DEF IInv, Sound
<1>7. UNCHANGED <<rows, index, deleted, chats>> /\ UNCHANGED <<documents, chats, saved>>
  BY DEF WriteMessages, documents
<1>8. question[q].caller \in Callers
  BY <1>2, <1>6 DEF Asked, Searched
<1>9. \/ chats[c] = question[q].caller
      \/ chats[c] = None /\ \A o \in Questions : question[o].chat # c
  BY <1>1 DEF ChatFor
<1>10. Polite(q, n.chat)
  BY <1>5, <1>8, <1>9 DEF Polite
<1>11. OwnChat(q)'
  <2>1. \A o \in Questions \ {q} : question'[o] = question[o]
    BY <1>4 DEF IInv, TypeOK
  <2>2. QED  BY <1>4, <1>5, <1>7, <1>9, <2>1 DEF OwnChat
<1>12. Asked(q)'
  BY <1>2, <1>4, <1>5, <1>6, <1>7 DEF Asked, Tenant, Searched, Loaded, Writing
<1>13. Pinned(q)' /\ CalmHits(q)'
  BY <1>4, <1>5, <1>6, <1>7 DEF Pinned, HasRow, Held, CalmHits
<1>14. QED  BY <1>3, <1>4, <1>7, <1>10, <1>11, <1>12, <1>13, MoveKeeps

\* A citation is written where the row is there and no run has deleted it.
LEMMA CiteKeeps ==
  ASSUME IInv, NEW q \in Questions, NEW c \in question[q].chunks, Cite(q, c)
  PROVE  Sound'
<1> DEFINE n == [question[q] EXCEPT !.cites = @ \cup {c}]
<1>1. question[q] \in QuestionRecord /\ question[q].pc = "cite"
  BY DEF IInv, TypeOK, Cite
<1>2. n \in QuestionRecord
  BY <1>1 DEF QuestionRecord
<1>3. question' = [question EXCEPT ![q] = n] /\ question'[q] = n
  BY DEF IInv, TypeOK, Cite
<1>4. /\ n.pc = "cite" /\ n.chat = question[q].chat /\ n.chunks = question[q].chunks
      /\ n.caller = question[q].caller /\ n.gone = question[q].gone
      /\ n.cites = question[q].cites \cup {c}
  BY <1>1 DEF QuestionRecord
<1>5. Asked(q) /\ OwnChat(q) /\ Pinned(q)
  BY DEF IInv, Sound
<1>6. UNCHANGED <<rows, index, deleted, chats>> /\ UNCHANGED <<documents, chats, saved>>
  BY DEF Cite, documents
<1>7. Asked(q)'
  BY <1>1, <1>3, <1>4, <1>5, <1>6 DEF Asked, Tenant, Searched, Loaded, Writing
<1>8. OwnChat(q)'
  <2>1. \A o \in Questions \ {q} : question'[o] = question[o]
    BY <1>3 DEF IInv, TypeOK
  <2>2. QED  BY <1>1, <1>3, <1>4, <1>5, <1>6, <2>1 DEF OwnChat, Writing
<1>9. Pinned(q)'
  <2>1. HasRow(c) /\ ~Held(c)
    BY DEF Cite
  <2>2. QED  BY <1>3, <1>4, <1>5, <1>6, <2>1 DEF Pinned, HasRow, Held
<1>10. CalmHits(q)' /\ Polite(q, n.chat)
  BY <1>3, <1>4 DEF CalmHits, Polite
<1>11. QED  BY <1>2, <1>3, <1>6, <1>7, <1>8, <1>9, <1>10, MoveKeeps

LEMMA QuestionStepKeeps ==
  ASSUME IInv, NEW q \in Questions, QuestionMoves(q)
  PROVE  Sound'
<1>1. CASE Rollback(q)
  BY <1>1, EndKeeps DEF Rollback
<1>2. CASE AskFails(q)
  BY <1>2, EndKeeps DEF AskFails
<1>3. CASE WriteFails(q)
  BY <1>3, RollbackKeeps DEF WriteFails
<1>4. ASSUME NEW c \in question[q].chunks, CiteFails(q, c) PROVE Sound'
  BY <1>4, RollbackKeeps DEF CiteFails
<1>5. CASE Goto(q, "rollback") /\ question[q].pc = "cite" /\ UNCHANGED <<documents, chats, saved>>
  BY <1>5, RollbackKeeps
<1>6. QED
  BY <1>1, <1>2, <1>3, <1>4, <1>5, AskKeeps, LoadKeeps, WriteKeeps, CiteKeeps
  DEF QuestionMoves

-----------------------------------------------------------------------------
(***************************************************************************)
(* An answer is committed.                                                 *)
(***************************************************************************)

LEMMA CommitKeeps ==
  ASSUME IInv, NEW q \in Questions, Commit(q)
  PROVE  Sound'
<1> DEFINE u == question[q].caller
           k == question[q].chat
<1>1. /\ question[q].pc = "cite"
      /\ question[q].cites = question[q].chunks
      /\ question[q] \in QuestionRecord
  BY DEF Commit, IInv, TypeOK
<1>2. Asked(q) /\ OwnChat(q) /\ Pinned(q)
  BY DEF IInv, Sound
<1>3. u \in Callers /\ k \in Chats /\ u # None /\ k # None
  BY <1>1, <1>2, RetrievalAssumption DEF Asked, OwnChat, Searched, Writing
<1>4. UNCHANGED <<rows, points, deleted, runs, index>>
  BY DEF Commit, documents
<1>5. /\ question'[q] = [NotAsked EXCEPT !.pc = "answered"]
      /\ \A o \in Questions \ {q} : question'[o] = question[o]
  BY DEF Commit, EndAs, IInv, TypeOK
<1>6. saved'[q] = Answer(q) /\ \A o \in Questions \ {q} : saved'[o] = saved[o]
  BY DEF Commit, IInv, TypeOK
<1>7. chats'[k] = u /\ \A c \in Chats \ {k} : chats'[c] = chats[c]
  BY <1>3 DEF Commit, IInv, TypeOK
<1>8. \A c \in Chats : chats[c] # None => chats'[c] = chats[c]
  BY <1>1, <1>2, <1>7 DEF OwnChat, Writing
<1>9. \A c : HasRow(c)' = HasRow(c) /\ Held(c)' = Held(c)
  BY <1>4 DEF HasRow, Held
<1>10. \A t : PointsOf(t)' = PointsOf(t)
  BY <1>4 DEF PointsOf
<1>11. Asked(q)' /\ OwnChat(q)' /\ Pinned(q)' /\ CalmHits(q)'
  BY <1>5 DEF Asked, OwnChat, Pinned, CalmHits, NotAsked, Searched, Loaded, Writing
<1>12. ASSUME NEW o \in Questions \ {q}
       PROVE  Asked(o)' /\ OwnChat(o)' /\ Pinned(o)' /\ CalmHits(o)'
  <2>1. Asked(o) /\ OwnChat(o) /\ Pinned(o) /\ CalmHits(o)
    BY DEF IInv, Sound
  <2>2. question'[o] = question[o] /\ Tenant(o)' = Tenant(o)
    BY <1>5 DEF Tenant
  <2>3. Asked(o)'
    BY <1>4, <2>1, <2>2 DEF Asked
  <2>4. Pinned(o)'
    BY <1>9, <2>1, <2>2 DEF Pinned
  <2>5. CalmHits(o)'
    BY <1>10, <2>1, <2>2 DEF CalmHits, TopHits
  <2>6. OwnChat(o)'
    <3> SUFFICES ASSUME question[o].pc \in Writing
                 PROVE  OwnChat(o)'
      BY <2>2 DEF OwnChat
    <3>1. question[o].chat \in Chats /\ question[o].caller \in Callers
      BY <2>1 DEF OwnChat, Asked, Writing, Searched
    <3>2. CASE chats[question[o].chat] = question[o].caller
      <4>1. chats'[question[o].chat] = question[o].caller
        BY <1>8, <3>1, <3>2, RetrievalAssumption
      <4>2. QED  BY <2>2, <3>1, <4>1 DEF OwnChat
    <3>3. CASE /\ chats[question[o].chat] = None
               /\ \A r \in Questions \ {o} : question[r].chat # question[o].chat
      <4>1. question[o].chat # k
        BY <3>3
      <4>2. chats'[question[o].chat] = None
        BY <1>7, <3>1, <3>3, <4>1
      <4>3. question'[q].chat # question[o].chat
        BY <1>5, <3>1, RetrievalAssumption DEF NotAsked
      <4>4. QED  BY <1>5, <2>2, <3>1, <3>3, <4>2, <4>3 DEF OwnChat
    <3>4. QED  BY <2>1, <3>2, <3>3 DEF OwnChat
  <2>7. QED  BY <2>3, <2>4, <2>5, <2>6
<1>13. Kept(q)'
  <2>1. /\ saved'[q].chat = k /\ saved'[q].caller = u
        /\ saved'[q].sources = question[q].chunks /\ saved'[q].cites = question[q].chunks
        /\ saved'[q].gone = question[q].gone
    BY <1>1, <1>6 DEF Answer
  <2>2. \A c \in question[q].chunks :
          c[3] # 0 /\ HasRow(c) /\ Owner[c[1]] = TenantOf[u] /\ c[1] \notin question[q].gone
    BY <1>1, <1>2 DEF Asked, Pinned, Tenant, Loaded
  <2>3. question[q].chunks # {}
    BY <1>1, <1>2 DEF Asked, Loaded
  <2>4. QED  BY <1>3, <1>7, <1>9, <2>1, <2>2, <2>3 DEF Kept
<1>14. ASSUME NEW o \in Questions \ {q} PROVE Kept(o)'
  <2>1. Kept(o)
    BY DEF IInv, Sound
  <2>2. saved[o].chat # None => chats'[saved[o].chat] = saved[o].caller
    BY <1>8, <2>1, RetrievalAssumption DEF Kept
  <2>3. QED  BY <1>6, <1>9, <2>1, <2>2 DEF Kept
<1>15. ASSUME NEW d \in Docs PROVE Cleared(d)'
  <2>1. Cleared(d)
    BY DEF IInv, Sound
  <2>2. ASSUME index[d].pc \in {"upsert", "commit"}, NEW c \in question[q].cites, c[1] = d
        PROVE  FALSE
    <3>1. HasRow(c) /\ ~Held(c) /\ c[3] # 0 /\ c \in Chunks
      BY <1>1, <1>2 DEF Pinned, Asked, QuestionRecord
    <3>2. index[d].held = Parts
      BY <2>1, <2>2, <3>1 DEF Cleared, HasRow
    <3>3. c[2] \in Parts
      BY <3>1 DEF Chunks
    <3>4. QED  BY <2>2, <3>1, <3>2, <3>3 DEF Held
  <2>3. \A o \in Questions : index[d].pc \in {"upsert", "commit"} =>
          \A c \in saved'[o].cites : c[1] = d => ~HasRow(c)
    BY <1>6, <2>1, <2>2 DEF Cleared, Answer
  <2>4. QED  BY <1>4, <1>9, <2>1, <2>3 DEF Cleared
<1>16. QED  BY <1>11, <1>12, <1>13, <1>14, <1>15 DEF Sound

-----------------------------------------------------------------------------
(***************************************************************************)
(* A processing run, or the user of a document, moves: the questions only   *)
(* lose their calm.                                                         *)
(***************************************************************************)
SameQuestions ==
    \A q \in Questions :
        /\ question'[q].pc = question[q].pc
        /\ question'[q].caller = question[q].caller
        /\ question'[q].chat = question[q].chat
        /\ question'[q].chunks = question[q].chunks
        /\ question'[q].cites = question[q].cites
        /\ question'[q].gone = question[q].gone
        /\ question'[q].calm => question[q].calm

LEMMA DisturbSame ==
  ASSUME IInv, NEW t, Disturb(t)
  PROVE  /\ SameQuestions
         /\ \A q \in Questions :
              question'[q].pc = "load" /\ question'[q].calm => Tenant(q) # t
<1>1. \A q \in Questions : question[q] \in QuestionRecord
  BY DEF IInv, TypeOK
<1>2. \A q \in Questions :
        question'[q] = IF question[q].pc = "load" /\ Tenant(q) = t
                         THEN [question[q] EXCEPT !.calm = FALSE] ELSE question[q]
  BY DEF Disturb
<1>3. QED  BY <1>1, <1>2 DEF SameQuestions, QuestionRecord

LEMMA DocKeeps ==
  ASSUME IInv, SameQuestions, UNCHANGED <<chats, saved>>, deleted \subseteq deleted',
         \A q \in Questions : \A c \in question[q].cites : HasRow(c)' /\ ~Held(c)',
         \A q \in Questions : \A c \in saved[q].cites : HasRow(c) => HasRow(c)',
         \A q \in Questions : CalmHits(q)',
         \A d \in Docs : Cleared(d)'
  PROVE  Sound'
<1>1. ASSUME NEW q \in Questions PROVE Asked(q)' /\ OwnChat(q)' /\ Pinned(q)' /\ Kept(q)'
  <2>1. Asked(q) /\ OwnChat(q) /\ Kept(q)
    BY DEF IInv, Sound
  <2>2. Asked(q)'
    BY <2>1 DEF Asked, SameQuestions, Tenant
  <2>3. OwnChat(q)'
    BY <2>1 DEF OwnChat, SameQuestions
  <2>4. Pinned(q)'
    BY DEF Pinned, SameQuestions
  <2>5. Kept(q)'
    BY <2>1 DEF Kept
  <2>6. QED  BY <2>2, <2>3, <2>4, <2>5
<1>2. QED  BY <1>1 DEF Sound

\* Questions that are calm still hold the best hits if the points they rank stay.
LEMMA CalmStays ==
  ASSUME IInv, SameQuestions,
         \A q \in Questions : question'[q].pc = "load" /\ question'[q].calm =>
             PointsOf(Tenant(q))' = PointsOf(Tenant(q))
  PROVE  \A q \in Questions : CalmHits(q)'
<1> TAKE q \in Questions
<1>1. CalmHits(q)
  BY DEF IInv, Sound
<1>2. QED  BY <1>1 DEF CalmHits, TopHits, SameQuestions

LEMMA CalmWithoutUpsert ==
  ASSUME IInv, SameQuestions, UNCHANGED points
  PROVE  \A q \in Questions : CalmHits(q)'
<1>1. ASSUME NEW q \in Questions PROVE PointsOf(Tenant(q))' = PointsOf(Tenant(q))
  BY DEF PointsOf, SameQuestions, Tenant
<1>2. QED  BY <1>1, CalmStays

\* A run moves without committing: the rows stay, and it may hold one row more that
\* no citation pins.
LEMMA RunKeeps ==
  ASSUME IInv, NEW d \in Docs,
         UNCHANGED <<rows, deleted, chats, saved>>, SameQuestions,
         \A e \in Docs \ {d} : index'[e] = index[e],
         \A q \in Questions : \A c \in question[q].cites :
             c[1] = d => c[2] \notin index'[d].held,
         Cleared(d)',
         \A q \in Questions : CalmHits(q)'
  PROVE  Sound'
<1>1. \A c : HasRow(c)' = HasRow(c)
  BY DEF HasRow
<1>2. ASSUME NEW q \in Questions, NEW c \in question[q].cites PROVE HasRow(c)' /\ ~Held(c)'
  <2>1. HasRow(c) /\ ~Held(c)
    BY DEF IInv, Sound, Pinned
  <2>2. c[1] \in Docs
    BY DEF IInv, TypeOK, QuestionRecord, Chunks
  <2>3. QED  BY <1>1, <2>1, <2>2 DEF Held
<1>3. ASSUME NEW e \in Docs \ {d} PROVE Cleared(e)'
  <2>1. Cleared(e)
    BY DEF IInv, Sound
  <2>2. QED  BY <1>1, <2>1 DEF Cleared
<1>4. QED  BY <1>1, <1>2, <1>3, DocKeeps

\* No citation that is written pins a row the run holds.
LEMMA HeldUnpinned ==
  ASSUME IInv, NEW d \in Docs
  PROVE  \A q \in Questions : \A c \in question[q].cites : c[1] = d => c[2] \notin index[d].held
<1> TAKE q \in Questions
<1> TAKE c \in question[q].cites
<1>1. HasRow(c) /\ ~Held(c)
  BY DEF IInv, Sound, Pinned
<1>2. QED  BY <1>1 DEF Held

LEMMA StartKeeps ==
  ASSUME IInv, NEW d \in Docs, StartRun(d)
  PROVE  Sound'
<1>1. /\ index'[d] = [index[d] EXCEPT !.pc = "delete"]
      /\ \A e \in Docs \ {d} : index'[e] = index[e]
      /\ index[d] \in IndexRecord
  BY DEF StartRun, IInv, TypeOK
<1>2. index'[d].pc = "delete" /\ index'[d].held = index[d].held
  BY <1>1 DEF IndexRecord
<1>3. SameQuestions
  BY DEF StartRun, SameQuestions
<1>4. \A q \in Questions : CalmHits(q)'
  BY <1>3, CalmWithoutUpsert DEF StartRun
<1>5. Cleared(d)'
  BY <1>2 DEF Cleared
<1>6. QED  BY <1>1, <1>2, <1>3, <1>4, <1>5, HeldUnpinned, RunKeeps DEF StartRun

LEMMA AbandonKeeps ==
  ASSUME IInv, NEW d \in Docs, AbandonRun(d)
  PROVE  Sound'
<1>1. index'[d] = NotIndexing /\ \A e \in Docs \ {d} : index'[e] = index[e]
  BY DEF AbandonRun, IInv, TypeOK
<1>2. index'[d].pc = "idle" /\ index'[d].held = {}
  BY <1>1 DEF NotIndexing
<1>3. SameQuestions
  BY DEF AbandonRun, SameQuestions
<1>4. \A q \in Questions : CalmHits(q)'
  BY <1>3, CalmWithoutUpsert DEF AbandonRun
<1>5. Cleared(d)'
  BY <1>2 DEF Cleared
<1>6. QED  BY <1>1, <1>2, <1>3, <1>4, <1>5, RunKeeps DEF AbandonRun

\* The DELETE waits for the citations that pin its row.
LEMMA DeleteRowKeeps ==
  ASSUME IInv, NEW d \in Docs, NEW p \in Parts, DeleteRow(d, p)
  PROVE  Sound'
<1>1. /\ index'[d] = [index[d] EXCEPT !.held = @ \cup {p}]
      /\ \A e \in Docs \ {d} : index'[e] = index[e]
      /\ index[d] \in IndexRecord
  BY DEF DeleteRow, IInv, TypeOK
<1>2. index'[d].pc = "delete" /\ index'[d].held = index[d].held \cup {p}
  BY <1>1 DEF IndexRecord, DeleteRow
<1>3. SameQuestions
  BY DEF DeleteRow, SameQuestions
<1>4. \A q \in Questions : CalmHits(q)'
  BY <1>3, CalmWithoutUpsert DEF DeleteRow
<1>5. Cleared(d)'
  BY <1>2 DEF Cleared
<1>6. ASSUME NEW q \in Questions, NEW c \in question[q].cites, c[1] = d
      PROVE  c[2] \notin index'[d].held
  <2>1. HasRow(c)
    BY DEF IInv, Sound, Pinned
  <2>2. c = <<c[1], c[2], c[3]>>
    BY DEF IInv, TypeOK, QuestionRecord, Chunks
  <2>3. c[2] # p
    BY <1>6, <2>1, <2>2 DEF DeleteRow, Pending, HasRow
  <2>4. QED  BY <1>2, <1>6, <2>3, HeldUnpinned
<1>7. QED  BY <1>1, <1>3, <1>4, <1>5, <1>6, RunKeeps DEF DeleteRow

LEMMA ReplaceKeeps ==
  ASSUME IInv, NEW d \in Docs, ReplaceRows(d)
  PROVE  Sound'
<1>1. CASE AbandonRun(d)
  BY <1>1, AbandonKeeps
<1>2. CASE /\ ~(rows[d] # 0 /\ \E c \in ChunksOf(d, rows[d]) : Cited(c))
           /\ index' = [index EXCEPT ![d].pc = "upsert"]
           /\ UNCHANGED <<rows, points, deleted, runs, question, chats, saved>>
  <2>1. /\ index'[d] = [index[d] EXCEPT !.pc = "upsert"]
        /\ \A e \in Docs \ {d} : index'[e] = index[e]
        /\ index[d] \in IndexRecord
    BY <1>2 DEF IInv, TypeOK
  <2>2. index'[d].pc = "upsert" /\ index'[d].held = index[d].held
    BY <2>1 DEF IndexRecord
  <2>3. SameQuestions
    BY <1>2 DEF SameQuestions
  <2>4. \A q \in Questions : CalmHits(q)'
    BY <1>2, <2>3, CalmWithoutUpsert
  <2>5. ASSUME NEW q \in Questions, NEW c \in saved[q].cites, c[1] = d PROVE ~HasRow(c)
    <3>1. c \in Chunks /\ c[3] # 0
      BY DEF IInv, TypeOK, AnswerRecord, Sound, Kept
    <3>2. c = <<d, c[2], c[3]>> /\ c[2] \in Parts
      BY <2>5, <3>1 DEF Chunks
    <3>3. SUFFICES ASSUME HasRow(c) PROVE FALSE
      OBVIOUS
    <3>4. rows[d] # 0 /\ c \in ChunksOf(d, rows[d])
      BY <2>5, <3>1, <3>2, <3>3 DEF HasRow, ChunksOf
    <3>5. QED  BY <1>2, <3>4 DEF Cited
  <2>6. Cleared(d)'
    <3>1. rows[d] = 0 \/ index[d].held = Parts
      BY DEF ReplaceRows
    <3>2. QED  BY <1>2, <2>2, <2>5, <3>1 DEF Cleared, HasRow
  <2>7. QED  BY <1>2, <2>1, <2>2, <2>3, <2>4, <2>6, HeldUnpinned, RunKeeps
<1>3. QED  BY <1>1, <1>2 DEF ReplaceRows

LEMMA UpsertKeeps ==
  ASSUME IInv, NEW d \in Docs, Upsert(d)
  PROVE  Sound'
<1>1. /\ index'[d] = [index[d] EXCEPT !.pc = "commit"]
      /\ \A e \in Docs \ {d} : index'[e] = index[e]
      /\ index[d] \in IndexRecord /\ index[d].pc = "upsert"
  BY DEF Upsert, IInv, TypeOK
<1>2. index'[d].pc = "commit" /\ index'[d].held = index[d].held
  BY <1>1 DEF IndexRecord
<1>3. SameQuestions
  BY DisturbSame DEF Upsert
<1>4. \A q \in Questions : CalmHits(q)'
  <2>1. ASSUME NEW q \in Questions, question'[q].pc = "load", question'[q].calm
        PROVE  PointsOf(Tenant(q))' = PointsOf(Tenant(q))
    <3>1. Tenant(q) # Owner[d]
      BY <2>1, DisturbSame DEF Upsert
    <3>2. Tenant(q)' = Tenant(q)
      BY <1>3 DEF SameQuestions, Tenant
    <3>3. \A e \in Docs \ {d} : points'[e] = points[e]
      BY DEF Upsert, IInv, TypeOK
    <3>4. {e \in Docs : Owner[e] = Tenant(q) /\ points'[e] # 0}
            = {e \in Docs : Owner[e] = Tenant(q) /\ points[e] # 0}
      BY <3>1, <3>3
    <3>5. \A e \in {f \in Docs : Owner[f] = Tenant(q) /\ points[f] # 0} : points'[e] = points[e]
      BY <3>1, <3>3
    <3>6. QED  BY <3>2, <3>4, <3>5 DEF PointsOf
  <2>2. QED  BY <1>3, <2>1, CalmStays
<1>5. Cleared(d)'
  <2>1. Cleared(d)
    BY DEF IInv, Sound
  <2>2. UNCHANGED <<rows, saved>>
    BY DEF Upsert
  <2>3. QED  BY <1>1, <1>2, <2>1, <2>2 DEF Cleared, HasRow
<1>6. QED  BY <1>1, <1>2, <1>3, <1>4, <1>5, HeldUnpinned, RunKeeps DEF Upsert

\* The rows are replaced; nothing that is cited or being cited is among them.
LEMMA CommitRunKeeps ==
  ASSUME IInv, NEW d \in Docs, CommitRun(d)
  PROVE  Sound'
<1>1. /\ index'[d] = NotIndexing
      /\ \A e \in Docs \ {d} : index'[e] = index[e] /\ rows'[e] = rows[e]
      /\ index[d].pc = "commit"
  BY DEF CommitRun, IInv, TypeOK
<1>2. Cleared(d)
  BY DEF IInv, Sound
<1>3. SameQuestions
  BY DisturbSame DEF CommitRun
<1>4. \A q \in Questions : CalmHits(q)'
  BY <1>3, CalmWithoutUpsert DEF CommitRun
<1>5. ASSUME NEW q \in Questions, NEW c \in question[q].cites PROVE HasRow(c)' /\ ~Held(c)'
  <2>1. HasRow(c) /\ ~Held(c) /\ c \in Chunks /\ c[3] # 0
    BY DEF IInv, TypeOK, QuestionRecord, Sound, Pinned, Asked
  <2>2. c[1] \in Docs /\ c[2] \in Parts
    BY <2>1 DEF Chunks
  <2>3. c[1] # d
    BY <1>1, <1>2, <2>1, <2>2 DEF Cleared, HasRow, Held
  <2>4. QED  BY <1>1, <2>1, <2>2, <2>3 DEF HasRow, Held
<1>6. ASSUME NEW q \in Questions, NEW c \in saved[q].cites, HasRow(c) PROVE HasRow(c)'
  <2>1. c[1] \in Docs
    BY DEF IInv, TypeOK, AnswerRecord, Chunks
  <2>2. c[1] # d
    BY <1>1, <1>2, <1>6 DEF Cleared
  <2>3. QED  BY <1>1, <1>6, <2>1, <2>2 DEF HasRow
<1>7. ASSUME NEW e \in Docs PROVE Cleared(e)'
  <2>1. CASE e = d
    BY <1>1, <2>1 DEF Cleared, NotIndexing
  <2>2. CASE e # d
    <3>1. Cleared(e)
      BY DEF IInv, Sound
    <3>2. UNCHANGED saved
      BY DEF CommitRun
    <3>3. QED  BY <1>1, <2>2, <3>1, <3>2 DEF Cleared, HasRow
  <2>3. QED  BY <2>1, <2>2
<1>8. UNCHANGED <<chats, saved>> /\ deleted \subseteq deleted'
  BY DEF CommitRun
<1>9. QED  BY <1>3, <1>4, <1>5, <1>6, <1>7, <1>8, DocKeeps

LEMMA DeleteKeeps ==
  ASSUME IInv, NEW d \in Docs, DeleteDocument(d)
  PROVE  Sound'
<1>1. SameQuestions
  BY DisturbSame DEF DeleteDocument
<1>2. \A q \in Questions : CalmHits(q)'
  BY <1>1, CalmWithoutUpsert DEF DeleteDocument
<1>3. \A c : HasRow(c)' = HasRow(c) /\ Held(c)' = Held(c)
  BY DEF DeleteDocument, HasRow, Held
<1>4. ASSUME NEW q \in Questions, NEW c \in question[q].cites PROVE HasRow(c)' /\ ~Held(c)'
  BY <1>3 DEF IInv, Sound, Pinned
<1>5. ASSUME NEW e \in Docs PROVE Cleared(e)'
  <2>1. Cleared(e)
    BY DEF IInv, Sound
  <2>2. QED  BY <1>3, <2>1 DEF DeleteDocument, Cleared
<1>6. UNCHANGED <<chats, saved>> /\ deleted \subseteq deleted'
  BY DEF DeleteDocument
<1>7. QED  BY <1>1, <1>2, <1>3, <1>4, <1>5, <1>6, DocKeeps

-----------------------------------------------------------------------------
(***************************************************************************)
(* The invariant and what it gives.                                        *)
(***************************************************************************)

LEMMA SoundInit == Init => Sound
<1> SUFFICES ASSUME Init PROVE Sound
  OBVIOUS
<1>1. ASSUME NEW q \in Questions
      PROVE  Asked(q) /\ OwnChat(q) /\ Pinned(q) /\ Kept(q) /\ CalmHits(q)
  BY <1>1 DEF Init, NotAsked, NoAnswer, Asked, OwnChat, Pinned, Kept, CalmHits,
              Searched, Loaded, Writing
<1>2. ASSUME NEW d \in Docs PROVE Cleared(d)
  BY DEF Init, NotIndexing, Cleared
<1>3. QED  BY <1>1, <1>2 DEF Sound

LEMMA SoundStep == IInv /\ [Next]_vars => Sound'
<1> SUFFICES ASSUME IInv, [Next]_vars PROVE Sound'
  OBVIOUS
<1>1. CASE UNCHANGED vars
  <2>1. UNCHANGED <<documents, chats, saved, question>>
    BY <1>1 DEF vars, documents
  <2>2. SameQuestions /\ UNCHANGED <<rows, points, deleted, runs, index, chats, saved>>
    BY <2>1 DEF SameQuestions, documents
  <2>3. ASSUME NEW d \in Docs PROVE Cleared(d)'
    <3>1. Cleared(d)
      BY DEF IInv, Sound
    <3>2. QED  BY <2>2, <3>1 DEF Cleared, HasRow
  <2>4. ASSUME NEW q \in Questions, NEW c \in question[q].cites PROVE HasRow(c)' /\ ~Held(c)'
    <3>1. HasRow(c) /\ ~Held(c)
      BY DEF IInv, Sound, Pinned
    <3>2. QED  BY <2>2, <3>1 DEF HasRow, Held
  <2>5. \A q \in Questions : CalmHits(q)'
    BY <2>2, CalmWithoutUpsert
  <2>6. \A q \in Questions : \A c \in saved[q].cites : HasRow(c) => HasRow(c)'
    BY <2>2 DEF HasRow
  <2>7. deleted \subseteq deleted' /\ UNCHANGED <<chats, saved>>
    BY <2>2
  <2>8. QED  BY <2>2, <2>3, <2>4, <2>5, <2>6, <2>7, DocKeeps
<1>2. CASE Next
  BY <1>1, <1>2, Cases, QuestionStepKeeps, CommitKeeps, StartKeeps, ReplaceKeeps, UpsertKeeps,
     CommitRunKeeps, DeleteKeeps, AbandonKeeps, DeleteRowKeeps DEF IInv
<1>3. QED  BY <1>1, <1>2

\* What questions, answers, runs and chats hold, at any time.
THEOREM Invariant == Spec => []IInv
<1>1. Init => IInv
  BY InitTyped, SoundInit DEF IInv
<1>2. IInv /\ [Next]_vars => IInv'
  BY TypeStep, SoundStep DEF IInv
<1>3. QED  BY <1>1, <1>2, PTL DEF Spec

\* Type correctness: rows, points, runs, questions, chats and answers keep their types.
THEOREM TypeCorrect == Spec => []TypeOK
  BY Invariant, PTL DEF IInv

\* The citations of every stored answer lead to rows that are there: replace_chunks
\* and create_citation cannot pass each other.
THEOREM CitationsCorrect == Spec => []CitationsResolve
<1>1. IInv => CitationsResolve
  BY DEF IInv, Sound, Kept, CitationsResolve, Answered
<1>2. QED  BY <1>1, Invariant, PTL

\* An answer is stored with a citation for every chunk it draws on, or not at all.
THEOREM AnswersCited == Spec => []AnswersAreCited
<1>1. IInv => AnswersAreCited
  BY DEF IInv, Sound, Kept, AnswersAreCited, Answered
<1>2. QED  BY <1>1, Invariant, PTL

\* An answer draws on the caller's tenant and goes into a chat of his own.
THEOREM AnswersInTenant == Spec => []AnswersStayInTenant
<1>1. IInv => AnswersStayInTenant
  BY DEF IInv, Sound, Kept, AnswersStayInTenant, Answered
<1>2. QED  BY <1>1, Invariant, PTL

\* A question is not answered from what was deleted before it was asked.
THEOREM DeletedUnused == Spec => []DeletedStaysUnused
<1>1. IInv => DeletedStaysUnused
  BY DEF IInv, Sound, Kept, DeletedStaysUnused, Answered
<1>2. QED  BY <1>1, Invariant, PTL

-----------------------------------------------------------------------------
(***************************************************************************)
(* Refusals.                                                               *)
(***************************************************************************)

LEMMA PointsFinite ==
  ASSUME NEW t
  PROVE  IsFiniteSet(PointsOf(t))
<1> DEFINE D == {d \in Docs : Owner[d] = t /\ points[d] # 0}
           S == {ChunksOf(d, points[d]) : d \in D}
<1>1. IsFiniteSet(D)
  BY FS_Subset, RetrievalAssumption
<1>2. IsFiniteSet(S)
  <2> DEFINE f == [d \in D |-> ChunksOf(d, points[d])]
  <2>1. f \in Surjection(D, S)
    BY DEF Surjection
  <2>2. QED  BY <1>1, <2>1, FS_Surjection
<1>3. ASSUME NEW d \in D PROVE IsFiniteSet(ChunksOf(d, points[d]))
  <2> DEFINE g == [p \in Parts |-> <<d, p, points[d]>>]
  <2>1. g \in Surjection(Parts, ChunksOf(d, points[d]))
    BY DEF Surjection, ChunksOf
  <2>2. QED  BY <2>1, FS_Surjection, RetrievalAssumption
<1>4. QED  BY <1>2, <1>3, FS_UNION DEF PointsOf

\* A calm question that loads nothing has found nothing but useless points.
LEMMA RefusalExplained ==
  ASSUME IInv, NEW q \in Questions, question[q].pc = "load", question[q].calm,
         \A c \in question[q].chunks : ~Loadable(Tenant(q), c)
  PROVE  Useful(Tenant(q)) = {} \/ Cardinality(Useless(Tenant(q))) >= Limit
<1> DEFINE H == question[q].chunks
           P == PointsOf(Tenant(q))
<1>1. TopHits(H, P)
  BY DEF IInv, Sound, CalmHits
<1>2. H \subseteq Useless(Tenant(q))
  BY <1>1 DEF TopHits, Useless, Useful
<1>3. IsFiniteSet(Useless(Tenant(q)))
  BY PointsFinite, FS_Subset DEF Useless
<1>4. CASE H = P
  BY <1>2, <1>4 DEF Useful, Useless
<1>5. CASE Cardinality(H) = Limit
  <2>1. Cardinality(H) <= Cardinality(Useless(Tenant(q)))
    BY <1>2, <1>3, FS_Subset
  <2>2. Cardinality(Useless(Tenant(q))) \in Nat
    BY <1>3, FS_CardinalityType
  <2>3. QED  BY <1>5, <2>1, <2>2, RetrievalAssumption
<1>6. QED  BY <1>1, <1>4, <1>5 DEF TopHits

\* A refusal has one of the three reasons: there is no evidence, useless points have
\* filled the search result, or a change has overtaken the question.
THEOREM RefusalsCorrect == Spec => RefusedForAReason
<1> DEFINE Reason ==
      \A q \in Questions :
        question[q].pc = "load" /\ question[q].calm /\ question'[q].pc = "refused" =>
            Useful(Tenant(q)) = {} \/ Cardinality(Useless(Tenant(q))) >= Limit
<1>1. ASSUME IInv, Next PROVE Reason
  <2> SUFFICES ASSUME NEW q \in Questions, question[q].pc = "load", question[q].calm,
                      question'[q].pc = "refused"
               PROVE  Useful(Tenant(q)) = {} \/ Cardinality(Useless(Tenant(q))) >= Limit
    OBVIOUS
  <2>1. question \in [Questions -> QuestionRecord]
    BY <1>1 DEF IInv, TypeOK
  <2>2. ASSUME NEW o \in Questions, QuestionMoves(o) \/ Commit(o) PROVE o = q /\ Load(q)
    <3>1. \A r \in Questions \ {o} : question'[r] = question[r]
      BY <2>1, <2>2 DEF QuestionMoves, Ask, Load, WriteMessages, Rollback, AskFails, WriteFails,
                        Cite, CiteFails, Commit, EndAs, Goto
    <3>2. o = q
      BY <3>1
    <3>3. question'[q].pc # "refused" \/ Load(q)
      BY <2>1, <2>2, <3>2 DEF QuestionMoves, Ask, WriteMessages, Rollback, AskFails, WriteFails,
                        Cite, CiteFails, Commit, EndAs, Goto, NotAsked
    <3>4. QED  BY <3>2, <3>3
  <2>3. ~\E d \in Docs : Upsert(d) \/ CommitRun(d) \/ DeleteDocument(d)
    <3>1. ASSUME NEW d \in Docs, Upsert(d) \/ CommitRun(d) \/ DeleteDocument(d) PROVE FALSE
      <4>1. SameQuestions
        BY <1>1, <3>1, DisturbSame DEF Upsert, CommitRun, DeleteDocument
      <4>2. QED  BY <4>1 DEF SameQuestions
    <3>2. QED  BY <3>1
  <2>4. question' # question
    OBVIOUS
  <2>5. Load(q)
    BY <1>1, <2>2, <2>3, <2>4, Cases
    DEF IInv, StartRun, ReplaceRows, AbandonRun, DeleteRow, vars
  <2>6. \A c \in question[q].chunks : ~Loadable(Tenant(q), c)
    <3> DEFINE evidence == {c \in question[q].chunks : Loadable(Tenant(q), c)}
    <3>1. SUFFICES evidence = {}
      OBVIOUS
    <3>2. CASE question' = [question EXCEPT ![q].pc = "answer", ![q].chunks = evidence,
                                            ![q].calm = FALSE]
      <4>1. question'[q].pc = "answer"
        BY <2>1, <3>2 DEF QuestionRecord
      <4>2. QED  BY <4>1
    <3>3. QED  BY <2>5, <3>2 DEF Load
  <2>7. QED  BY <1>1, <2>6, RefusalExplained
<1>2. IInv /\ [Next]_vars => [Reason]_vars
  BY <1>1
<1>3. QED  BY <1>2, Invariant, PTL DEF Spec, RefusedForAReason

-----------------------------------------------------------------------------
(***************************************************************************)
(* Transactions do not hold each other up unseen.                          *)
(***************************************************************************)

\* Between its first write and its end.
InTransaction(x) ==
    IF x \in Questions THEN question[x].pc \in Writing ELSE index[x].pc # "idle"

\* A transaction that has a step of its own to take, with no lock in its way: the
\* guards of Cite, CiteFails, Commit and Rollback, of DeleteRow, ReplaceRows, Upsert
\* and CommitRun.
GoesOn(x) ==
    IF x \in Questions
      THEN \/ question[x].pc = "rollback"
           \/ question[x].cites = question[x].chunks
           \/ \E c \in question[x].chunks \ question[x].cites : ~Held(c)
      ELSE \/ index[x].pc \in {"upsert", "commit"}
           \/ rows[x] = 0
           \/ index[x].held = Parts
           \/ \E p \in Parts \ index[x].held : ~Pending(<<x, p, rows[x]>>)

\* Rows are locked in a run only.
LocksInRuns == \A d \in Docs : index[d].pc = "idle" => index[d].held = {}

LEMMA LocksInRunsStep ==
  ASSUME TypeOK, LocksInRuns, [Next]_vars
  PROVE  LocksInRuns'
<1>1. CASE \E d \in Docs : \/ StartRun(d) \/ ReplaceRows(d) \/ Upsert(d) \/ CommitRun(d)
                          \/ AbandonRun(d) \/ \E p \in Parts : DeleteRow(d, p)
  <2>1. PICK d \in Docs : \/ StartRun(d) \/ ReplaceRows(d) \/ Upsert(d) \/ CommitRun(d)
                         \/ AbandonRun(d) \/ \E p \in Parts : DeleteRow(d, p)
    BY <1>1
  <2>2. index \in [Docs -> IndexRecord]
    BY DEF TypeOK
  <2>3. \/ index'[d].pc # "idle"
        \/ index'[d] = NotIndexing
    BY <2>1, <2>2 DEF StartRun, ReplaceRows, Upsert, CommitRun, AbandonRun, DeleteRow, IndexRecord
  <2>4. \A e \in Docs \ {d} : index'[e] = index[e]
    BY <2>1, <2>2 DEF StartRun, ReplaceRows, Upsert, CommitRun, AbandonRun, DeleteRow
  <2>5. QED  BY <2>3, <2>4 DEF LocksInRuns, NotIndexing
<1>2. CASE UNCHANGED index
  BY <1>2 DEF LocksInRuns
<1>3. \/ UNCHANGED index
      \/ \E d \in Docs : \/ StartRun(d) \/ ReplaceRows(d) \/ Upsert(d) \/ CommitRun(d)
                         \/ AbandonRun(d) \/ \E p \in Parts : DeleteRow(d, p)
  <2>1. ASSUME NEW q \in Questions, QuestionMoves(q) \/ Commit(q) PROVE UNCHANGED index
    BY <2>1 DEF QuestionMoves, Ask, Load, WriteMessages, Rollback, AskFails, WriteFails,
                Cite, CiteFails, Commit, documents
  <2>2. ASSUME NEW d \in Docs, DeleteDocument(d) PROVE UNCHANGED index
    BY <2>2 DEF DeleteDocument
  <2>3. QED  BY <2>1, <2>2, Cases DEF vars
<1>4. QED  BY <1>1, <1>2, <1>3

\* Among finitely many transactions that wait for one another some form a circle.
LEMMA StuckHasCircle ==
  ASSUME NEW S, IsFiniteSet(S), Stuck(S)
  PROVE  \E C \in SUBSET S : Circle(C)
<1> DEFINE R == OpToRel(<, Nat)
           Sizes == {Cardinality(T) : T \in {U \in SUBSET S : Stuck(U)}}
<1>1. \A T \in SUBSET S : IsFiniteSet(T) /\ Cardinality(T) \in Nat
  BY FS_Subset, FS_CardinalityType
<1>2. Sizes \subseteq Nat /\ Sizes # {}
  BY <1>1
<1>3. \A m, n \in Nat : m < n => <<m, n>> \in R
  BY DEF OpToRel
<1>4. \E n \in Sizes : \A m \in Sizes : ~(<<m, n>> \in R)
  <2> HIDE DEF Sizes, R
  <2>1. IsWellFoundedOn(R, Nat)
    BY NatLessThanWellFounded DEF R
  <2>2. QED  BY <1>2, <2>1, WFMin
<1>5. PICK C \in SUBSET S : Stuck(C) /\ \A T \in SUBSET S : Stuck(T) => Cardinality(C) <= Cardinality(T)
  <2>1. PICK n \in Sizes : \A m \in Sizes : ~(<<m, n>> \in R)
    BY <1>4
  <2>2. PICK C \in SUBSET S : Stuck(C) /\ n = Cardinality(C)
    BY <2>1
  <2>3. ASSUME NEW T \in SUBSET S, Stuck(T) PROVE n <= Cardinality(T)
    <3>1. Cardinality(T) \in Sizes
      BY <2>3
    <3>2. Cardinality(T) \in Nat /\ n \in Nat
      BY <1>1, <2>2
    <3>3. ~(Cardinality(T) < n)
      <4> HIDE DEF R, Sizes
      <4>1. QED  BY <1>3, <2>1, <3>1, <3>2
    <3>4. QED  BY <3>2, <3>3
  <2>4. QED  BY <2>2, <2>3
<1>6. ASSUME NEW T \in SUBSET C, Stuck(T) PROVE T = C
  <2>1. Cardinality(C) <= Cardinality(T) /\ IsFiniteSet(C)
    BY <1>1, <1>5, <1>6
  <2>2. Cardinality(T) <= Cardinality(C) /\ (Cardinality(C) = Cardinality(T) => C = T)
    BY <2>1, FS_Subset
  <2>3. QED  BY <1>1, <2>1, <2>2
<1>7. QED  BY <1>5, <1>6 DEF Circle

\* A transaction that cannot go on waits for one that is not done either.
LEMMA WaitsForAnother ==
  ASSUME IInv, LocksInRuns, Questions \cap Docs = {},
         NEW x \in Transactions, InTransaction(x), ~GoesOn(x)
  PROVE  \E y \in WaitsFor(x) : y \in Transactions /\ InTransaction(y)
<1>1. CASE x \in Questions
  <2>1. question[x].pc = "cite" /\ question[x].cites # question[x].chunks
    BY <1>1 DEF InTransaction, GoesOn, Writing
  <2>2. question[x].cites \subseteq question[x].chunks /\ question[x].chunks \subseteq Chunks
    BY <1>1 DEF IInv, Sound, Asked, TypeOK, QuestionRecord
  <2>3. PICK c \in question[x].chunks \ question[x].cites : Held(c)
    BY <1>1, <2>1, <2>2 DEF GoesOn
  <2>4. c[1] \in Docs
    BY <2>2, <2>3 DEF Chunks
  <2>5. c[1] \in WaitsFor(x)
    BY <1>1, <2>1, <2>3, <2>4 DEF WaitsFor
  <2>6. InTransaction(c[1])
    BY <2>3, <2>4 DEF InTransaction, Held, LocksInRuns
  <2>7. QED  BY <2>4, <2>5, <2>6 DEF Transactions
<1>2. CASE x \notin Questions
  <2>1. x \in Docs /\ index[x] \in IndexRecord
    BY <1>2 DEF Transactions, IInv, TypeOK
  <2>2. index[x].pc = "delete" /\ rows[x] # 0 /\ index[x].held # Parts
    BY <1>2, <2>1 DEF InTransaction, GoesOn, IndexRecord, IndexPc
  <2>3. PICK p \in Parts \ index[x].held : Pending(<<x, p, rows[x]>>)
    BY <1>2, <2>1, <2>2 DEF GoesOn, IndexRecord
  <2>4. PICK q \in Questions : <<x, p, rows[x]>> \in question[q].cites
    BY <2>3 DEF Pending
  <2>5. q \in WaitsFor(x)
    BY <1>2, <2>2, <2>4 DEF WaitsFor, HasRow
  <2>6. InTransaction(q)
    BY <2>4 DEF InTransaction, IInv, Sound, Asked
  <2>7. QED  BY <2>4, <2>5, <2>6 DEF Transactions
<1>3. QED  BY <1>1, <1>2

\* As long as an answer's transaction (RetrievalService.answer) or a processing run's
\* (IngestionJobProcessor.process) is open, one of them has a step to take or
\* Postgres finds a circle to break: the two never wait for each other unseen.
THEOREM DeadlocksAreSeen ==
  ASSUME IsFiniteSet(Questions), Questions \cap Docs = {}
  PROVE  Spec => []((\E x \in Transactions : InTransaction(x)) =>
                      \/ \E x \in Transactions : InTransaction(x) /\ GoesOn(x)
                      \/ \E S \in SUBSET Transactions : Circle(S))
<1> DEFINE Seen == (\E x \in Transactions : InTransaction(x)) =>
                      \/ \E x \in Transactions : InTransaction(x) /\ GoesOn(x)
                      \/ \E S \in SUBSET Transactions : Circle(S)
<1>1. ASSUME IInv, LocksInRuns PROVE Seen
  <2> DEFINE Open == {x \in Transactions : InTransaction(x)}
  <2>1. SUFFICES ASSUME Open # {}, \A x \in Open : ~GoesOn(x)
                 PROVE  \E S \in SUBSET Transactions : Circle(S)
    OBVIOUS
  <2>2. ASSUME NEW x \in Open PROVE WaitsFor(x) \cap Open # {}
    BY <1>1, <2>1, <2>2, WaitsForAnother
  <2>3. Stuck(Open)
    BY <2>1, <2>2 DEF Stuck
  <2>4. IsFiniteSet(Open)
    <3>1. IsFiniteSet(Transactions)
      BY RetrievalAssumption, FS_Union DEF Transactions
    <3>2. QED  BY <3>1, FS_Subset
  <2>5. PICK C \in SUBSET Open : Circle(C)
    <3> HIDE DEF Open
    <3>1. QED  BY <2>3, <2>4, StuckHasCircle
  <2>6. QED  BY <2>5
<1>2. Init => LocksInRuns
  BY DEF Init, LocksInRuns, NotIndexing
<1>3. IInv /\ LocksInRuns /\ [Next]_vars => LocksInRuns'
  BY LocksInRunsStep DEF IInv
<1>4. QED  BY <1>1, <1>2, <1>3, Invariant, PTL DEF Spec

=============================================================================
