------------------------------- MODULE Corpus -------------------------------
(***************************************************************************)
(* What the pipeline promises to those who read: a corpus of documents,     *)
(* each with at most one edition on the shelf, the chunk rows that          *)
(* questions are answered from.  An edition is put up in one piece and      *)
(* together with the status indexed, a failure leaves the shelf as it is,   *)
(* and an edition that an answer cites stays for good.  Nothing is said     *)
(* here of jobs, messages, workers, transactions and crashes; Ingestion     *)
(* shows that they come to this.                                            *)
(***************************************************************************)
CONSTANTS Docs, Editions, None

VARIABLES
    status,      \* the status of a document that users see
    removed,     \* the documents their users have deleted
    shelf,       \* the edition of a document
    cited        \* the editions that answers cite

vars == <<status, removed, shelf, cited>>

Init ==
    /\ status = [d \in Docs |-> "none"]
    /\ removed = {}
    /\ shelf = [d \in Docs |-> None]
    /\ cited = {}

Exists(d) == status[d] # "none"
SetStatus(d, s) == status' = [status EXCEPT ![d] = s]

Add(d) ==
    /\ ~Exists(d)
    /\ SetStatus(d, "queued")
    /\ UNCHANGED <<removed, shelf, cited>>

\* A user asks for a retry or a new edition.
Queue(d) ==
    /\ Exists(d)
    /\ d \notin removed
    /\ SetStatus(d, "queued")
    /\ UNCHANGED <<removed, shelf, cited>>

\* A new edition replaces one that no answer cites.
Index(d) ==
    /\ Exists(d)
    /\ shelf[d] \notin cited
    /\ SetStatus(d, "indexed")
    /\ shelf'[d] \in Editions /\ shelf'[d] # shelf[d]
    /\ shelf' = [shelf EXCEPT ![d] = shelf'[d]]
    /\ UNCHANGED <<removed, cited>>

Fail(d) ==
    /\ Exists(d)
    /\ SetStatus(d, "failed")
    /\ UNCHANGED <<removed, shelf, cited>>

Remove(d) ==
    /\ Exists(d)
    /\ d \notin removed
    /\ removed' = removed \cup {d}
    /\ SetStatus(d, "deleted")
    /\ UNCHANGED <<shelf, cited>>

Cite(d) ==
    /\ shelf[d] # None
    /\ cited' = cited \cup {shelf[d]}
    /\ UNCHANGED <<status, removed, shelf>>

Next ==
    \E d \in Docs :
        Add(d) \/ Queue(d) \/ Index(d) \/ Fail(d) \/ Remove(d) \/ Cite(d)

Spec == Init /\ [][Next]_vars

=============================================================================
