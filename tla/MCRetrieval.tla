---------------------------- MODULE MCRetrieval ----------------------------
(***************************************************************************)
(* Retrieval for TLC: a tenant with all the documents and two users, and    *)
(* another tenant with a user and no document.                              *)
(***************************************************************************)
EXTENDS Retrieval, TLC

CONSTANTS t1, t2, u1, u2, u3

MCOwner == [d \in Docs |-> t1]
MCTenantOf == [u \in Callers |-> IF u = u3 THEN t2 ELSE t1]

Symmetry ==
    Permutations(Docs) \cup Permutations(Parts) \cup Permutations(Questions)
      \cup Permutations(Chats) \cup Permutations({u1, u2})

=============================================================================
