---------------------------- MODULE MCIngestion ----------------------------
(***************************************************************************)
(* Ingestion for TLC: tenants, documents, jobs, requests and handlers are   *)
(* sets of interchangeable model values.                                   *)
(***************************************************************************)
EXTENDS Ingestion, TLC

Symmetry ==
    Permutations(Tenants) \cup Permutations(Docs) \cup Permutations(Jobs)
      \cup Permutations(Requests) \cup Permutations(Handlers) \cup Permutations(Answers)

=============================================================================
