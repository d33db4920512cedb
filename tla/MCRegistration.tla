-------------------------- MODULE MCRegistration --------------------------
(***************************************************************************)
(* Registration for TLC: two spellings of one mail address and another      *)
(* address.                                                                 *)
(***************************************************************************)
EXTENDS Registration, TLC

CONSTANTS e1, e2, e3

MCAddressOf == [e \in Emails |-> IF e = e2 THEN e1 ELSE e]

Symmetry ==
    Permutations(Users) \cup Permutations(Tenants) \cup Permutations(Verifications)
      \cup Permutations(Sessions) \cup Permutations(Slugs) \cup Permutations(Requests)
      \cup Permutations({e1, e2})

=============================================================================
