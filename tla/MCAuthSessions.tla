--------------------------- MODULE MCAuthSessions ---------------------------
(***************************************************************************)
(* AuthSessions for TLC: all identities are interchangeable model values.   *)
(***************************************************************************)
EXTENDS AuthSessions, TLC

Symmetry ==
    Permutations(Sessions) \cup Permutations(Tokens) \cup Permutations(Resets)
      \cup Permutations(Requests) \cup Permutations(Addresses)

=============================================================================
