----------------------------- MODULE MCWebSession -----------------------------
(***************************************************************************)
(* WebSession for TLC: all identities are interchangeable model values.     *)
(***************************************************************************)
EXTENDS WebSession, TLC

WebSymmetry == Permutations(Sessions) \cup Permutations(Tokens) \cup Permutations(Requests)

=============================================================================
