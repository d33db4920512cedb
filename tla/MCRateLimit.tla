---------------------------- MODULE MCRateLimit ----------------------------
(***************************************************************************)
(* RateLimit for TLC: two addresses that try one account.                   *)
(***************************************************************************)
EXTENDS RateLimit, TLC

CONSTANTS a1, a2, s1

MCLimit == [k \in Keys |-> IF k \in Addresses THEN 2 ELSE 1]

Symmetry == Permutations(Addresses) \cup Permutations(Requests)

=============================================================================
