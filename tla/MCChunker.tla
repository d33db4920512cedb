----------------------------- MODULE MCChunker -----------------------------
(***************************************************************************)
(* Chunker for TLC: every text of up to MaxLength characters.               *)
(***************************************************************************)
EXTENDS Chunker

CONSTANT MaxLength

MCTexts == UNION {[1 .. n -> {"word", "blank"}] : n \in 0 .. MaxLength}
MCSizes == 0 .. 5
MCOverlaps == 0 .. 5

=============================================================================
