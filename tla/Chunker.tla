------------------------------ MODULE Chunker ------------------------------
(***************************************************************************)
(* TextChunker.split of the embedding worker: the loop that cuts a text     *)
(* into overlapping slices.  A text is a sequence of characters of which    *)
(* only "word" and "blank" are told apart; positions count from 0 and a     *)
(* slice start .. end-1 excludes its end, as in the code.                   *)
(***************************************************************************)
EXTENDS Integers, Sequences

CONSTANTS
    Texts,       \* texts that are cut
    Sizes,       \* values of CHUNK_SIZE
    Overlaps     \* values of CHUNK_OVERLAP

ASSUME ChunkerAssumption ==
    /\ Texts \subseteq Seq({"word", "blank"})
    /\ Sizes \subseteq Int
    /\ Overlaps \subseteq Int

VARIABLES
    normalized,  \* the stripped text
    size,        \* chunk_size
    overlap,     \* chunk_overlap
    start,       \* where the next slice begins
    index,       \* the index of the next chunk
    chunks,      \* the chunks so far
    done         \* the loop has ended

settings == <<normalized, size, overlap>>
vars == <<normalized, size, overlap, start, index, chunks, done>>

Chunk == [index : Nat, start : Nat, end : Nat]

TypeOK ==
    /\ normalized \in Texts
    /\ size \in Sizes
    /\ overlap \in Overlaps
    /\ start \in Nat
    /\ index \in Nat
    /\ chunks \in Seq(Chunk)
    /\ done \in BOOLEAN

\* Settings.validate_provider_config.
ValidSettings(s, o) == s > 0 /\ o >= 0 /\ o < s

\* What strip returns: a text that neither begins nor ends with a blank.
Stripped(t) == t = <<>> \/ (t[1] = "word" /\ t[Len(t)] = "word")

Init ==
    /\ normalized \in {t \in Texts : Stripped(t)}
    /\ size \in Sizes
    /\ overlap \in Overlaps
    /\ ValidSettings(size, overlap)
    /\ start = 0
    /\ index = 0
    /\ chunks = <<>>
    /\ done = FALSE

-----------------------------------------------------------------------------
Smaller(a, b) == IF a <= b THEN a ELSE b
Larger(a, b) == IF a >= b THEN a ELSE b

\* Some character of the slice from a up to b is not blank.
HasWord(a, b) == \E p \in a .. b - 1 : normalized[p + 1] = "word"

SliceEnd == Smaller(start + size, Len(normalized))

\* Mutants of NextStart: the overlap is one short; a slice without content is
\* skipped by a "continue" that skips the step too; the overlap is taken from start.
NextStartOffByOne(end) == Larger(end - overlap + 1, start + 1)
NextStartContinue(end) ==
    IF HasWord(start, end) THEN Larger(end - overlap, start + 1) ELSE start
NextStartFromStart(end) == start - overlap

NextStart(end) == Larger(end - overlap, start + 1)

\* Mutant of AtEnd: the loop ends only when start has passed the text.
AtEndNever(end) == FALSE

AtEnd(end) == end = Len(normalized)

\* One iteration of the while loop.
Cut ==
    LET end == SliceEnd IN
    /\ ~done
    /\ start < Len(normalized)
    /\ IF HasWord(start, end)
         THEN /\ chunks' = Append(chunks, [index |-> index, start |-> start, end |-> end])
              /\ index' = index + 1
         ELSE UNCHANGED <<chunks, index>>
    /\ IF AtEnd(end) THEN done' = TRUE /\ UNCHANGED start
                     ELSE start' = NextStart(end) /\ UNCHANGED done
    /\ UNCHANGED settings

\* The condition of the loop fails.
LeaveLoop ==
    /\ ~done
    /\ start >= Len(normalized)
    /\ done' = TRUE
    /\ UNCHANGED <<settings, start, index, chunks>>

Returned == done /\ UNCHANGED vars

Next == Cut \/ LeaveLoop \/ Returned

Spec == Init /\ [][Next]_vars /\ WF_vars(Cut \/ LeaveLoop)

-----------------------------------------------------------------------------
\* The characters a .. b-1 are in one chunk.
InOneChunk(a, b) ==
    \E i \in DOMAIN chunks : chunks[i].start <= a /\ b <= chunks[i].end

\* The purpose of the overlap: a phrase that is no longer than the overlap plus
\* one character is never cut apart, wherever it stands and whatever blanks
\* surround it.  For one character: nothing of the text is lost.
PhrasesStayWhole ==
    done => \A a, b \in 0 .. Len(normalized) :
        (b - a \in 1 .. overlap + 1 /\ HasWord(a, b)) => InOneChunk(a, b)

\* Every chunk reaches further than the ones before it and has a higher index:
\* no chunk repeats another, and (documentVersionId, chunkIndex) is unique.
ChunksAdvance ==
    \A i, j \in DOMAIN chunks : i < j =>
        /\ chunks[i].index < chunks[j].index
        /\ chunks[i].start < chunks[j].start
        /\ chunks[i].end < chunks[j].end

\* split always returns: the loop makes progress for every valid setting.
Terminates == <>done

=============================================================================
