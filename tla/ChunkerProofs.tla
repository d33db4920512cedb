--------------------------- MODULE ChunkerProofs ---------------------------
(***************************************************************************)
(* Theorems about Chunker, for all texts, sizes and overlaps.  The          *)
(* invariant behind them says how far the slices reach: outside the loop's  *)
(* first iteration that is the overlap beyond start.                        *)
(***************************************************************************)
EXTENDS Chunker, TLAPS

\* The end of the last slice.
Reach ==
    IF done THEN Len(normalized) ELSE IF start = 0 THEN 0 ELSE start + overlap

\* A phrase of the length the overlap protects.
Phrase(a, b) == b - a \in 1 .. overlap + 1 /\ HasWord(a, b)

Kept == \A a, b \in 0 .. Reach : Phrase(a, b) => InOneChunk(a, b)

Progress ==
    ~done => /\ start = 0 => chunks = <<>>
             /\ start # 0 => start + overlap < Len(normalized)
             /\ \A i \in DOMAIN chunks :
                  chunks[i].start < start /\ chunks[i].end <= start + overlap

Numbered ==
    /\ index = Len(chunks)
    /\ \A i \in DOMAIN chunks : chunks[i].index = i - 1

Inv ==
    /\ TypeOK
    /\ ValidSettings(size, overlap)
    /\ Kept
    /\ Progress
    /\ Numbered
    /\ ChunksAdvance

-----------------------------------------------------------------------------
\* The settings and positions are numbers, and the text has a length.
LEMMA Numbers ==
  ASSUME TypeOK
  PROVE  /\ Len(normalized) \in Nat
         /\ size \in Int
         /\ overlap \in Int
         /\ start \in Nat
         /\ index \in Nat
  BY ChunkerAssumption DEF TypeOK

\* Where a slice ends: after start, within the text, and before the end of the
\* text only if it has the full size.
LEMMA EndOfSlice ==
  ASSUME TypeOK, ValidSettings(size, overlap), start < Len(normalized)
  PROVE  /\ SliceEnd \in Nat
         /\ start < SliceEnd
         /\ SliceEnd <= Len(normalized)
         /\ SliceEnd # Len(normalized) => SliceEnd = start + size
  BY Numbers DEF ValidSettings, SliceEnd, Smaller

\* A slice reaches further than the one before it.
LEMMA SliceAdvances ==
  ASSUME TypeOK, ValidSettings(size, overlap), Progress, ~done,
         start < Len(normalized)
  PROVE  Reach \in Nat /\ Reach < SliceEnd
  BY Numbers, EndOfSlice DEF ValidSettings, Progress, Reach, SliceEnd, Smaller

\* A phrase that is not complete before a slice and is complete in it lies
\* within the slice.
LEMMA NewPhraseInSlice ==
  ASSUME TypeOK, ValidSettings(size, overlap), ~done,
         NEW a \in Nat, NEW b \in Nat,
         b - a \in 1 .. overlap + 1, b > Reach
  PROVE  start <= a
  BY Numbers DEF ValidSettings, Reach

\* The loop starts with nothing cut.
LEMMA InitInv == Init => Inv
  <1> SUFFICES ASSUME Init PROVE Inv
    OBVIOUS
  <1>1. TypeOK
    <2>1. chunks \in Seq(Chunk)
      BY DEF Init
    <2> QED
      BY <2>1 DEF Init, TypeOK
  <1>2. Kept
    BY DEF Init, Kept, Reach, Phrase
  <1> QED
    BY <1>1, <1>2 DEF Init, Inv, Progress, Numbered, ChunksAdvance

\* What one iteration keeps, in terms of the chunk it may append.
LEMMA CutStep == Inv /\ Cut => Inv'
  <1> SUFFICES ASSUME Inv, Cut PROVE Inv'
    OBVIOUS
  <1> DEFINE end == SliceEnd
             new == [index |-> index, start |-> start, end |-> end]
  <1>1. TypeOK /\ ValidSettings(size, overlap) /\ ~done /\ start < Len(normalized)
    BY DEF Inv, Cut
  <1>2. /\ Len(normalized) \in Nat
        /\ size \in Int
        /\ overlap \in Nat
        /\ overlap < size
        /\ start \in Nat
        /\ index \in Nat
    BY <1>1, Numbers DEF ValidSettings
  <1>3. /\ end \in Nat
        /\ start < end
        /\ end <= Len(normalized)
        /\ end # Len(normalized) => end = start + size
    BY <1>1, EndOfSlice
  <1>4. Reach \in Nat /\ Reach < end
    BY <1>1, SliceAdvances DEF Inv
  <1>5. new \in Chunk
    BY <1>2, <1>3 DEF Chunk
  <1>6. UNCHANGED settings /\ ValidSettings(size, overlap)'
    BY <1>1 DEF Cut, settings, ValidSettings
  <1> HIDE DEF end, new
  <1>7. /\ \/ HasWord(start, end) /\ chunks' = Append(chunks, new) /\ index' = index + 1
           \/ ~HasWord(start, end) /\ chunks' = chunks /\ index' = index
        /\ \/ end = Len(normalized) /\ done' = TRUE /\ start' = start
           \/ /\ end # Len(normalized)
              /\ done' = FALSE
              /\ start' = end - overlap
    <2>1. NextStart(end) = end - overlap \/ end = Len(normalized)
      BY <1>2, <1>3 DEF NextStart, Larger
    <2> QED
      BY <1>1, <2>1 DEF Cut, AtEnd, end, new
  <1>8. start' \in Nat
    BY <1>2, <1>3, <1>7
  <1>9. TypeOK'
    <2>1. chunks' \in Seq(Chunk)
      BY <1>1, <1>5, <1>7 DEF TypeOK
    <2>2. index' \in Nat
      BY <1>2, <1>7
    <2> QED
      BY <1>1, <1>6, <1>7, <1>8, <2>1, <2>2 DEF TypeOK, settings
  <1>10. Reach' = end
    BY <1>2, <1>3, <1>6, <1>7 DEF Reach, settings
  <1>11. chunks \in Seq(Chunk) /\ Len(chunks) \in Nat
    BY <1>1 DEF TypeOK
  <1>12. /\ Len(chunks') = IF HasWord(start, end) THEN Len(chunks) + 1 ELSE Len(chunks)
         /\ \A i \in DOMAIN chunks : i \in DOMAIN chunks' /\ chunks'[i] = chunks[i]
         /\ \A i \in DOMAIN chunks' :
              i \in DOMAIN chunks
                \/ (HasWord(start, end) /\ i = Len(chunks) + 1 /\ chunks'[i] = new)
    BY <1>5, <1>7, <1>11
  <1>13. Kept'
    <2> SUFFICES ASSUME NEW a \in (0 .. Reach)', NEW b \in (0 .. Reach)', Phrase(a, b)'
                 PROVE  InOneChunk(a, b)'
      BY DEF Kept
    <2>1. a \in 0 .. end /\ b \in 0 .. end /\ Phrase(a, b)
      BY <1>6, <1>10 DEF Phrase, HasWord, settings
    <2>2. CASE b <= Reach
      <3>1. InOneChunk(a, b)
        <4>1. a \in 0 .. Reach /\ b \in 0 .. Reach
          BY <1>2, <1>3, <1>4, <2>1, <2>2 DEF Phrase
        <4> QED
          BY <2>1, <4>1 DEF Inv, Kept
      <3> QED
        BY <3>1, <1>12 DEF InOneChunk
    <2>3. CASE b > Reach
      <3>1. start <= a
        BY <1>1, <1>3, <2>1, <2>3, NewPhraseInSlice DEF Phrase
      <3>2. HasWord(start, end)
        BY <1>2, <1>3, <2>1, <3>1 DEF Phrase, HasWord
      <3>3. Len(chunks) + 1 \in DOMAIN chunks' /\ chunks'[Len(chunks) + 1] = new
        BY <1>5, <1>7, <1>11, <3>2
      <3>4. new.start <= a /\ b <= new.end
        BY <1>3, <2>1, <3>1 DEF new
      <3> QED
        BY <3>3, <3>4 DEF InOneChunk
    <2> QED
      BY <1>4, <2>1, <2>2, <2>3
  <1>14. \A i \in DOMAIN chunks : chunks[i].start \in Nat /\ chunks[i].end \in Nat
    <2> TAKE i \in DOMAIN chunks
    <2>1. chunks[i] \in Chunk
      BY <1>11
    <2> QED
      BY <2>1 DEF Chunk
  <1>15. \A i \in DOMAIN chunks : chunks[i].start < start /\ chunks[i].end <= Reach
    <2>1. CASE start = 0
      BY <1>1, <2>1 DEF Inv, Progress
    <2>2. CASE start # 0
      BY <1>1, <2>2 DEF Inv, Progress, Reach
    <2> QED
      BY <2>1, <2>2
  <1>16. Progress'
    <2>1. CASE end = Len(normalized)
      BY <1>7, <2>1 DEF Progress
    <2>2. CASE end # Len(normalized)
      <3>1. start' > start /\ start' # 0 /\ start' + overlap = end
        BY <1>2, <1>3, <1>7, <2>2
      <3>2. ASSUME NEW i \in DOMAIN chunks'
            PROVE  chunks'[i].start < start' /\ chunks'[i].end <= start' + overlap
        <4>1. CASE i \in DOMAIN chunks
          <5>1. chunks'[i] = chunks[i]
            BY <1>12, <4>1
          <5>2. chunks[i].start < start /\ chunks[i].end <= Reach
            BY <1>15, <4>1
          <5>3. chunks[i].start \in Nat /\ chunks[i].end \in Nat
            BY <1>14, <4>1
          <5>4. chunks[i].start < start'
            BY <1>2, <1>8, <3>1, <5>2, <5>3
          <5>5. chunks[i].end <= start' + overlap
            BY <1>3, <1>4, <3>1, <5>2, <5>3
          <5> QED
            BY <5>1, <5>4, <5>5
        <4>2. CASE chunks'[i] = new
          BY <1>2, <1>3, <3>1, <4>2 DEF new
        <4> QED
          BY <1>12, <4>1, <4>2
      <3> QED
        BY <1>2, <1>3, <1>6, <2>2, <3>1, <3>2 DEF Progress, settings
    <2> QED
      BY <2>1, <2>2
  <1>17. Numbered'
    <2>1. index = Len(chunks) /\ \A i \in DOMAIN chunks : chunks[i].index = i - 1
      BY DEF Inv, Numbered
    <2>2. index' = Len(chunks')
      BY <1>7, <1>12, <2>1
    <2>3. ASSUME NEW i \in DOMAIN chunks' PROVE chunks'[i].index = i - 1
      BY <1>11, <1>12, <2>1 DEF new
    <2> QED
      BY <2>2, <2>3 DEF Numbered
  <1>18. ChunksAdvance'
    <2> SUFFICES ASSUME NEW i \in DOMAIN chunks', NEW j \in DOMAIN chunks', i < j
                 PROVE  /\ chunks'[i].index < chunks'[j].index
                        /\ chunks'[i].start < chunks'[j].start
                        /\ chunks'[i].end < chunks'[j].end
      BY DEF ChunksAdvance
    <2>1. DOMAIN chunks = 1 .. Len(chunks) /\ DOMAIN chunks' \subseteq 1 .. Len(chunks) + 1
      BY <1>11, <1>12
    <2>2. i \in DOMAIN chunks
      BY <1>11, <1>12, <2>1
    <2>3. CASE j \in DOMAIN chunks
      BY <1>12, <2>2, <2>3 DEF Inv, ChunksAdvance
    <2>4. CASE chunks'[j] = new /\ j = Len(chunks) + 1
      <3>1. chunks'[i].start < start /\ chunks'[i].end < end
        BY <1>3, <1>4, <1>12, <1>14, <1>15, <2>2
      <3>2. chunks'[i].index < chunks'[j].index
        BY <1>11, <1>17, <2>1, <2>2, <2>4 DEF Numbered
      <3> QED
        BY <2>4, <3>1, <3>2 DEF new
    <2> QED
      BY <1>12, <2>3, <2>4
  <1> QED
    BY <1>6, <1>9, <1>13, <1>16, <1>17, <1>18 DEF Inv

\* Leaving the loop happens only for the empty text, and returning changes nothing.
LEMMA RestStep == Inv /\ (LeaveLoop \/ UNCHANGED vars) => Inv'
  <1>1. ASSUME Inv, LeaveLoop PROVE Inv'
    <2>1. TypeOK /\ ~done /\ start >= Len(normalized)
      BY <1>1 DEF Inv, LeaveLoop
    <2>2. /\ UNCHANGED <<normalized, size, overlap, start, index, chunks>>
          /\ done' = TRUE
      BY <1>1 DEF LeaveLoop, settings
    <2>3. TypeOK'
      BY <2>1, <2>2 DEF TypeOK
    <2>4. Len(normalized) = 0
      BY <1>1, <2>1, Numbers DEF Inv, Progress, ValidSettings
    <2>5. Kept'
      BY <2>2, <2>4 DEF Kept, Reach, Phrase
    <2> QED
      BY <1>1, <2>2, <2>3, <2>5
      DEF Inv, ValidSettings, Progress, Numbered, ChunksAdvance
  <1>2. ASSUME Inv, UNCHANGED vars PROVE Inv'
    BY <1>2
    DEF Inv, vars, settings, TypeOK, ValidSettings, Kept, Reach, Phrase, HasWord, InOneChunk,
        Progress, Numbered, ChunksAdvance
  <1> QED
    BY <1>1, <1>2

LEMMA InvHolds == Spec => []Inv
  <1>1. Inv /\ [Next]_vars => Inv'
    BY CutStep, RestStep DEF Next, Returned
  <1> QED
    BY <1>1, InitInv, PTL DEF Spec

\* For every text and every valid setting: the position and the index
\* stay natural numbers, and the chunks cut so far are a sequence of chunk records.
THEOREM TypeCorrect == Spec => []TypeOK
  <1>1. Inv => TypeOK
    BY DEF Inv
  <1> QED
    BY <1>1, InvHolds, PTL

\* For every text and every valid setting: a phrase of at most one character more
\* than the overlap is whole in one of the chunks that split returns.
THEOREM NoPhraseIsCut == Spec => []PhrasesStayWhole
  <1>1. Inv => PhrasesStayWhole
    BY DEF Inv, Kept, Reach, Phrase, PhrasesStayWhole
  <1> QED
    BY <1>1, InvHolds, PTL

\* For every text and every valid setting: each chunk begins and ends after the
\* chunks before it and has an index of its own.
THEOREM NoChunkRepeats == Spec => []ChunksAdvance
  <1>1. Inv => ChunksAdvance
    BY DEF Inv
  <1> QED
    BY <1>1, InvHolds, PTL

-----------------------------------------------------------------------------
(***************************************************************************)
(* How often the loop runs.                                                *)
(***************************************************************************)

\* An iteration that is not the last one takes start further by what a slice has
\* beyond the overlap, which is at least one character, and stays within the text.
Strides ==
    Cut => \/ done'
           \/ /\ start' = start + (size - overlap)
              /\ start < start'
              /\ start' < Len(normalized)

\* No chunk without a character of its own.
Sparse == Len(chunks) <= IF done THEN Len(normalized) ELSE start

LEMMA CutStrides == Inv /\ Cut => Strides
  <1> SUFFICES ASSUME Inv, Cut, ~done'
               PROVE  start' = start + (size - overlap) /\ start < start' /\ start' < Len(normalized)
    BY DEF Strides
  <1>1. TypeOK /\ ValidSettings(size, overlap) /\ start < Len(normalized)
    BY DEF Inv, Cut
  <1>2. /\ Len(normalized) \in Nat
        /\ start \in Nat
        /\ size \in Int /\ overlap \in Int
        /\ 0 <= overlap /\ overlap < size
    BY <1>1, Numbers DEF ValidSettings
  <1>3. /\ SliceEnd = start + size
        /\ SliceEnd < Len(normalized)
        /\ start' = NextStart(SliceEnd)
    BY <1>1, <1>2, EndOfSlice DEF Cut, AtEnd
  <1> QED
    BY <1>2, <1>3 DEF NextStart, Larger

LEMMA SparseStep == Inv /\ Sparse /\ [Next]_vars => Sparse'
  <1> SUFFICES ASSUME Inv, Sparse, [Next]_vars PROVE Sparse'
    OBVIOUS
  <1>1. chunks \in Seq(Chunk) /\ Len(chunks) \in Nat /\ Len(normalized) \in Nat /\ start \in Nat
    BY Numbers DEF Inv, TypeOK
  <1>2. CASE Cut
    <2>1. ~done /\ start < Len(normalized) /\ normalized' = normalized
      BY <1>2 DEF Cut, settings
    <2>2. Len(chunks') <= Len(chunks) + 1
      <3> DEFINE new == [index |-> index, start |-> start, end |-> SliceEnd]
      <3>1. chunks' = chunks \/ chunks' = Append(chunks, new)
        BY <1>2 DEF Cut
      <3> HIDE DEF new
      <3> QED
        BY <1>1, <3>1
    <2>3. Len(chunks') \in Nat /\ start' \in Nat
      BY <1>2, CutStep DEF Inv, TypeOK
    <2>4. done' \/ start + 1 <= start'
      BY <1>1, <1>2, <2>3, CutStrides DEF Strides
    <2> QED
      BY <1>1, <2>1, <2>2, <2>3, <2>4 DEF Sparse
  <1>3. CASE LeaveLoop
    <2>1. overlap \in Int /\ 0 <= overlap /\ ~done /\ start >= Len(normalized)
      BY <1>3, Numbers DEF LeaveLoop, Inv, ValidSettings
    <2>2. start = 0 => chunks = <<>>
      BY <2>1 DEF Inv, Progress
    <2>3. start # 0 => start + overlap < Len(normalized)
      BY <2>1 DEF Inv, Progress
    <2>4. Len(chunks) = 0
      BY <1>1, <2>1, <2>2, <2>3
    <2> QED
      BY <1>1, <1>3, <2>4 DEF LeaveLoop, settings, Sparse
  <1>4. CASE UNCHANGED vars
    BY <1>4 DEF vars, Sparse
  <1> QED
    BY <1>2, <1>3, <1>4 DEF Next, Returned

\* For every text and every valid setting: each iteration of split but the last moves
\* start by size - overlap > 0 characters, so that the loop ends; the other argument of
\* max(end - overlap, start + 1) never decides.
THEOREM LoopStrides == Spec => [][Strides]_vars
  <1>1. Inv /\ [Next]_vars => [Strides]_vars
    BY CutStrides DEF Strides
  <1> QED
    BY <1>1, InvHolds, PTL DEF Spec

\* For every text and every valid setting: split never makes more chunks than the
\* text has characters.
THEOREM ChunksAreFew == Spec => [](Len(chunks) <= Len(normalized))
  <1>1. Inv /\ Sparse => Len(chunks) <= Len(normalized)
    <2> SUFFICES ASSUME Inv, Sparse, ~done PROVE Len(chunks) <= Len(normalized)
      BY DEF Sparse
    <2>1. /\ Len(normalized) \in Nat /\ start \in Nat /\ Len(chunks) \in Nat
          /\ overlap \in Int /\ 0 <= overlap
      BY Numbers DEF Inv, TypeOK, ValidSettings
    <2>2. start = 0 \/ start + overlap < Len(normalized)
      BY DEF Inv, Progress
    <2> QED
      BY <2>1, <2>2 DEF Sparse
  <1>2. Init => Sparse
    BY DEF Init, Sparse
  <1> QED
    BY <1>1, <1>2, InvHolds, SparseStep, PTL DEF Spec

=============================================================================
