--------------------------- MODULE RateLimitProofs ---------------------------
(***************************************************************************)
(* Proofs about RateLimit: for any keys, limits, windows and number of      *)
(* attempts at once.                                                        *)
(*                                                                          *)
(* The four properties follow from one invariant.  An attempt that has      *)
(* written a row keeps everybody else from it, so that the row a fresh      *)
(* write replaces is still the one it was made of when it commits.  And     *)
(* whatever overtakes an attempt or is rolled back, those that got past a   *)
(* limit and are not missed are never more than its row counts.             *)
(***************************************************************************)
EXTENDS RateLimit, TLAPS

\* The row of a key is written by one transaction at a time.
OneHolder ==
    \A r, o \in Requests : \A k \in Keys :
        k \in attempt[r].held /\ k \in attempt[o].held => r = o

\* An attempt that is at a limit has a limit to look at.
HasKey == \A r \in Requests : attempt[r].pc \in {"find", "save"} => attempt[r].todo # <<>>

\* Attempts do not come from the future.
Past == \A r \in Requests : attempt[r].now <= clock

\* A lock that was read is not in force.
SeenUnlocked ==
    \A r \in Requests : attempt[r].pc = "save" => attempt[r].seen.locked <= attempt[r].now

\* A fresh write is made of the row that is still there.
Fresh(k, w, now) ==
    ~w.stale => w.row = NewRow(k, table[k], now) /\ table[k].locked <= now

\* What an attempt has written locks nothing.
WrittenFresh ==
    \A r \in Requests : \A k \in attempt[r].held :
        /\ attempt[r].written[k].row.locked = 0
        /\ Fresh(k, attempt[r].written[k], attempt[r].now)

\* Those that got past a limit, without the missed ones, are no more than n and no
\* more than the limit admits.
Covered(k, t, n) == t.past <= t.missed + n /\ t.past <= t.missed + Limit[k]

\* So it is of the rows in the table, of the rows that were read, and of the rows
\* that are written once their attempt has got past the limits too.
Counted == \A k \in Keys : Covered(k, tally[k], table[k].attempts)

SeenCounted ==
    \A r \in Requests : attempt[r].pc = "save" =>
        Covered(Key(r), attempt[r].before, attempt[r].seen.attempts)

Counts(k, w) ==
    w.tally.past + 1 <= w.tally.missed + w.row.attempts /\ w.row.attempts <= Limit[k]

WrittenCounted == \A r \in Requests : \A k \in attempt[r].held : Counts(k, attempt[r].written[k])

IInv ==
    /\ TypeOK
    /\ OneHolder
    /\ HasKey
    /\ Past
    /\ SeenUnlocked
    /\ WrittenFresh
    /\ Counted
    /\ SeenCounted
    /\ WrittenCounted

-----------------------------------------------------------------------------
\* The limits of an action are a sequence of keys, and there is one.
LEMMA KeyListsType ==
    ASSUME NEW keys \in KeyLists
    PROVE  keys \in Seq(Keys) /\ keys # <<>>
<1>1. CASE Subjects = {}
  <2>1. PICK a \in Addresses : keys = <<a>>  BY <1>1 DEF KeyLists
  <2>2. QED  BY <2>1 DEF Keys
<1>2. CASE Subjects # {}
  <2>1. PICK a \in Addresses, s \in Subjects : keys = <<a, s>>  BY <1>2 DEF KeyLists
  <2>2. QED  BY <2>1 DEF Keys
<1>3. QED  BY <1>1, <1>2

\* What enforce makes of a row is a row with an attempt; it locks if and only if
\* that is more than the limit; the window is the old one or begins now.
LEMMA NewRowFacts ==
    ASSUME NEW k \in Keys, NEW row \in Row, NEW now \in Nat
    PROVE  /\ NewRow(k, row, now) \in Row
           /\ NewRow(k, row, now).attempts >= 1
           /\ NewRow(k, row, now).locked = 0 => NewRow(k, row, now).attempts <= Limit[k]
           /\ \/ NewRow(k, row, now).attempts = 1
              \/ /\ NewRow(k, row, now).attempts = row.attempts + 1
                 /\ NewRow(k, row, now).start = row.start
           /\ \/ NewRow(k, row, now).start = row.start
              \/ row.attempts = 0
              \/ NewRow(k, row, now).start >= row.start + Window
<1>1. Limit[k] \in Nat /\ Limit[k] >= 1 /\ Window \in Nat /\ Lockout \in Nat /\ Lockout >= 1
  BY RateAssumption
<1>2. row.attempts \in Nat /\ row.start \in Nat  BY DEF Row
<1>3. CASE Open(row, now)
  BY <1>1, <1>2, <1>3 DEF NewRow, Row, Open
<1>4. CASE ~Open(row, now)
  BY <1>1, <1>2, <1>4 DEF NewRow, Row, Open
<1>5. QED  BY <1>3, <1>4

\* The parts of an attempt.
LEMMA AttemptParts ==
    ASSUME TypeOK, NEW r \in Requests
    PROVE  /\ attempt[r] \in AttemptRecord
           /\ attempt[r].now \in Nat
           /\ attempt[r].seen \in Row
           /\ attempt[r].before \in Tally
           /\ attempt[r].behind \in Nat
           /\ attempt[r].held \subseteq Keys
           /\ attempt[r].todo \in Seq(Keys)
           /\ attempt[r].written \in [Keys -> Write]
           /\ \A k \in Keys : /\ attempt[r].written[k] \in Write
                              /\ attempt[r].written[k].row \in Row
                              /\ attempt[r].written[k].stale \in BOOLEAN
                              /\ attempt[r].written[k].tally \in Tally
BY DEF TypeOK, AttemptRecord, Write

\* The key an attempt is at, and the row it makes of what it has read.
LEMMA KeyType ==
    ASSUME TypeOK, HasKey, NEW r \in Requests, attempt[r].pc \in {"find", "save"}
    PROVE  /\ Key(r) \in Keys
           /\ Tail(attempt[r].todo) \in Seq(Keys)
           /\ Made(r) \in Row
           /\ Stale(r) \in BOOLEAN
           /\ Told(r) \in Tally
           /\ MadeWrite(r) \in Write
<1>1. attempt[r].todo \in Seq(Keys) /\ attempt[r].todo # <<>>
  BY AttemptParts DEF HasKey
<1>2. Key(r) \in Keys  BY <1>1 DEF Key
<1>3. Made(r) \in Row
  <2>1. attempt[r].seen \in Row /\ attempt[r].now \in Nat  BY AttemptParts
  <2>2. NewRow(Key(r), attempt[r].seen, attempt[r].now) \in Row
    BY <1>2, <2>1, NewRowFacts
  <2>3. QED  BY <2>2 DEF Made
<1>4. Told(r) \in Tally
  <2>1. attempt[r].before \in Tally /\ attempt[r].behind \in Nat  BY AttemptParts
  <2>2. QED  BY <2>1 DEF Told, Tally
<1>5. Stale(r) \in BOOLEAN  BY DEF Stale
<1>6. MadeWrite(r) \in Write  BY <1>3, <1>4, <1>5 DEF MadeWrite, Write
<1>7. QED  BY <1>1, <1>2, <1>3, <1>4, <1>5, <1>6

\* A commit of rows that count their attempts leaves the table right, whether the
\* attempt has got past the limits or not.
LEMMA CommitCounts ==
    ASSUME TypeOK, Counted,
           NEW K \in SUBSET Keys, NEW w \in [Keys -> Write], NEW n \in {0, 1},
           \A k \in K : [w[k].tally EXCEPT !.past = @ + n] \in Tally
                        /\ Covered(k, [w[k].tally EXCEPT !.past = @ + n], w[k].row.attempts),
           CommitRows(K, w, n)
    PROVE  /\ table' \in [Keys -> Row]
           /\ tally' \in [Keys -> Tally]
           /\ Counted'
<1>1. table' \in [Keys -> Row]  BY DEF CommitRows, TypeOK, Write
<1>2. tally' \in [Keys -> Tally]  BY DEF CommitRows, TypeOK
<1>3. ASSUME NEW k \in Keys PROVE Covered(k, tally'[k], table'[k].attempts)
  <2>1. CASE k \in K  BY <2>1 DEF CommitRows
  <2>2. CASE k \notin K  BY <2>2 DEF CommitRows, Counted
  <2>3. QED  BY <2>1, <2>2
<1>4. QED  BY <1>1, <1>2, <1>3 DEF Counted, Covered

-----------------------------------------------------------------------------
LEMMA IInvInit == Init => IInv
<1> SUFFICES ASSUME Init PROVE IInv  OBVIOUS
<1>1. NoRow \in Row /\ NoTally \in Tally /\ NoWrite \in Write
  BY DEF NoRow, Row, NoWrite, Write, NoTally, Tally
<1>2. Idle \in AttemptRecord
  BY <1>1 DEF Idle, AttemptRecord, AttemptPc
<1>3. TypeOK  BY <1>1, <1>2 DEF Init, TypeOK
<1>4. \A r \in Requests : attempt[r] = Idle  BY DEF Init
<1>5. OneHolder /\ HasKey /\ Past /\ SeenUnlocked /\ WrittenFresh
      /\ SeenCounted /\ WrittenCounted
  BY <1>4 DEF Init, OneHolder, HasKey, Past, SeenUnlocked, WrittenFresh, SeenCounted,
              WrittenCounted, Idle
<1>6. Counted
  BY RateAssumption DEF Init, Counted, Covered, NoRow, NoTally
<1>7. QED  BY <1>3, <1>5, <1>6 DEF IInv

\* An attempt that goes on while another one ends: at most the tally of the row it has
\* read is cleared.
GoesOn(o) ==
    /\ attempt'[o].pc = attempt[o].pc
    /\ attempt'[o].todo = attempt[o].todo
    /\ attempt'[o].now = attempt[o].now
    /\ attempt'[o].seen = attempt[o].seen
    /\ attempt'[o].held = attempt[o].held
    /\ attempt'[o].written = attempt[o].written
    /\ attempt'[o].before \in {attempt[o].before, NoTally}

\* However an attempt ends, the others go on.
LEMMA EndFacts ==
    ASSUME TypeOK, NEW r \in Requests, End(r) \/ EndPast(r) \/ EndClear(r)
    PROVE  /\ attempt' \in [Requests -> AttemptRecord]
           /\ attempt'[r] = Idle
           /\ \A o \in Requests \ {r} : GoesOn(o)
<1>1. Idle \in AttemptRecord /\ NoTally \in Tally
  BY DEF Idle, AttemptRecord, AttemptPc, NoRow, Row, NoWrite, Write, NoTally, Tally
<1>2. \A o \in Requests :
        /\ attempt[o] \in AttemptRecord
        /\ [attempt[o] EXCEPT !.behind = @ + 1] \in AttemptRecord
        /\ [attempt[o] EXCEPT !.before = NoTally, !.behind = 0] \in AttemptRecord
  <2> SUFFICES ASSUME NEW o \in Requests
               PROVE  /\ attempt[o] \in AttemptRecord
                      /\ [attempt[o] EXCEPT !.behind = @ + 1] \in AttemptRecord
                      /\ [attempt[o] EXCEPT !.before = NoTally, !.behind = 0] \in AttemptRecord
    OBVIOUS
  <2>1. attempt[o] \in AttemptRecord  BY DEF TypeOK
  <2>2. \A t \in Tally, n \in Nat :
          [attempt[o] EXCEPT !.before = t, !.behind = n] \in AttemptRecord
    BY <2>1 DEF AttemptRecord
  <2>3. [attempt[o] EXCEPT !.behind = @ + 1] \in AttemptRecord
    BY <2>1 DEF AttemptRecord
  <2>4. QED  BY <1>1, <2>1, <2>2, <2>3
<1>3. CASE End(r)
  <2>1. attempt' = [attempt EXCEPT ![r] = Idle]  BY <1>3 DEF End
  <2>2. QED  BY <1>1, <2>1 DEF TypeOK, GoesOn
<1>4. CASE EndPast(r)
  <2>1. attempt' = [o \in Requests |->
          IF o = r THEN Idle
          ELSE IF Awaits(o, r) THEN [attempt[o] EXCEPT !.behind = @ + 1]
          ELSE attempt[o]]
    BY <1>4 DEF EndPast
  <2>2. attempt' \in [Requests -> AttemptRecord] /\ attempt'[r] = Idle
    BY <1>1, <1>2, <2>1
  <2>3. ASSUME NEW o \in Requests \ {r} PROVE GoesOn(o)
    <3>1. attempt'[o] \in {[attempt[o] EXCEPT !.behind = @ + 1], attempt[o]}  BY <2>1
    <3>2. QED  BY <3>1, <1>2 DEF GoesOn, AttemptRecord
  <2>4. QED  BY <2>2, <2>3
<1>5. CASE EndClear(r)
  <2>1. attempt' = [o \in Requests |->
          IF o = r THEN Idle
          ELSE IF Awaits(o, r) THEN [attempt[o] EXCEPT !.before = NoTally, !.behind = 0]
          ELSE attempt[o]]
    BY <1>5 DEF EndClear
  <2>2. attempt' \in [Requests -> AttemptRecord] /\ attempt'[r] = Idle
    BY <1>1, <1>2, <2>1
  <2>3. ASSUME NEW o \in Requests \ {r} PROVE GoesOn(o)
    <3>1. attempt'[o] \in {[attempt[o] EXCEPT !.before = NoTally, !.behind = 0], attempt[o]}
      BY <2>1
    <3>2. QED  BY <3>1, <1>2 DEF GoesOn, AttemptRecord
  <2>4. QED  BY <2>2, <2>3
<1>6. QED  BY <1>3, <1>4, <1>5

\* An attempt that ends and commits, if any, rows that nobody else holds.
LEMMA EndKeeps ==
    ASSUME IInv, NEW r \in Requests, UNCHANGED clock,
           End(r) \/ EndPast(r) \/ EndClear(r),
           NEW K \in SUBSET Keys,
           \A k \in Keys \ K : table'[k] = table[k],
           \A k \in K : \A o \in Requests \ {r} : k \notin attempt[o].held,
           table' \in [Keys -> Row], tally' \in [Keys -> Tally],
           Counted'
    PROVE  IInv'
<1>1. /\ attempt' \in [Requests -> AttemptRecord] /\ attempt'[r] = Idle
      /\ \A o \in Requests \ {r} : GoesOn(o)
  BY EndFacts DEF IInv
<1>2. Idle.held = {} /\ Idle.now = 0 /\ Idle.pc = "idle"  BY DEF Idle
<1>3. TypeOK'  BY <1>1 DEF IInv, TypeOK
<1>4. OneHolder'  BY <1>1, <1>2 DEF IInv, OneHolder, GoesOn
<1>5. HasKey' /\ SeenUnlocked'  BY <1>1, <1>2 DEF IInv, HasKey, SeenUnlocked, GoesOn
<1>6. Past'  BY <1>1, <1>2 DEF IInv, Past, TypeOK, GoesOn
<1>7. WrittenFresh' /\ WrittenCounted'
  <2> SUFFICES ASSUME NEW o \in Requests, NEW k \in attempt'[o].held
               PROVE  /\ attempt'[o].written[k].row.locked = 0
                      /\ Fresh(k, attempt[o].written[k], attempt[o].now)'
                      /\ Counts(k, attempt'[o].written[k])
    BY DEF WrittenFresh, Fresh, WrittenCounted, Counts
  <2>1. o # r /\ GoesOn(o)  BY <1>1, <1>2
  <2>2. k \in Keys /\ k \in attempt[o].held  BY <2>1, AttemptParts DEF IInv, GoesOn
  <2>3. table'[k] = table[k]  BY <2>1, <2>2
  <2>4. QED  BY <2>1, <2>2, <2>3 DEF IInv, WrittenFresh, WrittenCounted, Fresh, GoesOn
<1>8. SeenCounted'
  <2> SUFFICES ASSUME NEW o \in Requests, attempt'[o].pc = "save"
               PROVE  Covered(Head(attempt'[o].todo), attempt'[o].before,
                              attempt'[o].seen.attempts)
    BY DEF SeenCounted, Covered, Key
  <2>1. o # r /\ GoesOn(o)  BY <1>1, <1>2
  <2>2. Covered(Key(o), attempt[o].before, attempt[o].seen.attempts)
    BY <2>1 DEF IInv, SeenCounted, GoesOn
  <2>3. attempt[o].pc = "save" /\ Key(o) \in Keys /\ attempt[o].seen \in Row
    BY <2>1, KeyType, AttemptParts DEF IInv, GoesOn
  <2>4. Limit[Key(o)] \in Nat /\ attempt[o].seen.attempts \in Nat
    BY <2>3, RateAssumption DEF Row
  <2>5. Covered(Key(o), NoTally, attempt[o].seen.attempts)
    BY <2>4 DEF Covered, NoTally
  <2>6. QED  BY <2>1, <2>2, <2>5 DEF GoesOn, Key
<1>9. QED  BY <1>3, <1>4, <1>5, <1>6, <1>7, <1>8 DEF IInv

\* An attempt that ends with nothing committed.
LEMMA EndOnlyKeeps ==
    ASSUME IInv, NEW r \in Requests, End(r), UNCHANGED <<table, clock, tally>>
    PROVE  IInv'
<1>1. table' \in [Keys -> Row] /\ tally' \in [Keys -> Tally]  BY DEF IInv, TypeOK
<1>2. Counted'  BY DEF IInv, Counted
<1>3. \A k \in Keys \ {} : table'[k] = table[k]  OBVIOUS
<1>4. \A k \in {} : \A o \in Requests \ {r} : k \notin attempt[o].held  OBVIOUS
<1>5. {} \in SUBSET Keys /\ UNCHANGED clock  OBVIOUS
<1> HIDE DEF IInv
<1>6. QED  BY <1>1, <1>2, <1>3, <1>4, <1>5, EndKeeps

\* What the rows an attempt holds are like, and that nobody else holds them.
LEMMA HeldFacts ==
    ASSUME IInv, NEW r \in Requests
    PROVE  \A k \in attempt[r].held :
               /\ k \in Keys
               /\ attempt[r].written[k].row.locked = 0
               /\ Fresh(k, attempt[r].written[k], attempt[r].now)
               /\ Counts(k, attempt[r].written[k])
               /\ \A o \in Requests \ {r} : k \notin attempt[o].held
BY AttemptParts DEF IInv, WrittenFresh, WrittenCounted, OneHolder

\* A row that counts its attempts covers them, with the attempt that wrote it or not.
LEMMA CountsCover ==
    ASSUME NEW k \in Keys, NEW w \in Write, Counts(k, w), NEW n \in {0, 1}
    PROVE  /\ [w.tally EXCEPT !.past = @ + n] \in Tally
           /\ Covered(k, [w.tally EXCEPT !.past = @ + n], w.row.attempts)
<1>1. Limit[k] \in Nat /\ w.row.attempts \in Nat  BY RateAssumption DEF Write, Row
<1>2. w.tally.past \in Nat /\ w.tally.missed \in Nat  BY DEF Write, Tally
<1>3. [w.tally EXCEPT !.past = @ + n] = [past |-> w.tally.past + n, missed |-> w.tally.missed]
  BY DEF Write, Tally
<1>4. QED  BY <1>1, <1>2, <1>3 DEF Counts, Covered, Tally

\* What Refuse and Save write: fresh unless stale, and it counts those before it; it
\* counts itself too if it locks nothing.
LEMMA MadeFacts ==
    ASSUME IInv, NEW r \in Requests, attempt[r].pc = "save"
    PROVE  /\ Fresh(Key(r), MadeWrite(r), attempt[r].now)
           /\ Covered(Key(r), MadeWrite(r).tally, MadeWrite(r).row.attempts)
           /\ Made(r).locked = 0 => Counts(Key(r), MadeWrite(r))
<1>1. Key(r) \in Keys /\ Made(r) \in Row  BY KeyType DEF IInv
<1>2. attempt[r].seen.locked <= attempt[r].now  BY DEF IInv, SeenUnlocked
<1>3. Fresh(Key(r), MadeWrite(r), attempt[r].now)
  BY <1>1, <1>2 DEF Fresh, Made, Stale, MadeWrite
<1> DEFINE made == Made(r)
           n == attempt[r].behind
           base == attempt[r].before
<1>4. /\ base.past \in Nat /\ base.missed \in Nat /\ n \in Nat
      /\ attempt[r].seen.attempts \in Nat /\ Limit[Key(r)] \in Nat /\ made.attempts \in Nat
  BY <1>1, AttemptParts, RateAssumption DEF IInv, Tally, Row
<1>5. /\ made.attempts >= 1
      /\ made.locked = 0 => made.attempts <= Limit[Key(r)]
      /\ made.attempts = 1 \/ made.attempts = attempt[r].seen.attempts + 1
  BY <1>1, NewRowFacts, AttemptParts DEF IInv, Made
<1>6. base.past <= base.missed + attempt[r].seen.attempts
      /\ base.past <= base.missed + Limit[Key(r)]
  BY DEF IInv, SeenCounted, Covered
<1>7. MadeWrite(r).row = made /\ MadeWrite(r).tally = Told(r)  BY DEF MadeWrite
<1>8. Told(r) = IF made.attempts > 1 THEN [past |-> base.past + n, missed |-> base.missed + n]
                ELSE [past |-> n, missed |-> n]
  BY DEF Told
<1> HIDE DEF made, n, base
<1>9. /\ Told(r).past + 1 <= Told(r).missed + made.attempts
      /\ Told(r).past <= Told(r).missed + Limit[Key(r)]
      /\ Told(r).past \in Nat /\ Told(r).missed \in Nat
  <2>1. CASE made.attempts > 1  BY <1>4, <1>5, <1>6, <1>8, <2>1
  <2>2. CASE ~(made.attempts > 1)  BY <1>4, <1>5, <1>8, <2>2
  <2>3. QED  BY <2>1, <2>2
<1>10. Covered(Key(r), Told(r), made.attempts)  BY <1>4, <1>9 DEF Covered
<1>11. made.locked = 0 => Counts(Key(r), MadeWrite(r))  BY <1>5, <1>7, <1>9 DEF Counts
<1>12. QED  BY <1>3, <1>7, <1>10, <1>11 DEF made

\* The rows Refuse commits.
RefusedRows(r) == [attempt[r].written EXCEPT ![Key(r)] = MadeWrite(r)]

LEMMA RefusedFacts ==
    ASSUME IInv, NEW r \in Requests, attempt[r].pc = "save"
    PROVE  /\ RefusedRows(r) \in [Keys -> Write]
           /\ attempt[r].held \cup {Key(r)} \subseteq Keys
           /\ \A k \in attempt[r].held \cup {Key(r)} :
                /\ Fresh(k, RefusedRows(r)[k], attempt[r].now)
                /\ [RefusedRows(r)[k].tally EXCEPT !.past = @ + 0] \in Tally
                /\ Covered(k, [RefusedRows(r)[k].tally EXCEPT !.past = @ + 0],
                           RefusedRows(r)[k].row.attempts)
<1>1. Key(r) \in Keys /\ MadeWrite(r) \in Write  BY KeyType DEF IInv
<1>2. attempt[r].written \in [Keys -> Write] /\ attempt[r].held \subseteq Keys
  BY AttemptParts DEF IInv
<1>3. RefusedRows(r) \in [Keys -> Write]  BY <1>1, <1>2 DEF RefusedRows
<1>4. ASSUME NEW k \in attempt[r].held \cup {Key(r)}
      PROVE  /\ Fresh(k, RefusedRows(r)[k], attempt[r].now)
             /\ [RefusedRows(r)[k].tally EXCEPT !.past = @ + 0] \in Tally
             /\ Covered(k, [RefusedRows(r)[k].tally EXCEPT !.past = @ + 0],
                        RefusedRows(r)[k].row.attempts)
  <2>1. CASE k = Key(r)
    <3>1. RefusedRows(r)[k] = MadeWrite(r)  BY <1>1, <1>2, <2>1 DEF RefusedRows
    <3>2. MadeWrite(r).tally \in Tally  BY <1>1 DEF Write
    <3>3. [MadeWrite(r).tally EXCEPT !.past = @ + 0] = MadeWrite(r).tally
      BY <3>2 DEF Tally
    <3>4. QED  BY <2>1, <3>1, <3>2, <3>3, MadeFacts
  <2>2. CASE k # Key(r)
    <3>1. RefusedRows(r)[k] = attempt[r].written[k]  BY <1>2, <2>2 DEF RefusedRows
    <3>2. k \in attempt[r].held /\ k \in Keys /\ attempt[r].written[k] \in Write
      BY <1>2, <2>2
    <3>3. 0 \in {0, 1}  OBVIOUS
    <3>4. QED  BY <3>1, <3>2, <3>3, HeldFacts, CountsCover
  <2>3. QED  BY <2>1, <2>2
<1>5. QED  BY <1>1, <1>2, <1>3, <1>4

LEMMA IInvStep == IInv /\ [Next]_vars => IInv'
<1> SUFFICES ASSUME IInv, [Next]_vars PROVE IInv'  OBVIOUS
<1> USE DEF IInv
<1>1. ASSUME NEW r \in Requests, Begin(r) PROVE IInv'
  <2>1. PICK keys \in KeyLists :
          attempt' = [attempt EXCEPT ![r] =
             [Idle EXCEPT !.pc = "find", !.todo = keys, !.now = clock]]
    BY <1>1 DEF Begin
  <2> DEFINE new == [Idle EXCEPT !.pc = "find", !.todo = keys, !.now = clock]
  <2>2. keys \in Seq(Keys) /\ keys # <<>>  BY KeyListsType
  <2>3. /\ new \in AttemptRecord
        /\ new.held = {} /\ new.now = clock /\ new.pc = "find" /\ new.todo = keys
    BY <2>2 DEF Idle, AttemptRecord, AttemptPc, NoRow, Row, NoWrite, Write, NoTally, Tally, TypeOK
  <2>4. UNCHANGED <<table, clock, tally>>  BY <1>1 DEF Begin
  <2>5. \A o \in Requests : attempt'[o] = IF o = r THEN new ELSE attempt[o]
    BY <2>1 DEF TypeOK
  <2> HIDE DEF new
  <2>6. TypeOK'
    <3>1. attempt' = [attempt EXCEPT ![r] = new]  BY <2>1 DEF new
    <3>2. QED  BY <2>3, <2>4, <3>1 DEF TypeOK
  <2>7. OneHolder'  BY <2>3, <2>5 DEF OneHolder
  <2>8. HasKey' /\ SeenUnlocked'  BY <2>2, <2>3, <2>5 DEF HasKey, SeenUnlocked
  <2>9. Past'  BY <2>3, <2>4, <2>5 DEF Past, TypeOK
  <2>10. WrittenFresh'  BY <2>3, <2>4, <2>5 DEF WrittenFresh, Fresh
  <2>11. Counted'  BY <2>4 DEF Counted
  <2>12. SeenCounted' /\ WrittenCounted'
    BY <2>3, <2>5 DEF SeenCounted, WrittenCounted, Key
  <2>13. QED  BY <2>6, <2>7, <2>8, <2>9, <2>10, <2>11, <2>12
<1>2. ASSUME NEW r \in Requests, FindLock(r) PROVE IInv'
  BY <1>2, EndOnlyKeeps DEF FindLock
<1>3. ASSUME NEW r \in Requests, Find(r) PROVE IInv'
  <2> DEFINE new == [attempt[r] EXCEPT !.pc = "save", !.seen = table[Key(r)],
                                       !.before = tally[Key(r)]]
  <2>1. attempt' = [attempt EXCEPT ![r] = new]  BY <1>3 DEF Find, TypeOK
  <2>2. attempt[r].pc = "find" /\ table[Key(r)].locked <= attempt[r].now
        /\ UNCHANGED <<table, clock, tally>>
    BY <1>3 DEF Find
  <2>3. Key(r) \in Keys  BY <2>2, KeyType
  <2>4. new \in AttemptRecord
    BY <2>3, AttemptParts DEF TypeOK, AttemptRecord, AttemptPc
  <2>5. /\ new.held = attempt[r].held /\ new.now = attempt[r].now /\ new.pc = "save"
        /\ new.todo = attempt[r].todo /\ new.seen = table[Key(r)]
        /\ new.before = tally[Key(r)] /\ new.written = attempt[r].written
    BY AttemptParts DEF AttemptRecord
  <2>6. \A o \in Requests : attempt'[o] = IF o = r THEN new ELSE attempt[o]
    BY <2>1 DEF TypeOK
  <2> HIDE DEF new
  <2>7. TypeOK'  BY <2>1, <2>2, <2>4 DEF TypeOK
  <2>8. OneHolder'  BY <2>5, <2>6 DEF OneHolder
  <2>9. HasKey'  BY <2>2, <2>5, <2>6 DEF HasKey
  <2>10. Past'  BY <2>2, <2>5, <2>6 DEF Past
  <2>11. SeenUnlocked'  BY <2>2, <2>5, <2>6 DEF SeenUnlocked
  <2>12. WrittenFresh'
    <3> SUFFICES ASSUME NEW o \in Requests, NEW k \in attempt'[o].held
                 PROVE  /\ attempt'[o].written[k].row.locked = 0
                        /\ Fresh(k, attempt[o].written[k], attempt[o].now)'
      BY DEF WrittenFresh, Fresh
    <3>1. /\ attempt'[o].held = attempt[o].held /\ attempt'[o].now = attempt[o].now
          /\ attempt'[o].written = attempt[o].written
      BY <2>5, <2>6
    <3>2. QED  BY <2>2, <3>1 DEF WrittenFresh, Fresh
  <2>13. Counted'  BY <2>2 DEF Counted
  <2>14. WrittenCounted'  BY <2>5, <2>6 DEF WrittenCounted
  <2>15. SeenCounted'
    <3> SUFFICES ASSUME NEW o \in Requests, attempt'[o].pc = "save"
                 PROVE  Covered(Head(attempt'[o].todo), attempt'[o].before,
                                attempt'[o].seen.attempts)
      BY DEF SeenCounted, Covered, Key
    <3>1. CASE o = r
      <4>1. Covered(Key(r), tally[Key(r)], table[Key(r)].attempts)  BY <2>3 DEF Counted
      <4>2. QED  BY <2>5, <2>6, <3>1, <4>1 DEF Key
    <3>2. CASE o # r  BY <2>6, <3>2 DEF SeenCounted, Key
    <3>3. QED  BY <3>1, <3>2
  <2>16. QED  BY <2>7, <2>8, <2>9, <2>10, <2>11, <2>12, <2>13, <2>14, <2>15
<1>4. ASSUME NEW r \in Requests, Save(r) PROVE IInv'
  <2> DEFINE k == Key(r)
             rest == Tail(attempt[r].todo)
             w == MadeWrite(r)
             new == [attempt[r] EXCEPT
                       !.pc = IF rest = <<>> THEN "work" ELSE "find", !.todo = rest,
                       !.held = @ \cup {k}, !.written[k] = w, !.seen = NoRow,
                       !.before = NoTally, !.behind = 0]
  <2>1. /\ attempt[r].pc = "save" /\ Free(k) /\ Made(r).locked = 0
        /\ UNCHANGED <<table, clock, tally>>
    BY <1>4 DEF Save
  <2>2. k \in Keys /\ rest \in Seq(Keys) /\ w \in Write
    BY <2>1, KeyType
  <2>3. /\ new.pc = IF rest = <<>> THEN "work" ELSE "find"
        /\ new.todo = rest
        /\ new.now = attempt[r].now
        /\ new.seen = NoRow
        /\ new.before = NoTally /\ new.behind = 0
        /\ new.held = attempt[r].held \cup {k}
        /\ new.written = [attempt[r].written EXCEPT ![k] = w]
    BY AttemptParts DEF AttemptRecord
  <2>5. new \in AttemptRecord
    <3>1. new.pc \in AttemptPc  BY <2>3 DEF AttemptPc
    <3>2. new.written \in [Keys -> Write]  BY <2>2, <2>3, AttemptParts
    <3>3. new.held \in SUBSET Keys  BY <2>2, <2>3, AttemptParts
    <3>4. new.now \in Nat /\ new.seen \in Row /\ new.before \in Tally /\ new.behind \in Nat
      BY <2>3, AttemptParts DEF NoRow, Row, NoTally, Tally
    <3>5. new.todo \in Seq(Keys)  BY <2>2, <2>3
    <3>6. attempt[r] \in AttemptRecord  BY AttemptParts
    <3>7. QED  BY <3>1, <3>2, <3>3, <3>4, <3>5, <3>6 DEF AttemptRecord
  <2>6. attempt' = [attempt EXCEPT ![r] = new]
    <3>1. attempt \in [Requests -> AttemptRecord]  BY DEF TypeOK
    <3>2. attempt' = [attempt EXCEPT
            ![r].pc = IF rest = <<>> THEN "work" ELSE "find", ![r].todo = rest,
            ![r].held = @ \cup {k}, ![r].written[k] = w, ![r].seen = NoRow,
            ![r].before = NoTally, ![r].behind = 0]
      BY <1>4 DEF Save
    <3> HIDE DEF w, k, rest
    <3>3. QED  BY <3>1, <3>2 DEF AttemptRecord
  <2>7. \A o \in Requests : attempt'[o] = IF o = r THEN new ELSE attempt[o]
    BY <2>6 DEF TypeOK
  <2> HIDE DEF new, w, k, rest
  <2>8. TypeOK'  BY <2>1, <2>5, <2>6 DEF TypeOK
  <2>9. OneHolder'
    BY <2>1, <2>3, <2>7 DEF OneHolder, Free
  <2>10. HasKey'  BY <2>3, <2>7 DEF HasKey
  <2>11. Past'  BY <2>1, <2>3, <2>7 DEF Past
  <2>12. SeenUnlocked'  BY <2>3, <2>7 DEF SeenUnlocked
  <2>13. WrittenFresh'
    <3> SUFFICES ASSUME NEW o \in Requests, NEW j \in attempt'[o].held
                 PROVE  /\ attempt'[o].written[j].row.locked = 0
                        /\ Fresh(j, attempt[o].written[j], attempt[o].now)'
      BY DEF WrittenFresh, Fresh
    <3>1. CASE o # r
      <4>1. attempt'[o] = attempt[o] /\ table' = table  BY <2>1, <2>7, <3>1
      <4>2. QED  BY <4>1 DEF WrittenFresh, Fresh
    <3>2. CASE o = r /\ j = k
      <4>1. attempt'[o].written[j] = w /\ attempt'[o].now = attempt[r].now /\ table' = table
        BY <2>1, <2>2, <2>3, <2>7, <3>2, AttemptParts
      <4>2. w.row.locked = 0 /\ Fresh(k, w, attempt[r].now)
        BY <2>1, MadeFacts DEF w, k, MadeWrite
      <4>3. QED  BY <3>2, <4>1, <4>2 DEF Fresh
    <3>3. CASE o = r /\ j # k
      <4>1. j \in attempt[r].held  BY <2>3, <2>7, <3>3
      <4>2. /\ attempt'[o].written[j] = attempt[r].written[j]
            /\ attempt'[o].now = attempt[r].now /\ table' = table
        BY <2>1, <2>3, <2>7, <3>3, <4>1, AttemptParts
      <4>3. QED  BY <3>3, <4>1, <4>2 DEF WrittenFresh, Fresh
    <3>4. QED  BY <3>1, <3>2, <3>3
  <2>14. Counted'  BY <2>1 DEF Counted
  <2>15. SeenCounted'  BY <2>3, <2>7 DEF SeenCounted, Key
  <2>16. WrittenCounted'
    <3> SUFFICES ASSUME NEW o \in Requests, NEW j \in attempt'[o].held
                 PROVE  Counts(j, attempt'[o].written[j])
      BY DEF WrittenCounted, Counts
    <3>1. CASE o # r  BY <2>7, <3>1 DEF WrittenCounted
    <3>2. CASE o = r /\ j = k
      <4>1. attempt'[o].written[j] = w  BY <2>2, <2>3, <2>7, <3>2, AttemptParts
      <4>2. Counts(k, w)  BY <2>1, MadeFacts DEF w, k
      <4>3. QED  BY <3>2, <4>1, <4>2
    <3>3. CASE o = r /\ j # k
      <4>1. j \in attempt[r].held  BY <2>3, <2>7, <3>3
      <4>2. attempt'[o].written[j] = attempt[r].written[j]
        BY <2>3, <2>7, <3>3, <4>1, AttemptParts
      <4>3. QED  BY <4>1, <4>2 DEF WrittenCounted
    <3>4. QED  BY <3>1, <3>2, <3>3
  <2>17. QED  BY <2>8, <2>9, <2>10, <2>11, <2>12, <2>13, <2>14, <2>15, <2>16
<1>5. ASSUME NEW r \in Requests, Refuse(r) PROVE IInv'
  <2> DEFINE K == attempt[r].held \cup {Key(r)}
  <2>1. /\ attempt[r].pc = "save" /\ Free(Key(r)) /\ CommitRows(K, RefusedRows(r), 0)
        /\ End(r) /\ UNCHANGED clock
    BY <1>5 DEF Refuse, RefusedRows
  <2>2. /\ K \in SUBSET Keys /\ RefusedRows(r) \in [Keys -> Write]
        /\ \A k \in K :
             /\ [RefusedRows(r)[k].tally EXCEPT !.past = @ + 0] \in Tally
             /\ Covered(k, [RefusedRows(r)[k].tally EXCEPT !.past = @ + 0],
                        RefusedRows(r)[k].row.attempts)
    BY <2>1, RefusedFacts
  <2> HIDE DEF K
  <2>4. table' \in [Keys -> Row] /\ tally' \in [Keys -> Tally] /\ Counted'
    <3>1. 0 \in {0, 1} /\ TypeOK /\ Counted  OBVIOUS
    <3> HIDE DEF IInv
    <3>2. QED  BY <2>1, <2>2, <3>1, CommitCounts
  <2>5. \A k \in Keys \ K : table'[k] = table[k]  BY <2>1 DEF CommitRows
  <2>6. \A k \in K : \A o \in Requests \ {r} : k \notin attempt[o].held
    BY <2>1, HeldFacts DEF K, Free
  <2>7. QED  BY <2>1, <2>2, <2>4, <2>5, <2>6, EndKeeps
<1>6. ASSUME NEW r \in Requests, Fail(r) PROVE IInv'
  <2> DEFINE K == attempt[r].held
             w == attempt[r].written
  <2>1. CommitRows(K, w, 1) /\ EndPast(r) /\ UNCHANGED clock  BY <1>6 DEF Fail
  <2>2. K \in SUBSET Keys /\ w \in [Keys -> Write]  BY AttemptParts
  <2>3. \A k \in K : Counts(k, w[k]) /\ \A o \in Requests \ {r} : k \notin attempt[o].held
    BY HeldFacts
  <2> HIDE DEF K, w
  <2>4. table' \in [Keys -> Row] /\ tally' \in [Keys -> Tally] /\ Counted'
    <3>1. 1 \in {0, 1} /\ TypeOK /\ Counted  OBVIOUS
    <3>2. \A k \in K : /\ [w[k].tally EXCEPT !.past = @ + 1] \in Tally
                       /\ Covered(k, [w[k].tally EXCEPT !.past = @ + 1], w[k].row.attempts)
      BY <2>2, <2>3, <3>1, CountsCover
    <3> HIDE DEF IInv
    <3>3. QED  BY <2>1, <2>2, <3>1, <3>2, CommitCounts
  <2>5. \A k \in Keys \ K : table'[k] = table[k]  BY <2>1 DEF CommitRows
  <2>6. QED  BY <2>1, <2>2, <2>3, <2>4, <2>5, EndKeeps
<1>7. ASSUME NEW r \in Requests, Succeed(r) PROVE IInv'
  <2> DEFINE K == attempt[r].held
  <2>1. K \in SUBSET Keys  BY AttemptParts
  <2>2. /\ table' = [k \in Keys |-> IF k \in K THEN NoRow ELSE table[k]]
        /\ tally' = [k \in Keys |-> IF k \in K THEN NoTally ELSE tally[k]]
        /\ EndClear(r) /\ UNCHANGED clock
    BY <1>7 DEF Succeed
  <2>3. \A k \in K : \A o \in Requests \ {r} : k \notin attempt[o].held
    BY HeldFacts
  <2> HIDE DEF K
  <2>4. NoRow \in Row /\ NoTally \in Tally  BY DEF NoRow, Row, NoTally, Tally
  <2>5. table' \in [Keys -> Row] /\ tally' \in [Keys -> Tally]
    BY <2>2, <2>4 DEF TypeOK
  <2>6. Counted'
    BY <2>2, RateAssumption DEF Counted, Covered, NoRow, NoTally
  <2>7. \A k \in Keys \ K : table'[k] = table[k]  BY <2>2
  <2>8. QED  BY <2>1, <2>2, <2>3, <2>5, <2>6, <2>7, EndKeeps
<1>8. ASSUME NEW r \in Requests, Abort(r) PROVE IInv'
  BY <1>8, EndOnlyKeeps DEF Abort
<1>9. ASSUME NEW r \in Requests, Undo(r) PROVE IInv'
  <2> DEFINE K == attempt[r].held
  <2>1. /\ tally' = [k \in Keys |->
             IF k \in K THEN [past |-> tally[k].past + 1, missed |-> tally[k].missed + 1]
             ELSE tally[k]]
        /\ EndPast(r) /\ UNCHANGED <<table, clock>>
    BY <1>9 DEF Undo
  <2> HIDE DEF K
  <2>2. table' \in [Keys -> Row] /\ tally' \in [Keys -> Tally]
    BY <2>1 DEF TypeOK, Tally
  <2>3. ASSUME NEW k \in Keys PROVE Covered(k, tally'[k], table'[k].attempts)
    <3>1. /\ tally[k].past \in Nat /\ tally[k].missed \in Nat
          /\ table[k].attempts \in Nat /\ Limit[k] \in Nat
      BY RateAssumption DEF TypeOK, Tally, Row
    <3>2. Covered(k, tally[k], table[k].attempts)  BY DEF Counted
    <3>3. tally'[k] = tally[k]
          \/ tally'[k] = [past |-> tally[k].past + 1, missed |-> tally[k].missed + 1]
      BY <2>1
    <3>4. QED  BY <2>1, <3>1, <3>2, <3>3 DEF Covered
  <2>4. Counted'  BY <2>3 DEF Counted, Covered
  <2>5. \A k \in Keys \ {} : table'[k] = table[k]  BY <2>1
  <2>6. \A k \in {} : \A o \in Requests \ {r} : k \notin attempt[o].held  OBVIOUS
  <2>7. {} \in SUBSET Keys  OBVIOUS
  <2> HIDE DEF IInv
  <2>8. QED  BY <2>1, <2>2, <2>4, <2>5, <2>6, <2>7, EndKeeps
<1>10. ASSUME Tick PROVE IInv'
  <2>1. clock' = clock + 1 /\ UNCHANGED <<table, attempt, tally>>
    BY <1>10 DEF Tick
  <2>2. TypeOK'  BY <2>1 DEF TypeOK
  <2>3. OneHolder' /\ HasKey' /\ SeenUnlocked'
    BY <2>1 DEF OneHolder, HasKey, SeenUnlocked
  <2>4. Past'  BY <2>1, AttemptParts DEF Past, TypeOK
  <2>5. WrittenFresh' /\ Counted' /\ SeenCounted' /\ WrittenCounted'
    BY <2>1 DEF WrittenFresh, Fresh, Counted, SeenCounted, WrittenCounted, Key
  <2>6. QED  BY <2>2, <2>3, <2>4, <2>5
<1>11. CASE UNCHANGED vars
  BY <1>11 DEF vars, TypeOK, OneHolder, HasKey, Past, SeenUnlocked, WrittenFresh, Fresh,
              Counted, SeenCounted, WrittenCounted, Key
<1>12. QED
  BY <1>1, <1>2, <1>3, <1>4, <1>5, <1>6, <1>7, <1>8, <1>9, <1>10, <1>11 DEF Next, AttemptStep

\* The invariant holds of every state.
THEOREM Invariant == Spec => []IInv
BY IInvInit, IInvStep, PTL DEF Spec

\* Type correctness: the table, the attempts and the counts stay in their types.
THEOREM TypeCorrect == Spec => []TypeOK
<1>1. IInv => TypeOK  BY DEF IInv
<1>2. QED  BY <1>1, Invariant, PTL

\* The attempts that get past a limit in a window are no more than it admits and
\* those that were rolled back or overtaken, however the attempts overlap.
THEOREM LimitCorrect == Spec => []LimitHolds
<1>1. IInv => LimitHolds
  <2>1. ASSUME IInv, NEW k \in Keys PROVE tally[k].past <= Limit[k] + tally[k].missed
    <3>1. tally[k].past \in Nat /\ tally[k].missed \in Nat /\ Limit[k] \in Nat
      BY <2>1, RateAssumption DEF IInv, TypeOK, Tally
    <3>2. tally[k].past <= tally[k].missed + Limit[k]
      BY <2>1 DEF IInv, Counted, Covered
    <3>3. QED  BY <3>1, <3>2
  <2>2. QED  BY <2>1 DEF LimitHolds
<1>2. QED  BY <1>1, Invariant, PTL

-----------------------------------------------------------------------------
\* A step that changes the row of a key is the commit of an attempt whose write is
\* fresh or goes over another row; it is what the row becomes, unless the limit is
\* deleted.
LEMMA RowChange ==
    ASSUME IInv, [Next]_vars, NEW k \in Keys, table'[k] # table[k]
    PROVE  \E r \in Requests : \E w \in Write :
             /\ Fresh(k, w, attempt[r].now)
             /\ w.stale => Overwritten(k)
             /\ table'[k] = NoRow \/ table'[k] = w.row
<1>1. ASSUME NEW r \in Requests, Refuse(r)
      PROVE  \E w \in Write : /\ Fresh(k, w, attempt[r].now)
                              /\ w.stale => Overwritten(k)
                              /\ table'[k] = w.row
  <2> DEFINE K == attempt[r].held \cup {Key(r)}
             w == RefusedRows(r)[k]
  <2>1. attempt[r].pc = "save" /\ CommitRows(K, RefusedRows(r), 0) /\ End(r)
    BY <1>1 DEF Refuse, RefusedRows
  <2>2. k \in K  BY <2>1 DEF CommitRows
  <2>3. w \in Write /\ Fresh(k, w, attempt[r].now)
    BY <2>1, <2>2, RefusedFacts
  <2>4. table'[k] = w.row  BY <2>1, <2>2 DEF CommitRows
  <2>5. attempt'[r].pc = "idle"  BY <2>1, EndFacts DEF IInv, Idle
  <2>6. attempt[r].written \in [Keys -> Write]  BY AttemptParts DEF IInv
  <2>7. w.stale => Overwritten(k)
    <3>1. CASE k = Key(r)
      <4>1. w.stale = Stale(r)  BY <2>6, <3>1 DEF RefusedRows, MadeWrite
      <4>2. QED  BY <2>1, <2>5, <3>1, <4>1 DEF Overwritten
    <3>2. CASE k # Key(r)
      <4>1. w = attempt[r].written[k] /\ k \in attempt[r].held
        BY <2>2, <2>6, <3>2 DEF RefusedRows
      <4>2. QED  BY <2>5, <4>1 DEF Overwritten
    <3>3. QED  BY <3>1, <3>2
  <2>8. QED  BY <2>3, <2>4, <2>7
<1>2. ASSUME NEW r \in Requests, Fail(r) \/ Succeed(r)
      PROVE  LET w == attempt[r].written[k] IN
             /\ w \in Write
             /\ Fresh(k, w, attempt[r].now)
             /\ w.stale => Overwritten(k)
             /\ table'[k] = NoRow \/ table'[k] = w.row
  <2>1. k \in attempt[r].held
        /\ (table'[k] = NoRow \/ table'[k] = attempt[r].written[k].row)
    BY <1>2 DEF Fail, Succeed, CommitRows
  <2>2. EndPast(r) \/ EndClear(r)  BY <1>2 DEF Fail, Succeed
  <2>3. attempt'[r].pc = "idle"  BY <2>2, EndFacts DEF IInv, Idle
  <2>4. QED  BY <2>1, <2>3, HeldFacts, AttemptParts DEF IInv, Overwritten
<1>3. \E r \in Requests : Refuse(r) \/ Fail(r) \/ Succeed(r)
  <2>1. ~UNCHANGED vars /\ ~Tick  BY DEF vars, Tick
  <2>2. PICK r \in Requests : Begin(r) \/ AttemptStep(r) \/ Undo(r) \/ Abort(r)
    BY <2>1 DEF Next
  <2>3. ~Begin(r) /\ ~Undo(r) /\ ~Abort(r) /\ ~FindLock(r) /\ ~Find(r) /\ ~Save(r)
    BY DEF Begin, Undo, Abort, FindLock, Find, Save
  <2>4. QED  BY <2>2, <2>3 DEF AttemptStep
<1>4. PICK r \in Requests : Refuse(r) \/ Fail(r) \/ Succeed(r)  BY <1>3
<1>5. QED  BY <1>1, <1>2, <1>4

\* A lock in force is changed only by an attempt that had read before it was there.
THEOREM LocksCorrect == Spec => LocksAreKept
<1> DEFINE Kept ==
      \A k \in Keys : table[k].locked > clock /\ table'[k] # table[k] => Overwritten(k)
<1>1. ASSUME IInv, [Next]_vars PROVE Kept
  <2> SUFFICES ASSUME NEW k \in Keys, table[k].locked > clock, table'[k] # table[k]
               PROVE  Overwritten(k)
    OBVIOUS
  <2>1. PICK r \in Requests, w \in Write :
          Fresh(k, w, attempt[r].now) /\ (w.stale => Overwritten(k))
    BY <1>1, RowChange
  <2>2. attempt[r].now <= clock /\ attempt[r].now \in Nat /\ clock \in Nat
        /\ table[k].locked \in Nat
    BY <1>1, AttemptParts DEF IInv, Past, TypeOK, Row
  <2>3. w.stale  BY <2>1, <2>2 DEF Fresh
  <2>4. QED  BY <2>1, <2>3
<1>2. QED  BY <1>1, Invariant, PTL DEF Spec, LocksAreKept

\* The windows of a key begin at least a window apart, but for overwritten rows.
THEOREM WindowsCorrect == Spec => WindowsAreApart
<1> DEFINE Apart ==
      \A k \in Keys :
        table'[k].start # table[k].start /\ table[k].attempts > 0 =>
            \/ table'[k].attempts = 0
            \/ Overwritten(k)
            \/ table'[k].start >= table[k].start + Window
<1>1. ASSUME IInv, [Next]_vars PROVE Apart
  <2> SUFFICES ASSUME NEW k \in Keys,
                      table'[k].start # table[k].start, table[k].attempts > 0,
                      table'[k].attempts # 0, ~Overwritten(k)
               PROVE  table'[k].start >= table[k].start + Window
    OBVIOUS
  <2>1. PICK r \in Requests, w \in Write :
          /\ Fresh(k, w, attempt[r].now)
          /\ w.stale => Overwritten(k)
          /\ table'[k] = NoRow \/ table'[k] = w.row
    BY <1>1, RowChange
  <2>2. table'[k] # NoRow  BY DEF NoRow
  <2>3. table'[k] = NewRow(k, table[k], attempt[r].now)
    BY <2>1, <2>2 DEF Fresh, Write
  <2>4. table[k] \in Row /\ attempt[r].now \in Nat
    BY <1>1, AttemptParts DEF IInv, TypeOK
  <2>5. \/ table'[k].start = table[k].start
        \/ table[k].attempts = 0
        \/ table'[k].start >= table[k].start + Window
    BY <2>3, <2>4, NewRowFacts
  <2>6. table[k].attempts # 0  BY <2>4 DEF Row
  <2>7. QED  BY <2>5, <2>6
<1>2. QED  BY <1>1, Invariant, PTL DEF Spec, WindowsAreApart

=============================================================================
