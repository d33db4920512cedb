----------------------------- MODULE RateLimit -----------------------------
(***************************************************************************)
(* The limits on the attempts at one action of the auth service (login,     *)
(* register, ...), counted per IP address and, where the action names one,  *)
(* per subject: RateLimitService and its table.                             *)
(*                                                                          *)
(* An attempt is one transaction.  It reads the row of a limit without a    *)
(* lock, writes the row it makes of it over whatever is there by then, and  *)
(* holds the row until the transaction ends.  It takes the time once, when  *)
(* it begins.                                                               *)
(***************************************************************************)
EXTENDS Integers, Sequences

CONSTANTS
    Addresses,   \* IP addresses attempts come from
    Subjects,    \* the mail addresses attempts are for; empty if the action has none
    Limit,       \* the attempts a key admits in a window
    Window,      \* auth_rate_limit_window_minutes
    Lockout,     \* auth_rate_limit_lockout_minutes
    Requests,    \* attempts the service handles at the same time
    MaxTime,     \* bound on the clock
    MaxMissed    \* bound on the attempts a row does not count when one is rolled back

Keys == Addresses \cup Subjects

ASSUME RateAssumption ==
    /\ Limit \in [Keys -> Nat \ {0}]
    /\ Window \in Nat \ {0}
    /\ Lockout \in Nat \ {0}
    /\ MaxTime \in Nat
    /\ MaxMissed \in Nat

VARIABLES
    table,       \* table AuthRateLimit
    attempt,     \* the attempts in progress
    clock,       \* datetime.utcnow()
    tally        \* history: the attempts of a key's window that got past the limits

vars == <<table, attempt, clock, tally>>

-----------------------------------------------------------------------------
\* A row with no attempts is no row; locked is 0 for a lockedUntil of NULL.
Row == [attempts : Nat, start : Nat, locked : Nat]
NoRow == [attempts |-> 0, start |-> 0, locked |-> 0]

\* The keys of an attempt, in the order of enforce.
KeyLists == IF Subjects = {} THEN {<<a>> : a \in Addresses} ELSE Addresses \X Subjects

\* Of the attempts of a window that got past the limits without success: how many
\* they are, whatever became of them, and how many of them the row does not count,
\* because they were rolled back or their row was written over.
Tally == [past : Nat, missed : Nat]
NoTally == [past |-> 0, missed |-> 0]

\* What a transaction has written of a key: the row, whether the row it replaces is
\* another one than it had read, and the tally of the attempts before it.
Write == [row : Row, stale : BOOLEAN, tally : Tally]
NoWrite == [row |-> NoRow, stale |-> FALSE, tally |-> NoTally]

\* todo are the keys to come, seen and before the row read for the first of them and
\* its tally, behind the attempts that got past its limit since; held are the keys
\* whose rows are written.
AttemptPc == {"idle", "find", "save", "work"}
AttemptRecord ==
    [pc : AttemptPc, todo : Seq(Keys), now : Nat, seen : Row, before : Tally,
     behind : Nat, held : SUBSET Keys, written : [Keys -> Write]]
Idle ==
    [pc |-> "idle", todo |-> <<>>, now |-> 0, seen |-> NoRow,
     before |-> NoTally, behind |-> 0, held |-> {}, written |-> [k \in Keys |-> NoWrite]]

TypeOK ==
    /\ table \in [Keys -> Row]
    /\ attempt \in [Requests -> AttemptRecord]
    /\ clock \in Nat
    /\ tally \in [Keys -> Tally]

Init ==
    /\ table = [k \in Keys |-> NoRow]
    /\ attempt = [r \in Requests |-> Idle]
    /\ clock = 1
    /\ tally = [k \in Keys |-> NoTally]

-----------------------------------------------------------------------------
\* The window of the row is still open.
Open(row, now) == row.attempts > 0 /\ row.start + Window > now

\* Mutant of NewRow: the lock comes one attempt late.
NewRowLate(k, row, now) ==
    LET n == IF Open(row, now) THEN row.attempts + 1 ELSE 1
    IN  [attempts |-> n,
         start |-> IF Open(row, now) THEN row.start ELSE now,
         locked |-> IF n > Limit[k] + 1 THEN now + Lockout ELSE 0]

\* Mutant of NewRow: every attempt moves the window.
NewRowSliding(k, row, now) ==
    LET n == IF Open(row, now) THEN row.attempts + 1 ELSE 1
    IN  [attempts |-> n, start |-> now,
         locked |-> IF n > Limit[k] THEN now + Lockout ELSE 0]

\* What enforce makes of a row: one attempt more in an open window, else a window
\* that begins now; a lock if that is more than the limit.
NewRow(k, row, now) ==
    LET n == IF Open(row, now) THEN row.attempts + 1 ELSE 1
    IN  [attempts |-> n,
         start |-> IF Open(row, now) THEN row.start ELSE now,
         locked |-> IF n > Limit[k] THEN now + Lockout ELSE 0]

Key(r) == Head(attempt[r].todo)
Made(r) == NewRow(Key(r), attempt[r].seen, attempt[r].now)
Stale(r) == attempt[r].seen # table[Key(r)]
Free(k) == \A o \in Requests : k \notin attempt[o].held

\* Mutant of End: the attempt is kept.
EndKept(r) == attempt' = [attempt EXCEPT ![r].pc = "ended"]

End(r) == attempt' = [attempt EXCEPT ![r] = Idle]

\* o has read a row that r holds, and not written its own yet.
Awaits(o, r) == attempt[o].pc = "save" /\ Key(o) \in attempt[r].held

\* An attempt that got past the limits ends without success and overtakes those that
\* wait for its rows.
EndPast(r) ==
    attempt' = [o \in Requests |->
        IF o = r THEN Idle
        ELSE IF Awaits(o, r) THEN [attempt[o] EXCEPT !.behind = @ + 1]
        ELSE attempt[o]]

\* It ends with success, which clears the tallies of its keys, also of the rows that
\* the others have read.
EndClear(r) ==
    attempt' = [o \in Requests |->
        IF o = r THEN Idle
        ELSE IF Awaits(o, r) THEN [attempt[o] EXCEPT !.before = NoTally, !.behind = 0]
        ELSE attempt[o]]

\* The tally that goes with the row r makes of the one it has read: the row does not
\* count those that overtook r, and a new window counts nobody from before.
Told(r) ==
    LET n == attempt[r].behind base == attempt[r].before IN
    IF Made(r).attempts > 1 THEN [past |-> base.past + n, missed |-> base.missed + n]
    ELSE [past |-> n, missed |-> n]

MadeWrite(r) == [row |-> Made(r), stale |-> Stale(r), tally |-> Told(r)]

\* The transaction commits the rows w of the keys K; n is 1 if the attempt got past
\* the limits.
CommitRows(K, w, n) ==
    /\ table' = [k \in Keys |-> IF k \in K THEN w[k].row ELSE table[k]]
    /\ tally' = [k \in Keys |->
         IF k \in K THEN [w[k].tally EXCEPT !.past = @ + n] ELSE tally[k]]

-----------------------------------------------------------------------------
Begin(r) ==
    /\ attempt[r].pc = "idle"
    /\ \E keys \in KeyLists :
         attempt' = [attempt EXCEPT ![r] =
            [Idle EXCEPT !.pc = "find", !.todo = keys, !.now = clock]]
    /\ UNCHANGED <<table, clock, tally>>

\* find_rate_limit has returned a lock that is in force: the attempt is refused,
\* and what it has written for the address is rolled back.
FindLock(r) ==
    /\ attempt[r].pc = "find"
    /\ table[Key(r)].locked > attempt[r].now
    /\ End(r)
    /\ UNCHANGED <<table, clock, tally>>

\* Mutant of Find: the lock is not looked at.
FindBlind(r) ==
    /\ attempt[r].pc = "find"
    /\ attempt' = [attempt EXCEPT
         ![r].pc = "save", ![r].seen = table[Key(r)], ![r].before = tally[Key(r)]]
    /\ UNCHANGED <<table, clock, tally>>

Find(r) ==
    /\ attempt[r].pc = "find"
    /\ table[Key(r)].locked <= attempt[r].now
    /\ attempt' = [attempt EXCEPT
         ![r].pc = "save", ![r].seen = table[Key(r)], ![r].before = tally[Key(r)]]
    /\ UNCHANGED <<table, clock, tally>>

\* save_rate_limit waits for the transaction that holds the row.
Save(r) ==
    LET k == Key(r) rest == Tail(attempt[r].todo) IN
    /\ attempt[r].pc = "save"
    /\ Free(k)
    /\ Made(r).locked = 0
    /\ attempt' = [attempt EXCEPT
         ![r].pc = IF rest = <<>> THEN "work" ELSE "find",
         ![r].todo = rest,
         ![r].held = @ \cup {k},
         ![r].written[k] = MadeWrite(r),
         ![r].seen = NoRow, ![r].before = NoTally, ![r].behind = 0]
    /\ UNCHANGED <<table, clock, tally>>

\* It was one attempt too many: the lock is committed and the attempt refused.
Refuse(r) ==
    LET k == Key(r) IN
    /\ attempt[r].pc = "save"
    /\ Free(k)
    /\ Made(r).locked # 0
    /\ CommitRows(attempt[r].held \cup {k},
                  [attempt[r].written EXCEPT ![k] = MadeWrite(r)], 0)
    /\ End(r)
    /\ UNCHANGED clock

\* The action commits and leaves its limits as they are: a wrong password, an unknown
\* or a taken address.
Fail(r) ==
    /\ attempt[r].pc = "work"
    /\ CommitRows(attempt[r].held, attempt[r].written, 1)
    /\ EndPast(r)
    /\ UNCHANGED clock

\* The action succeeds: its limits are deleted.
Succeed(r) ==
    /\ attempt[r].pc = "work"
    /\ table' = [k \in Keys |-> IF k \in attempt[r].held THEN NoRow ELSE table[k]]
    /\ tally' = [k \in Keys |-> IF k \in attempt[r].held THEN NoTally ELSE tally[k]]
    /\ EndClear(r)
    /\ UNCHANGED clock

\* The attempt is past the limits when its transaction is rolled back: the slug of a
\* registration is taken, an error, or the process dies.  No row remembers it.
Undo(r) ==
    /\ attempt[r].pc = "work"
    /\ \A k \in attempt[r].held : tally[k].missed < MaxMissed
    /\ tally' = [k \in Keys |->
         IF k \in attempt[r].held
           THEN [past |-> tally[k].past + 1, missed |-> tally[k].missed + 1]
           ELSE tally[k]]
    /\ EndPast(r)
    /\ UNCHANGED <<table, clock>>

\* It is rolled back before: an error, or the process dies.
Abort(r) ==
    /\ attempt[r].pc \in {"find", "save"}
    /\ End(r)
    /\ UNCHANGED <<table, clock, tally>>

Tick ==
    /\ clock < MaxTime
    /\ clock' = clock + 1
    /\ UNCHANGED <<table, attempt, tally>>

AttemptStep(r) ==
    FindLock(r) \/ Find(r) \/ Save(r) \/ Refuse(r) \/ Fail(r) \/ Succeed(r)

Next ==
    \/ \E r \in Requests : Begin(r) \/ AttemptStep(r) \/ Undo(r) \/ Abort(r)
    \/ Tick

Spec == Init /\ [][Next]_vars

-----------------------------------------------------------------------------
(***************************************************************************)
(* Properties.                                                             *)
(***************************************************************************)

\* The attempts of a window that get past the limit of a key are no more than it
\* admits and those that its row does not count: the ones that were rolled back, and
\* the ones that committed between another attempt's read of the row and its write.
\* Nothing else that enforce does loses an attempt, although it counts before the
\* attempt, without a lock, and forgets what it refuses at a lock.
LimitHolds == \A k \in Keys : tally[k].past <= Limit[k] + tally[k].missed

\* The step is the commit of an attempt whose row goes over another one than it had
\* read.
Overwritten(k) ==
    \E r \in Requests :
        /\ attempt'[r].pc = "idle"
        /\ \/ k \in attempt[r].held /\ attempt[r].written[k].stale
           \/ attempt[r].pc = "save" /\ Key(r) = k /\ Stale(r)

\* A lock in force is changed or lifted only by an attempt that had read the limit
\* before the lock was there.
LocksAreKept ==
    [][\A k \in Keys :
        table[k].locked > clock /\ table'[k] # table[k] => Overwritten(k)]_vars

\* The window of a row is replaced at the earliest when it has run out, unless a
\* success deletes the limit or an attempt writes over a row it had not read; so the
\* windows begin at least a window apart.
WindowsAreApart ==
    [][\A k \in Keys :
        table'[k].start # table[k].start /\ table[k].attempts > 0 =>
            \/ table'[k].attempts = 0
            \/ Overwritten(k)
            \/ table'[k].start >= table[k].start + Window]_vars

=============================================================================
