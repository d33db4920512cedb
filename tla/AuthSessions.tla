---------------------------- MODULE AuthSessions ----------------------------
(***************************************************************************)
(* The sessions of one account in the auth service: login, refresh, logout, *)
(* revocation, and the password operations that end sessions.  Every        *)
(* statement of these operations names the user, one of his sessions or the *)
(* family of one, so accounts do not meet.                                  *)
(*                                                                          *)
(* A request is one transaction at READ COMMITTED: it reads, later writes,  *)
(* and its writes appear when it commits.  Where an operation writes with   *)
(* more than one UPDATE, each sees the rows that are committed when it runs *)
(* and the two are separate steps.  A login creates a family of its own, so *)
(* a session stands for its family.  A refresh token never expires before   *)
(* its session does, so expiry is the session's.                            *)
(***************************************************************************)
EXTENDS Integers, FiniteSets

CONSTANTS
    Sessions,    \* identities of UserSession rows
    Tokens,      \* identities of RefreshToken rows
    Resets,      \* identities of PasswordResetToken rows
    Requests,    \* requests the service handles at the same time
    Addresses,   \* IP addresses requests come from
    MaxAborts,   \* bound on transactions that are rolled back
    None

ASSUME AuthAssumption ==
    /\ MaxAborts \in Nat
    /\ None \notin Sessions \cup Tokens \cup Resets \cup Addresses

VARIABLES
    sessions,    \* table UserSession
    tokens,      \* table RefreshToken
    resets,      \* table PasswordResetToken
    reported,    \* sessions with an audit event refresh_reuse_detected
    request,     \* the requests in progress
    aborts       \* transactions rolled back so far

tables == <<sessions, tokens, resets, reported>>
vars == <<sessions, tokens, resets, reported, request, aborts>>

-----------------------------------------------------------------------------
SessionRecord == [status : {"none", "active", "revoked"}, expired : BOOLEAN]
TokenRecord == [session : Sessions \cup {None}, used : BOOLEAN, revoked : BOOLEAN]
ResetStatus == {"none", "unused", "used", "expired"}

\* Where a request stands between two of its statements.
RequestPc == {"idle", "login", "rotate", "reuse",
              "logout", "revoke_session", "logout_all", "change_password",
              "logout_all_tokens", "change_tokens", "change_only",
              "forgot", "reset", "reset_tokens"}

\* target is the session a request creates, comes from or revokes; token the one
\* it presents, fresh the row it will insert, hit the rows its UPDATE has matched.
IdleRequest ==
    [pc |-> "idle", target |-> None, token |-> None, fresh |-> None,
     reset |-> None, address |-> None, hit |-> {}]

RequestRecord ==
    [pc : RequestPc, target : Sessions \cup {None}, token : Tokens \cup {None},
     fresh : Tokens \cup {None}, reset : Resets \cup {None},
     address : Addresses \cup {None}, hit : SUBSET (Sessions \cup Resets)]

TypeOK ==
    /\ sessions \in [Sessions -> SessionRecord]
    /\ tokens \in [Tokens -> TokenRecord]
    /\ resets \in [Resets -> ResetStatus]
    /\ reported \subseteq Sessions
    /\ request \in [Requests -> RequestRecord]
    /\ aborts \in Nat

Init ==
    /\ sessions = [s \in Sessions |-> [status |-> "none", expired |-> FALSE]]
    /\ tokens = [k \in Tokens |-> [session |-> None, used |-> FALSE, revoked |-> FALSE]]
    /\ resets = [p \in Resets |-> "none"]
    /\ reported = {}
    /\ request = [r \in Requests |-> IdleRequest]
    /\ aborts = 0

-----------------------------------------------------------------------------
\* find_active_session.
Active(s) == sessions[s].status = "active" /\ ~sessions[s].expired

TokensOf(s) == {k \in Tokens : tokens[k].session = s}

\* Mutant of Live: the session of the token is not looked at.
LiveRow(k) ==
    tokens[k].session # None /\ ~tokens[k].used /\ ~tokens[k].revoked

\* What refresh accepts of the row that find_refresh_token returns.
Live(k) ==
    /\ tokens[k].session # None
    /\ ~tokens[k].used
    /\ ~tokens[k].revoked
    /\ Active(tokens[k].session)

FreshSession(s) ==
    /\ sessions[s].status = "none"
    /\ \A r \in Requests : request[r].target # s
FreshToken(k) ==
    /\ tokens[k].session = None
    /\ \A r \in Requests : request[r].fresh # k
FreshReset(p) ==
    /\ resets[p] = "none"
    /\ \A r \in Requests : request[r].reset # p

Return(r) == request' = [request EXCEPT ![r] = IdleRequest]
Proceed(r, pc) == request' = [request EXCEPT ![r].pc = pc]

NewToken(s) == [session |-> s, used |-> FALSE, revoked |-> FALSE]

\* Mutant of Revoked: the rows are deleted.
RevokedByDeletion(S) ==
    [s \in Sessions |-> IF s \in S THEN [sessions[s] EXCEPT !.status = "deleted"] ELSE sessions[s]]

Revoked(S) ==
    [s \in Sessions |->
        IF s \in S /\ sessions[s].status = "active"
          THEN [sessions[s] EXCEPT !.status = "revoked"] ELSE sessions[s]]
RevokedTokens(K) ==
    [k \in Tokens |-> IF k \in K THEN [tokens[k] EXCEPT !.revoked = TRUE] ELSE tokens[k]]

\* Mutant of SubjectLocked: the limits are enforced without the subject.
SubjectUnlocked(r, pc) == FALSE

\* enforce writes the row of the account's rate limit, which stays locked until
\* the transaction ends: of one account, one login and one forgot_password are
\* past it at a time.
SubjectLocked(r, pc) == \E o \in Requests \ {r} : request[o].pc = pc

\* reset_password enforces a limit per address only.
AddressLocked(r, a) ==
    \E o \in Requests \ {r} :
        request[o].pc \in {"reset", "reset_tokens"} /\ request[o].address = a

\* update_password holds the row of the account until the transaction ends.
PasswordRowLocked(r) ==
    \E o \in Requests \ {r} : request[o].pc \in {"reset_tokens", "change_tokens", "change_only"}

(***************************************************************************)
(* Login and refresh.                                                      *)
(***************************************************************************)

\* The right password has been given and read.
BeginLogin(r) ==
    /\ request[r].pc = "idle"
    /\ ~SubjectLocked(r, "login")
    /\ \E s \in Sessions, k \in Tokens :
         /\ FreshSession(s)
         /\ FreshToken(k)
         /\ request' = [request EXCEPT ![r] =
              [IdleRequest EXCEPT !.pc = "login", !.target = s, !.fresh = k]]
    /\ UNCHANGED <<tables, aborts>>

\* create_auth_response and the commit.
OpenSession(r) ==
    LET q == request[r] IN
    /\ q.pc = "login"
    /\ sessions' = [sessions EXCEPT ![q.target].status = "active"]
    /\ tokens' = [tokens EXCEPT ![q.fresh] = NewToken(q.target)]
    /\ Return(r)
    /\ UNCHANGED <<resets, reported, aborts>>

\* find_refresh_token and the decision about what it returned.
BeginRefresh(r, k) ==
    /\ request[r].pc = "idle"
    /\ tokens[k].session # None
    /\ IF Live(k)
         THEN \E n \in Tokens :
                /\ FreshToken(n)
                /\ request' = [request EXCEPT ![r] =
                     [IdleRequest EXCEPT !.pc = "rotate", !.token = k, !.fresh = n]]
         ELSE request' = [request EXCEPT ![r] =
                [IdleRequest EXCEPT !.pc = "reuse", !.token = k]]
    /\ UNCHANGED <<tables, aborts>>

\* Mutant of Rotate: the old token is not marked.
RotateUnmarked(r) ==
    LET q == request[r] IN
    /\ q.pc = "rotate"
    /\ tokens' = [tokens EXCEPT ![q.fresh] = NewToken(tokens[q.token].session)]
    /\ Return(r)
    /\ UNCHANGED <<sessions, resets, reported, aborts>>

\* The new token is inserted and the old one marked, whatever became of it.
Rotate(r) ==
    LET q == request[r] IN
    /\ q.pc = "rotate"
    /\ tokens' = [tokens EXCEPT ![q.fresh] = NewToken(tokens[q.token].session),
                                ![q.token].used = TRUE]
    /\ Return(r)
    /\ UNCHANGED <<sessions, resets, reported, aborts>>

\* Mutant of RevokeFamily: only the tokens of the family are revoked.
RevokeFamilyTokens(r) ==
    LET s == tokens[request[r].token].session IN
    /\ request[r].pc = "reuse"
    /\ tokens' = RevokedTokens(TokensOf(s))
    /\ reported' = reported \cup {s}
    /\ Return(r)
    /\ UNCHANGED <<sessions, resets, aborts>>

\* The answer to a token that is not accepted.
RevokeFamily(r) ==
    LET s == tokens[request[r].token].session IN
    /\ request[r].pc = "reuse"
    /\ sessions' = Revoked({s})
    /\ tokens' = RevokedTokens(TokensOf(s))
    /\ reported' = reported \cup {s}
    /\ Return(r)
    /\ UNCHANGED <<resets, aborts>>

(***************************************************************************)
(* Operations of an authenticated user.                                    *)
(***************************************************************************)

\* require_active_session, which commits before the operation begins.
Authenticate(r, s) ==
    /\ request[r].pc = "idle"
    /\ Active(s)
    /\ \E pc \in {"logout", "logout_all", "change_password"} :
         request' = [request EXCEPT ![r] = [IdleRequest EXCEPT !.pc = pc, !.target = s]]
    /\ UNCHANGED <<tables, aborts>>

\* The user picks another of his sessions to revoke.
AuthenticateToRevoke(r, s, other) ==
    /\ request[r].pc = "idle"
    /\ Active(s)
    /\ sessions[other].status # "none"
    /\ request' = [request EXCEPT ![r] =
         [IdleRequest EXCEPT !.pc = "revoke_session", !.target = other]]
    /\ UNCHANGED <<tables, aborts>>

Logout(r) ==
    LET s == request[r].target IN
    /\ request[r].pc = "logout"
    /\ sessions' = Revoked({s})
    /\ tokens' = RevokedTokens(TokensOf(s))
    /\ Return(r)
    /\ UNCHANGED <<resets, reported, aborts>>

\* revoke_session: nothing is committed if the session was revoked already.
RevokeSession(r) ==
    LET s == request[r].target IN
    /\ request[r].pc = "revoke_session"
    /\ IF sessions[s].status = "active"
         THEN sessions' = Revoked({s}) /\ tokens' = RevokedTokens(TokensOf(s))
         ELSE UNCHANGED <<sessions, tokens>>
    /\ Return(r)
    /\ UNCHANGED <<resets, reported, aborts>>

\* The first UPDATE of revoke_all_sessions matches the sessions that are
\* committed and not revoked.
MatchSessions(r, except, pc) ==
    request' = [request EXCEPT ![r].pc = pc,
        ![r].hit = {s \in Sessions : sessions[s].status = "active"} \ except]

\* Its second UPDATE matches the tokens that are there by then; the commit.
CommitRevocation(r, except) ==
    /\ sessions' = Revoked(request[r].hit)
    /\ tokens' = RevokedTokens(UNION {TokensOf(s) : s \in Sessions \ except})
    /\ Return(r)

LogoutAll(r) ==
    /\ request[r].pc = "logout_all"
    /\ MatchSessions(r, {}, "logout_all_tokens")
    /\ UNCHANGED <<tables, aborts>>

CommitLogoutAll(r) ==
    /\ request[r].pc = "logout_all_tokens"
    /\ CommitRevocation(r, {})
    /\ UNCHANGED <<resets, reported, aborts>>

\* The current password was right: it is replaced, and the other sessions are
\* revoked if the user asked for it.
ChangePassword(r) ==
    /\ request[r].pc = "change_password"
    /\ ~PasswordRowLocked(r)
    /\ \/ MatchSessions(r, {request[r].target}, "change_tokens")
       \/ Proceed(r, "change_only")
    /\ UNCHANGED <<tables, aborts>>

WrongPassword(r) ==
    /\ request[r].pc = "change_password"
    /\ Return(r)
    /\ UNCHANGED <<tables, aborts>>

CommitChangePassword(r) ==
    /\ \/ request[r].pc = "change_tokens" /\ CommitRevocation(r, {request[r].target})
       \/ request[r].pc = "change_only" /\ Return(r) /\ UNCHANGED <<sessions, tokens>>
    /\ UNCHANGED <<resets, reported, aborts>>

(***************************************************************************)
(* Password reset.                                                         *)
(***************************************************************************)

\* The UPDATE of create_password_reset matches the unused tokens.
BeginForgot(r) ==
    /\ request[r].pc = "idle"
    /\ ~SubjectLocked(r, "forgot")
    /\ \E p \in Resets :
         /\ FreshReset(p)
         /\ request' = [request EXCEPT ![r] =
              [IdleRequest EXCEPT !.pc = "forgot", !.reset = p,
                 !.hit = {o \in Resets : resets[o] \in {"unused", "expired"}}]]
    /\ UNCHANGED <<tables, aborts>>

CreateReset(r) ==
    LET q == request[r] IN
    /\ q.pc = "forgot"
    /\ resets' = [p \in Resets |->
         IF p = q.reset THEN "unused" ELSE IF p \in q.hit THEN "used" ELSE resets[p]]
    /\ Return(r)
    /\ UNCHANGED <<sessions, tokens, reported, aborts>>

\* find_password_reset has returned a token that is neither used nor expired.
BeginReset(r, p, a) ==
    /\ request[r].pc = "idle"
    /\ ~AddressLocked(r, a)
    /\ resets[p] = "unused"
    /\ request' = [request EXCEPT ![r] =
         [IdleRequest EXCEPT !.pc = "reset", !.reset = p, !.address = a]]
    /\ UNCHANGED <<tables, aborts>>

\* update_password, mark_password_reset_used, revoke_all_sessions.
ResetPassword(r) ==
    /\ request[r].pc = "reset"
    /\ ~PasswordRowLocked(r)
    /\ MatchSessions(r, {}, "reset_tokens")
    /\ UNCHANGED <<tables, aborts>>

CommitReset(r) ==
    /\ request[r].pc = "reset_tokens"
    /\ CommitRevocation(r, {})
    /\ resets' = [resets EXCEPT ![request[r].reset] = "used"]
    /\ UNCHANGED <<reported, aborts>>

-----------------------------------------------------------------------------
\* Time passes.
ExpireSession(s) ==
    /\ Active(s)
    /\ sessions' = [sessions EXCEPT ![s].expired = TRUE]
    /\ UNCHANGED <<tokens, resets, reported, request, aborts>>

ExpireReset(p) ==
    /\ resets[p] = "unused"
    /\ resets' = [resets EXCEPT ![p] = "expired"]
    /\ UNCHANGED <<sessions, tokens, reported, request, aborts>>

\* A transaction is rolled back: it was the victim of a deadlock between row
\* locks, the database failed or the process died.
Abort(r) ==
    /\ aborts < MaxAborts
    /\ request[r].pc # "idle"
    /\ aborts' = aborts + 1
    /\ Return(r)
    /\ UNCHANGED tables

RequestStep(r) ==
    \/ OpenSession(r) \/ Rotate(r) \/ RevokeFamily(r)
    \/ Logout(r) \/ RevokeSession(r)
    \/ LogoutAll(r) \/ CommitLogoutAll(r)
    \/ ChangePassword(r) \/ WrongPassword(r) \/ CommitChangePassword(r)
    \/ CreateReset(r)
    \/ ResetPassword(r) \/ CommitReset(r)

\* What the clients of the account ask for.
ClientStep(r) ==
    \/ BeginLogin(r)
    \/ \E k \in Tokens : BeginRefresh(r, k)
    \/ \E s \in Sessions : Authenticate(r, s)
    \/ \E s, other \in Sessions : AuthenticateToRevoke(r, s, other)
    \/ BeginForgot(r)
    \/ \E p \in Resets, a \in Addresses : BeginReset(r, p, a)

TimeStep ==
    \/ \E s \in Sessions : ExpireSession(s)
    \/ \E p \in Resets : ExpireReset(p)

Rest == (\A r \in Requests : request[r].pc = "idle") /\ UNCHANGED vars

Next ==
    \/ \E r \in Requests : RequestStep(r) \/ ClientStep(r) \/ Abort(r)
    \/ TimeStep
    \/ Rest

Spec == Init /\ [][Next]_vars

-----------------------------------------------------------------------------
(***************************************************************************)
(* Properties.                                                             *)
(***************************************************************************)

\* The answer to a token that was used, revoked or expired is final: once it is
\* recorded, no token of the family is accepted again, not even one that a
\* refresh in flight inserts after the revocation.
ReuseEndsFamily == \A k \in Tokens : tokens[k].session \in reported => ~Live(k)

\* At most one mail with a working reset token is out at any time, however many
\* times the user asks for one at once.
OneLiveReset ==
    \A p, q \in Resets : resets[p] = "unused" /\ resets[q] = "unused" => p = q

\* The session has ended and no refresh that was let through is in flight.
Dead(s) ==
    /\ sessions[s].status = "revoked" \/ sessions[s].expired
    /\ \A r \in Requests : request[r].pc = "rotate" => request[r].token \notin TokensOf(s)

\* A session that has ended, with the refreshes over that had passed their check,
\* stays so: no later refresh passes it, no token is added, nothing reopens it.
DeadSessionsStayDead ==
    [][\A s \in Sessions : Dead(s) => Dead(s)' /\ TokensOf(s)' = TokensOf(s)]_vars

=============================================================================
