------------------------- MODULE AuthSessionsProofs -------------------------
(***************************************************************************)
(* Theorems about AuthSessions, for any number of sessions, tokens,         *)
(* requests and rolled back transactions.                                   *)
(***************************************************************************)
EXTENDS AuthSessions, TLAPS

\* What a request holds is what the statement it is about to run needs: rows that
\* are not there yet for an INSERT, a row that is there for the token it presents.
Wired ==
    \A r \in Requests :
        /\ request[r].pc = "login" =>
             request[r].target \in Sessions /\ sessions[request[r].target].status = "none"
        /\ request[r].pc \in {"login", "rotate"} =>
             request[r].fresh \in Tokens /\ tokens[request[r].fresh].session = None
        /\ request[r].pc \in {"rotate", "reuse"} =>
             request[r].token \in Tokens /\ tokens[request[r].token].session \in Sessions

\* Two requests never insert the same row.
Apart ==
    \A r, o \in Requests : r # o =>
        /\ ~(request[r].pc = "login" /\ request[o].pc = "login"
               /\ request[r].target = request[o].target)
        /\ ~(request[r].pc \in {"login", "rotate"} /\ request[o].pc \in {"login", "rotate"}
               /\ request[r].fresh = request[o].fresh)

\* A token's session is there, an absent session has not expired, and a session
\* with a reported token is revoked.
Rows ==
    /\ \A k \in Tokens : tokens[k].session # None =>
         sessions[tokens[k].session].status # "none"
    /\ \A s \in Sessions : sessions[s].status = "none" => ~sessions[s].expired
    /\ \A s \in reported : sessions[s].status = "revoked"

Safe == TypeOK /\ Wired /\ Apart /\ Rows

-----------------------------------------------------------------------------
\* The effect of the two UPDATEs of a revocation.
LEMMA RevokedRows ==
  ASSUME TypeOK, NEW S, NEW K
  PROVE  /\ Revoked(S) \in [Sessions -> SessionRecord]
         /\ \A s \in Sessions :
              /\ Revoked(S)[s].expired = sessions[s].expired
              /\ Revoked(S)[s].status = IF s \in S /\ sessions[s].status = "active"
                                          THEN "revoked" ELSE sessions[s].status
         /\ RevokedTokens(K) \in [Tokens -> TokenRecord]
         /\ \A k \in Tokens : RevokedTokens(K)[k].session = tokens[k].session
  <1>1. \A s \in Sessions : sessions[s] \in SessionRecord
    BY DEF TypeOK
  <1>2. \A k \in Tokens : tokens[k] \in TokenRecord
    BY DEF TypeOK
  <1> QED
    BY <1>1, <1>2 DEF Revoked, RevokedTokens, SessionRecord, TokenRecord

\* A new record in place of a request's.
LEMMA RequestTyped ==
  ASSUME TypeOK, NEW r \in Requests, NEW q \in RequestRecord
  PROVE  [request EXCEPT ![r] = q] \in [Requests -> RequestRecord]
  BY DEF TypeOK

\* No row is there, and no request, when the service starts.
LEMMA InitSafe == Init => Safe
  <1> SUFFICES ASSUME Init PROVE Safe
    OBVIOUS
  <1>1. IdleRequest \in RequestRecord
    BY DEF IdleRequest, RequestRecord, RequestPc
  <1>2. TypeOK
    BY <1>1, AuthAssumption DEF Init, TypeOK, SessionRecord, TokenRecord, ResetStatus
  <1>3. Wired /\ Apart
    BY DEF Init, Wired, Apart, IdleRequest
  <1>4. Rows
    BY DEF Init, Rows
  <1> QED
    BY <1>2, <1>3, <1>4 DEF Safe

-----------------------------------------------------------------------------
\* The steps that only move a request on: its new record inserts nothing.
Reads(r) ==
    \/ \E s \in Sessions : Authenticate(r, s)
    \/ \E s, other \in Sessions : AuthenticateToRevoke(r, s, other)
    \/ LogoutAll(r) \/ ChangePassword(r) \/ WrongPassword(r)
    \/ BeginForgot(r)
    \/ \E p \in Resets, a \in Addresses : BeginReset(r, p, a)
    \/ ResetPassword(r)
    \/ Abort(r)

LEMMA ReadsFrame ==
  ASSUME TypeOK, NEW r \in Requests, Reads(r)
  PROVE  /\ UNCHANGED tables
         /\ aborts' \in Nat
         /\ \E q \in RequestRecord :
              /\ request' = [request EXCEPT ![r] = q]
              /\ q.pc \notin {"login", "rotate", "reuse"}
              /\ q.pc = "forgot" => BeginForgot(r)
  <1>0. request[r] \in RequestRecord /\ IdleRequest \in RequestRecord
    BY DEF TypeOK, IdleRequest, RequestRecord, RequestPc
  <1>1. CASE \E s \in Sessions : Authenticate(r, s)
    <2>1. PICK s \in Sessions : Authenticate(r, s)
      BY <1>1
    <2>2. PICK pc \in {"logout", "logout_all", "change_password"} :
            request' = [request EXCEPT ![r] = [IdleRequest EXCEPT !.pc = pc, !.target = s]]
      BY <2>1 DEF Authenticate
    <2>3. [IdleRequest EXCEPT !.pc = pc, !.target = s] \in RequestRecord
      BY <1>0 DEF RequestRecord, RequestPc
    <2>4. [IdleRequest EXCEPT !.pc = pc, !.target = s].pc = pc
      BY DEF IdleRequest
    <2> QED
      BY <2>1, <2>2, <2>3, <2>4 DEF Authenticate, TypeOK
  <1>2. CASE \E s, other \in Sessions : AuthenticateToRevoke(r, s, other)
    <2>1. PICK s \in Sessions, other \in Sessions : AuthenticateToRevoke(r, s, other)
      BY <1>2
    <2> DEFINE q == [IdleRequest EXCEPT !.pc = "revoke_session", !.target = other]
    <2>2. q \in RequestRecord /\ q.pc = "revoke_session"
      BY <1>0 DEF RequestRecord, RequestPc, IdleRequest
    <2> QED
      BY <2>1, <2>2 DEF AuthenticateToRevoke, TypeOK
  <1>3. ASSUME NEW except, NEW pc \in {"logout_all_tokens", "change_tokens", "reset_tokens"},
               MatchSessions(r, except, pc)
        PROVE  \E q \in RequestRecord :
                 /\ request' = [request EXCEPT ![r] = q]
                 /\ q.pc \notin {"login", "rotate", "reuse", "forgot"}
    <2> DEFINE q == [request[r] EXCEPT !.pc = pc,
                       !.hit = {s \in Sessions : sessions[s].status = "active"} \ except]
    <2>1. q \in RequestRecord /\ q.pc = pc
      BY <1>0 DEF RequestRecord, RequestPc
    <2>2. request' = [request EXCEPT ![r] = q]
      BY <1>3 DEF MatchSessions, TypeOK
    <2> QED
      BY <2>1, <2>2
  <1>4. CASE LogoutAll(r)
    BY <1>3, <1>4 DEF LogoutAll, TypeOK
  <1>5. CASE ChangePassword(r)
    <2>1. CASE MatchSessions(r, {request[r].target}, "change_tokens")
      BY <1>3, <1>5, <2>1 DEF ChangePassword, TypeOK
    <2>2. CASE Proceed(r, "change_only")
      <3> DEFINE q == [request[r] EXCEPT !.pc = "change_only"]
      <3>1. q \in RequestRecord /\ q.pc = "change_only"
        BY <1>0 DEF RequestRecord, RequestPc
      <3>2. request' = [request EXCEPT ![r] = q]
        BY <2>2 DEF Proceed, TypeOK
      <3> QED
        BY <1>5, <3>1, <3>2 DEF ChangePassword, TypeOK
    <2> QED
      BY <1>5, <2>1, <2>2 DEF ChangePassword
  <1>6. CASE WrongPassword(r)
    BY <1>0, <1>6 DEF WrongPassword, Return, TypeOK, IdleRequest
  <1>7. CASE BeginForgot(r)
    <2>1. PICK p \in Resets :
            request' = [request EXCEPT ![r] =
              [IdleRequest EXCEPT !.pc = "forgot", !.reset = p,
                 !.hit = {o \in Resets : resets[o] \in {"unused", "expired"}}]]
      BY <1>7 DEF BeginForgot
    <2> DEFINE q == [IdleRequest EXCEPT !.pc = "forgot", !.reset = p,
                       !.hit = {o \in Resets : resets[o] \in {"unused", "expired"}}]
    <2>2. q \in RequestRecord /\ q.pc = "forgot"
      BY <1>0 DEF RequestRecord, RequestPc, IdleRequest
    <2> QED
      BY <1>7, <2>1, <2>2 DEF BeginForgot, TypeOK
  <1>8. CASE \E p \in Resets, a \in Addresses : BeginReset(r, p, a)
    <2>1. PICK p \in Resets, a \in Addresses : BeginReset(r, p, a)
      BY <1>8
    <2> DEFINE q == [IdleRequest EXCEPT !.pc = "reset", !.reset = p, !.address = a]
    <2>2. q \in RequestRecord /\ q.pc = "reset"
      BY <1>0 DEF RequestRecord, RequestPc, IdleRequest
    <2> QED
      BY <2>1, <2>2 DEF BeginReset, TypeOK
  <1>9. CASE ResetPassword(r)
    BY <1>3, <1>9 DEF ResetPassword, TypeOK
  <1>10. CASE Abort(r)
    <2>1. request' = [request EXCEPT ![r] = IdleRequest] /\ UNCHANGED tables
      BY <1>10 DEF Abort, Return
    <2>2. aborts' \in Nat
      BY <1>10 DEF Abort, TypeOK
    <2>3. IdleRequest.pc = "idle"
      BY DEF IdleRequest
    <2> QED
      BY <1>0, <2>1, <2>2, <2>3
  <1> QED
    BY <1>1, <1>2, <1>4, <1>5, <1>6, <1>7, <1>8, <1>9, <1>10 DEF Reads

-----------------------------------------------------------------------------
\* A request goes on without a row to insert, and what sessions and tokens others
\* hold is as it was.
LEMMA TablesKept ==
  ASSUME Safe, NEW r \in Requests, NEW q \in RequestRecord,
         q.pc \notin {"login", "rotate", "reuse"},
         request' = [request EXCEPT ![r] = q],
         UNCHANGED <<sessions, tokens, reported>>,
         resets' \in [Resets -> ResetStatus],
         aborts' \in Nat
  PROVE  Safe'
  <1>1. TypeOK'
    BY RequestTyped DEF Safe, TypeOK
  <1>2. \A o \in Requests : request'[o] = IF o = r THEN q ELSE request[o]
    BY DEF Safe, TypeOK
  <1>3. Wired' /\ Apart'
    BY <1>2 DEF Safe, Wired, Apart
  <1>4. Rows'
    BY DEF Safe, Rows
  <1> QED
    BY <1>1, <1>3, <1>4 DEF Safe

\* A transaction that revokes sessions and tokens commits.
LEMMA Revocation ==
  ASSUME Safe, NEW r \in Requests, NEW S, NEW K,
         sessions' = Revoked(S),
         tokens' = RevokedTokens(K),
         Return(r),
         resets' \in [Resets -> ResetStatus],
         aborts' = aborts,
         reported' \subseteq Sessions,
         \A s \in reported' : s \in reported \/ (s \in S /\ sessions[s].status # "none")
  PROVE  Safe'
  <1>0. TypeOK /\ IdleRequest \in RequestRecord /\ IdleRequest.pc = "idle"
    BY DEF Safe, TypeOK, IdleRequest, RequestRecord, RequestPc
  <1>1. request' = [request EXCEPT ![r] = IdleRequest]
    BY DEF Return
  <1>2. TypeOK'
    BY <1>0, <1>1, RequestTyped, RevokedRows DEF TypeOK
  <1>3. \A o \in Requests : request'[o] = IF o = r THEN IdleRequest ELSE request[o]
    BY <1>0, <1>1 DEF TypeOK
  <1>4. \A k \in Tokens : tokens'[k].session = tokens[k].session
    BY <1>0, RevokedRows
  <1>5. \A s \in Sessions :
          /\ sessions'[s].expired = sessions[s].expired
          /\ sessions'[s].status = IF s \in S /\ sessions[s].status = "active"
                                     THEN "revoked" ELSE sessions[s].status
    BY <1>0, RevokedRows
  <1>6. Wired'
    <2> SUFFICES ASSUME NEW o \in Requests, o # r
                 PROVE  /\ request[o].pc = "login" =>
                            /\ request[o].target \in Sessions
                            /\ sessions'[request[o].target].status = "none"
                        /\ request[o].pc \in {"login", "rotate"} =>
                            /\ request[o].fresh \in Tokens
                            /\ tokens'[request[o].fresh].session = None
                        /\ request[o].pc \in {"rotate", "reuse"} =>
                            /\ request[o].token \in Tokens
                            /\ tokens'[request[o].token].session \in Sessions
      BY <1>0, <1>3 DEF Wired
    <2> QED
      BY <1>4, <1>5 DEF Safe, Wired
  <1>7. Apart'
    BY <1>0, <1>3 DEF Safe, Apart
  <1>8. Rows'
    <2>1. \A k \in Tokens : tokens[k].session \in Sessions \cup {None}
      BY <1>0 DEF TypeOK, TokenRecord
    <2>2. \A s \in Sessions : sessions[s].status \in {"none", "active", "revoked"}
      BY <1>0 DEF TypeOK, SessionRecord
    <2> QED
      BY <1>4, <1>5, <2>1, <2>2 DEF Safe, Rows
  <1> QED
    BY <1>2, <1>6, <1>7, <1>8 DEF Safe

-----------------------------------------------------------------------------
\* The requests that insert: they begin with rows nobody has reserved.
LEMMA BeginLoginSafe ==
  ASSUME Safe, NEW r \in Requests, BeginLogin(r)
  PROVE  Safe'
  <1>1. PICK s \in Sessions, k \in Tokens :
          /\ FreshSession(s)
          /\ FreshToken(k)
          /\ request' = [request EXCEPT ![r] =
               [IdleRequest EXCEPT !.pc = "login", !.target = s, !.fresh = k]]
    BY DEF BeginLogin
  <1> DEFINE q == [IdleRequest EXCEPT !.pc = "login", !.target = s, !.fresh = k]
  <1>2. q \in RequestRecord /\ q.pc = "login" /\ q.target = s /\ q.fresh = k
    BY DEF IdleRequest, RequestRecord, RequestPc
  <1>3. UNCHANGED <<sessions, tokens, resets, reported, aborts>>
    BY DEF BeginLogin, tables
  <1>4. \A o \in Requests : request'[o] = IF o = r THEN q ELSE request[o]
    BY <1>1 DEF Safe, TypeOK
  <1>5. TypeOK'
    BY <1>1, <1>2, <1>3, RequestTyped DEF Safe, TypeOK
  <1> HIDE DEF q
  <1>6. Wired'
    BY <1>1, <1>2, <1>3, <1>4 DEF Safe, Wired, FreshSession, FreshToken
  <1>7. Apart'
    BY <1>1, <1>2, <1>4 DEF Safe, Apart, FreshSession, FreshToken
  <1> QED
    BY <1>3, <1>5, <1>6, <1>7 DEF Safe, Rows

LEMMA BeginRefreshSafe ==
  ASSUME Safe, NEW r \in Requests, NEW k \in Tokens, BeginRefresh(r, k)
  PROVE  Safe'
  <1>1. tokens[k].session \in Sessions
    BY DEF BeginRefresh, Safe, TypeOK, TokenRecord
  <1>2. UNCHANGED <<sessions, tokens, resets, reported, aborts>>
    BY DEF BeginRefresh, tables
  <1>3. CASE Live(k)
    <2>1. PICK n \in Tokens :
            /\ FreshToken(n)
            /\ request' = [request EXCEPT ![r] =
                 [IdleRequest EXCEPT !.pc = "rotate", !.token = k, !.fresh = n]]
      BY <1>3 DEF BeginRefresh
    <2> DEFINE q == [IdleRequest EXCEPT !.pc = "rotate", !.token = k, !.fresh = n]
    <2>2. q \in RequestRecord /\ q.pc = "rotate" /\ q.token = k /\ q.fresh = n
      BY DEF IdleRequest, RequestRecord, RequestPc
    <2>3. \A o \in Requests : request'[o] = IF o = r THEN q ELSE request[o]
      BY <2>1 DEF Safe, TypeOK
    <2>4. TypeOK'
      BY <1>2, <2>1, <2>2, RequestTyped DEF Safe, TypeOK
    <2> HIDE DEF q
    <2>5. Wired'
      BY <1>1, <1>2, <2>1, <2>2, <2>3 DEF Safe, Wired, FreshToken
    <2>6. Apart'
      BY <2>1, <2>2, <2>3 DEF Safe, Apart, FreshToken
    <2> QED
      BY <1>2, <2>4, <2>5, <2>6 DEF Safe, Rows
  <1>4. CASE ~Live(k)
    <2> DEFINE q == [IdleRequest EXCEPT !.pc = "reuse", !.token = k]
    <2>1. request' = [request EXCEPT ![r] = q]
      BY <1>4 DEF BeginRefresh
    <2>2. q \in RequestRecord /\ q.pc = "reuse" /\ q.token = k
      BY DEF IdleRequest, RequestRecord, RequestPc
    <2>3. \A o \in Requests : request'[o] = IF o = r THEN q ELSE request[o]
      BY <2>1 DEF Safe, TypeOK
    <2>4. TypeOK'
      BY <1>2, <2>1, <2>2, RequestTyped DEF Safe, TypeOK
    <2> HIDE DEF q
    <2>5. Wired'
      BY <1>1, <1>2, <2>2, <2>3 DEF Safe, Wired
    <2>6. Apart'
      BY <2>2, <2>3 DEF Safe, Apart
    <2> QED
      BY <1>2, <2>4, <2>5, <2>6 DEF Safe, Rows
  <1> QED
    BY <1>3, <1>4

\* The session of a login and its first token.
LEMMA OpenSessionSafe ==
  ASSUME Safe, NEW r \in Requests, OpenSession(r)
  PROVE  Safe'
  <1> DEFINE t == request[r].target
             n == request[r].fresh
  <1>0. TypeOK /\ IdleRequest \in RequestRecord /\ IdleRequest.pc = "idle"
    BY DEF Safe, TypeOK, IdleRequest, RequestRecord, RequestPc
  <1>1. /\ t \in Sessions /\ sessions[t].status = "none"
        /\ n \in Tokens /\ tokens[n].session = None
        /\ request[r].pc = "login"
    BY DEF Safe, Wired, OpenSession
  <1>2. /\ sessions' = [sessions EXCEPT ![t].status = "active"]
        /\ tokens' = [tokens EXCEPT ![n] = NewToken(t)]
        /\ request' = [request EXCEPT ![r] = IdleRequest]
        /\ UNCHANGED <<resets, reported, aborts>>
    BY DEF OpenSession, Return
  <1>3. NewToken(t) \in TokenRecord /\ NewToken(t).session = t
    BY <1>1 DEF NewToken, TokenRecord
  <1>4. TypeOK'
    <2>1. sessions' \in [Sessions -> SessionRecord]
      BY <1>0, <1>1, <1>2 DEF TypeOK, SessionRecord
    <2>2. tokens' \in [Tokens -> TokenRecord]
      BY <1>0, <1>1, <1>2, <1>3 DEF TypeOK
    <2> QED
      BY <1>0, <1>2, <2>1, <2>2, RequestTyped DEF TypeOK
  <1>5. \A o \in Requests : request'[o] = IF o = r THEN IdleRequest ELSE request[o]
    BY <1>0, <1>2 DEF TypeOK
  <1>6. \A s \in Sessions :
          /\ sessions'[s].expired = sessions[s].expired
          /\ sessions'[s].status = IF s = t THEN "active" ELSE sessions[s].status
    BY <1>0, <1>1, <1>2 DEF TypeOK, SessionRecord
  <1>7. \A k \in Tokens : tokens'[k].session = IF k = n THEN t ELSE tokens[k].session
    BY <1>0, <1>1, <1>2, <1>3 DEF TypeOK
  <1> HIDE DEF t, n
  <1>8. Wired'
    <2> SUFFICES ASSUME NEW o \in Requests, o # r
                 PROVE  /\ request[o].pc = "login" =>
                            /\ request[o].target \in Sessions
                            /\ sessions'[request[o].target].status = "none"
                        /\ request[o].pc \in {"login", "rotate"} =>
                            /\ request[o].fresh \in Tokens
                            /\ tokens'[request[o].fresh].session = None
                        /\ request[o].pc \in {"rotate", "reuse"} =>
                            /\ request[o].token \in Tokens
                            /\ tokens'[request[o].token].session \in Sessions
      BY <1>0, <1>5 DEF Wired
    <2>1. request[o].pc = "login" => request[o].target # t
      BY <1>1 DEF Safe, Apart, t
    <2>2. request[o].pc \in {"login", "rotate"} => request[o].fresh # n
      BY <1>1 DEF Safe, Apart, n
    <2> QED
      BY <1>1, <1>6, <1>7, <2>1, <2>2 DEF Safe, Wired
  <1>9. Apart'
    BY <1>0, <1>5 DEF Safe, Apart
  <1>10. Rows'
    <2>1. t \notin reported
      BY <1>1 DEF Safe, Rows
    <2>2. \A k \in Tokens : tokens[k].session \in Sessions \cup {None}
      BY <1>0 DEF TypeOK, TokenRecord
    <2> QED
      BY <1>0, <1>1, <1>2, <1>6, <1>7, <2>1, <2>2, AuthAssumption DEF Safe, Rows, TypeOK
  <1> QED
    BY <1>4, <1>8, <1>9, <1>10 DEF Safe

\* A rotation inserts into the family of the token it marks.
LEMMA RotateSafe ==
  ASSUME Safe, NEW r \in Requests, Rotate(r)
  PROVE  Safe'
  <1> DEFINE n == request[r].fresh
             k == request[r].token
             s == tokens[k].session
  <1>0. TypeOK /\ IdleRequest \in RequestRecord /\ IdleRequest.pc = "idle"
    BY DEF Safe, TypeOK, IdleRequest, RequestRecord, RequestPc
  <1>1. /\ n \in Tokens /\ tokens[n].session = None
        /\ k \in Tokens /\ s \in Sessions
        /\ n # k
        /\ request[r].pc = "rotate"
    BY AuthAssumption DEF Safe, Wired, Rotate
  <1>2. /\ tokens' = [tokens EXCEPT ![n] = NewToken(s), ![k].used = TRUE]
        /\ request' = [request EXCEPT ![r] = IdleRequest]
        /\ UNCHANGED <<sessions, resets, reported, aborts>>
    BY DEF Rotate, Return
  <1>3. NewToken(s) \in TokenRecord /\ NewToken(s).session = s
    BY <1>1 DEF NewToken, TokenRecord
  <1> HIDE DEF n, k, s
  <1>4. tokens' \in [Tokens -> TokenRecord]
    <2>1. [tokens[k] EXCEPT !.used = TRUE] \in TokenRecord
      BY <1>0, <1>1 DEF TypeOK, TokenRecord
    <2>2. tokens' = [[tokens EXCEPT ![n] = NewToken(s)] EXCEPT
                        ![k] = [tokens[k] EXCEPT !.used = TRUE]]
      BY <1>0, <1>1, <1>2 DEF TypeOK
    <2> QED
      BY <1>0, <1>1, <1>3, <2>1, <2>2 DEF TypeOK
  <1>5. \A j \in Tokens : tokens'[j].session = IF j = n THEN s ELSE tokens[j].session
    BY <1>0, <1>1, <1>2, <1>3 DEF TypeOK, TokenRecord
  <1>6. TypeOK'
    BY <1>0, <1>2, <1>4, RequestTyped DEF TypeOK
  <1>7. \A o \in Requests : request'[o] = IF o = r THEN IdleRequest ELSE request[o]
    BY <1>0, <1>2 DEF TypeOK
  <1>8. Wired'
    <2> SUFFICES ASSUME NEW o \in Requests, o # r
                 PROVE  /\ request[o].pc = "login" =>
                            /\ request[o].target \in Sessions
                            /\ sessions[request[o].target].status = "none"
                        /\ request[o].pc \in {"login", "rotate"} =>
                            /\ request[o].fresh \in Tokens
                            /\ tokens'[request[o].fresh].session = None
                        /\ request[o].pc \in {"rotate", "reuse"} =>
                            /\ request[o].token \in Tokens
                            /\ tokens'[request[o].token].session \in Sessions
      BY <1>0, <1>2, <1>7 DEF Wired
    <2>1. request[o].pc \in {"login", "rotate"} => request[o].fresh # n
      BY <1>1 DEF Safe, Apart, n
    <2> QED
      BY <1>1, <1>5, <2>1 DEF Safe, Wired
  <1>9. Apart'
    BY <1>0, <1>7 DEF Safe, Apart
  <1>10. Rows'
    <2>1. sessions[s].status # "none"
      BY <1>1, AuthAssumption DEF Safe, Rows, s
    <2> QED
      BY <1>1, <1>2, <1>5, <2>1 DEF Safe, Rows
  <1> QED
    BY <1>6, <1>8, <1>9, <1>10 DEF Safe

-----------------------------------------------------------------------------
\* The transactions that revoke.
LEMMA RevokingSafe ==
  ASSUME Safe, NEW r \in Requests,
         \/ RevokeFamily(r) \/ Logout(r) \/ RevokeSession(r)
         \/ CommitLogoutAll(r) \/ CommitChangePassword(r) \/ CommitReset(r)
  PROVE  Safe'
  <1>0. TypeOK /\ IdleRequest \in RequestRecord /\ IdleRequest.pc = "idle"
    BY DEF Safe, TypeOK, IdleRequest, RequestRecord, RequestPc
  <1>1. CASE RevokeFamily(r)
    <2> DEFINE s == tokens[request[r].token].session
    <2>1. s \in Sessions /\ sessions[s].status # "none"
      BY <1>1, AuthAssumption DEF RevokeFamily, Safe, Wired, Rows
    <2>2. /\ sessions' = Revoked({s}) /\ tokens' = RevokedTokens(TokensOf(s))
          /\ reported' = reported \cup {s} /\ Return(r) /\ UNCHANGED <<resets, aborts>>
      BY <1>1 DEF RevokeFamily
    <2> HIDE DEF s
    <2> QED
      BY <1>0, <2>1, <2>2, Revocation DEF TypeOK
  <1>2. CASE Logout(r)
    BY <1>0, <1>2, Revocation DEF Logout, TypeOK
  <1>3. ASSUME Return(r), UNCHANGED <<tables, aborts>>
        PROVE  Safe'
    BY <1>0, <1>3, TablesKept DEF Return, tables, TypeOK
  <1>4. CASE RevokeSession(r)
    <2>1. CASE sessions[request[r].target].status = "active"
      BY <1>0, <1>4, <2>1, Revocation DEF RevokeSession, TypeOK
    <2>2. CASE sessions[request[r].target].status # "active"
      BY <1>3, <1>4, <2>2 DEF RevokeSession, tables
    <2> QED
      BY <2>1, <2>2
  <1>5. CASE CommitLogoutAll(r)
    BY <1>0, <1>5, Revocation DEF CommitLogoutAll, CommitRevocation, TypeOK
  <1>6. CASE CommitChangePassword(r)
    <2>1. CASE CommitRevocation(r, {request[r].target})
      BY <1>0, <1>6, <2>1, Revocation DEF CommitChangePassword, CommitRevocation, TypeOK
    <2>2. CASE Return(r) /\ UNCHANGED <<sessions, tokens>>
      BY <1>3, <1>6, <2>2 DEF CommitChangePassword, tables
    <2> QED
      BY <1>6, <2>1, <2>2 DEF CommitChangePassword
  <1>7. CASE CommitReset(r)
    <2>1. resets' \in [Resets -> ResetStatus]
      BY <1>0, <1>7 DEF CommitReset, TypeOK, ResetStatus
    <2> QED
      BY <1>0, <1>7, <2>1, Revocation DEF CommitReset, CommitRevocation, TypeOK
  <1> QED
    BY <1>1, <1>2, <1>4, <1>5, <1>6, <1>7

LEMMA TimeSafe ==
  ASSUME Safe, TimeStep
  PROVE  Safe'
  <1>1. CASE \E s \in Sessions : ExpireSession(s)
    <2>1. PICK s \in Sessions : ExpireSession(s)
      BY <1>1
    <2>2. /\ sessions' = [sessions EXCEPT ![s].expired = TRUE]
          /\ sessions[s].status = "active"
          /\ UNCHANGED <<tokens, resets, reported, request, aborts>>
      BY <2>1 DEF ExpireSession, Active
    <2>3. sessions' \in [Sessions -> SessionRecord]
      BY <2>2 DEF Safe, TypeOK, SessionRecord
    <2>4. \A t \in Sessions :
            /\ sessions'[t].status = sessions[t].status
            /\ sessions'[t].expired = IF t = s THEN TRUE ELSE sessions[t].expired
      BY <2>2 DEF Safe, TypeOK, SessionRecord
    <2>5. TypeOK'
      BY <2>2, <2>3 DEF Safe, TypeOK
    <2>6. Wired' /\ Apart'
      BY <2>2, <2>4 DEF Safe, Wired, Apart
    <2>7. Rows'
      <3>1. \A k \in Tokens : tokens[k].session \in Sessions \cup {None}
        BY DEF Safe, TypeOK, TokenRecord
      <3> QED
        BY <2>2, <2>4, <3>1 DEF Safe, Rows, TypeOK
    <2> QED
      BY <2>5, <2>6, <2>7 DEF Safe
  <1>2. CASE \E p \in Resets : ExpireReset(p)
    <2>1. UNCHANGED <<sessions, tokens, reported, request, aborts>>
      BY <1>2 DEF ExpireReset
    <2>2. TypeOK'
      BY <1>2, <2>1 DEF ExpireReset, Safe, TypeOK, ResetStatus
    <2> QED
      BY <2>1, <2>2 DEF Safe, Wired, Apart, Rows
  <1> QED
    BY <1>1, <1>2 DEF TimeStep

\* Every step keeps the invariant.
LEMMA NextSafe == Safe /\ [Next]_vars => Safe'
  <1> SUFFICES ASSUME Safe, [Next]_vars PROVE Safe'
    OBVIOUS
  <1>1. ASSUME NEW r \in Requests, Reads(r) PROVE Safe'
    <2>1. /\ UNCHANGED tables
          /\ aborts' \in Nat
          /\ \E q \in RequestRecord :
               request' = [request EXCEPT ![r] = q] /\ q.pc \notin {"login", "rotate", "reuse"}
      BY <1>1, ReadsFrame DEF Safe
    <2> QED
      BY <2>1, TablesKept DEF tables, Safe, TypeOK
  <1>2. ASSUME NEW r \in Requests, CreateReset(r) PROVE Safe'
    <2>1. resets' \in [Resets -> ResetStatus]
      BY <1>2 DEF CreateReset, Safe, TypeOK, ResetStatus
    <2>2. IdleRequest \in RequestRecord /\ IdleRequest.pc = "idle"
      BY DEF IdleRequest, RequestRecord, RequestPc
    <2> QED
      BY <1>2, <2>1, <2>2, TablesKept DEF CreateReset, Return, Safe, TypeOK
  <1>3. ASSUME NEW r \in Requests, RequestStep(r) PROVE Safe'
    BY <1>1, <1>2, <1>3, OpenSessionSafe, RotateSafe, RevokingSafe DEF RequestStep, Reads
  <1>4. ASSUME NEW r \in Requests, ClientStep(r) PROVE Safe'
    BY <1>1, <1>4, BeginLoginSafe, BeginRefreshSafe DEF ClientStep, Reads
  <1>5. ASSUME NEW r \in Requests, Abort(r) PROVE Safe'
    BY <1>1, <1>5 DEF Reads
  <1>6. ASSUME UNCHANGED vars PROVE Safe'
    BY <1>6 DEF vars, Safe, TypeOK, Wired, Apart, Rows
  <1> QED
    BY <1>3, <1>4, <1>5, <1>6, TimeSafe DEF Next, Rest

\* Safe is an invariant of the specification.
LEMMA SpecSafe == Spec => []Safe
  BY InitSafe, NextSafe, PTL DEF Spec

\* Every variable keeps its type.
THEOREM TypeCorrect == Spec => []TypeOK
  <1>1. Safe => TypeOK
    BY DEF Safe
  <1> QED
    BY <1>1, SpecSafe, PTL

\* The answer to a token that was used, revoked or expired (RevokeFamily) ends
\* its family for good: the reported session is revoked, which refresh checks.
THEOREM ReuseIsFinal == Spec => []ReuseEndsFamily
  <1>1. Safe => ReuseEndsFamily
    BY DEF Safe, Rows, ReuseEndsFamily, Live, Active
  <1> QED
    BY <1>1, SpecSafe, PTL

-----------------------------------------------------------------------------
\* No token changes hands and no session comes back.
Settled ==
    /\ \A k \in Tokens : tokens'[k].session = tokens[k].session
    /\ \A s \in Sessions :
         /\ sessions[s].expired => sessions'[s].expired
         /\ sessions[s].status = "revoked" => sessions'[s].status = "revoked"

\* All steps but the two that insert.
LEMMA OthersSettle ==
  ASSUME Safe, [Next]_vars,
         \A r \in Requests : ~OpenSession(r) /\ ~Rotate(r)
  PROVE  Settled
  <1>0. TypeOK
    BY DEF Safe
  <1>1. ASSUME UNCHANGED <<sessions, tokens>> PROVE Settled
    BY <1>1 DEF Settled
  <1>2. ASSUME NEW S, NEW K, sessions' = Revoked(S), tokens' = RevokedTokens(K)
        PROVE  Settled
    BY <1>0, <1>2, RevokedRows DEF Settled
  <1>3. ASSUME NEW r \in Requests, Reads(r) PROVE Settled
    BY <1>0, <1>1, <1>3, ReadsFrame DEF tables
  <1>4. ASSUME NEW r \in Requests, RequestStep(r) PROVE Settled
    <2>1. CASE RevokeFamily(r)
      BY <1>2, <2>1 DEF RevokeFamily
    <2>2. CASE Logout(r)
      BY <1>2, <2>2 DEF Logout
    <2>3. CASE RevokeSession(r)
      BY <1>1, <1>2, <2>3 DEF RevokeSession
    <2>4. CASE CommitLogoutAll(r)
      BY <1>2, <2>4 DEF CommitLogoutAll, CommitRevocation
    <2>5. CASE CommitChangePassword(r)
      BY <1>1, <1>2, <2>5 DEF CommitChangePassword, CommitRevocation
    <2>6. CASE CommitReset(r)
      BY <1>2, <2>6 DEF CommitReset, CommitRevocation
    <2>7. CASE CreateReset(r)
      BY <1>1, <2>7 DEF CreateReset
    <2> QED
      BY <1>3, <1>4, <2>1, <2>2, <2>3, <2>4, <2>5, <2>6, <2>7 DEF RequestStep, Reads
  <1>5. ASSUME NEW r \in Requests, ClientStep(r) PROVE Settled
    BY <1>1, <1>3, <1>5 DEF ClientStep, Reads, BeginLogin, BeginRefresh, tables
  <1>6. ASSUME NEW r \in Requests, Abort(r) PROVE Settled
    BY <1>3, <1>6 DEF Reads
  <1>7. ASSUME NEW s \in Sessions, ExpireSession(s) PROVE Settled
    BY <1>0, <1>7 DEF ExpireSession, Settled, TypeOK, SessionRecord
  <1>8. CASE TimeStep
    BY <1>1, <1>7, <1>8 DEF TimeStep, ExpireReset
  <1>9. CASE UNCHANGED vars
    BY <1>1, <1>9 DEF vars
  <1> QED
    BY <1>4, <1>5, <1>6, <1>8, <1>9 DEF Next, Rest

\* A request that is about to rotate was so before the step or has just found its
\* token alive.
LEMMA RotatesChecked ==
  ASSUME Safe, [Next]_vars, NEW o \in Requests, request'[o].pc = "rotate"
  PROVE  request'[o] = request[o] \/ (request'[o].token \in Tokens /\ Live(request'[o].token))
  <1>0. TypeOK /\ IdleRequest.pc = "idle"
    BY DEF Safe, IdleRequest
  <1>1. ASSUME NEW r \in Requests, NEW q, q.pc # "rotate", request' = [request EXCEPT ![r] = q]
        PROVE  request'[o] = request[o]
    BY <1>0, <1>1 DEF TypeOK
  <1>2. ASSUME NEW r \in Requests, Return(r) PROVE request'[o] = request[o]
    BY <1>0, <1>1, <1>2 DEF Return
  <1>3. ASSUME NEW r \in Requests, Reads(r) PROVE request'[o] = request[o]
    BY <1>0, <1>1, <1>3, ReadsFrame
  <1>4. ASSUME NEW r \in Requests, RequestStep(r) PROVE request'[o] = request[o]
    BY <1>2, <1>3, <1>4
    DEF RequestStep, Reads, OpenSession, Rotate, RevokeFamily, Logout, RevokeSession,
        CommitLogoutAll, CommitChangePassword, CommitRevocation, CreateReset, CommitReset
  <1>5. ASSUME NEW r \in Requests, BeginLogin(r) PROVE request'[o] = request[o]
    BY <1>1, <1>5 DEF BeginLogin, IdleRequest
  <1>6. ASSUME NEW r \in Requests, NEW k \in Tokens, BeginRefresh(r, k)
        PROVE  request'[o] = request[o] \/ (request'[o].token = k /\ Live(k))
    <2>1. CASE Live(k)
      BY <1>0, <1>6, <2>1 DEF BeginRefresh, TypeOK, IdleRequest
    <2>2. CASE ~Live(k)
      BY <1>1, <1>6, <2>2 DEF BeginRefresh, IdleRequest
    <2> QED
      BY <2>1, <2>2
  <1>7. ASSUME NEW r \in Requests, ClientStep(r)
        PROVE  request'[o] = request[o] \/ (request'[o].token \in Tokens /\ Live(request'[o].token))
    BY <1>3, <1>5, <1>6, <1>7 DEF ClientStep, Reads
  <1>8. ASSUME NEW r \in Requests, Abort(r) PROVE request'[o] = request[o]
    BY <1>3, <1>8 DEF Reads
  <1>9. CASE TimeStep \/ UNCHANGED vars
    BY <1>9 DEF TimeStep, ExpireSession, ExpireReset, vars
  <1> QED
    BY <1>4, <1>7, <1>8, <1>9 DEF Next, Rest

\* A dead session gets no token and does not come back: a login opens a session
\* that was not there, a rotation goes on with a token of its own family, and a
\* refresh that starts finds the session ended.
THEOREM DeadStayDead == Spec => DeadSessionsStayDead
  <1>1. ASSUME Safe, [Next]_vars, NEW s \in Sessions, Dead(s)
        PROVE  Dead(s)' /\ TokensOf(s)' = TokensOf(s)
    <2> DEFINE Ended == sessions'[s].status = "revoked" \/ sessions'[s].expired
    <2>0. TypeOK /\ sessions[s].status # "none"
      BY <1>1 DEF Safe, Rows, Dead
    <2>1. ASSUME Settled PROVE Ended /\ TokensOf(s)' = TokensOf(s)
      BY <1>1, <2>1 DEF Settled, Dead, TokensOf
    <2>2. ASSUME NEW r \in Requests, OpenSession(r)
          PROVE  Ended /\ TokensOf(s)' = TokensOf(s)
      <3> DEFINE t == request[r].target
                 n == request[r].fresh
      <3>1. /\ t \in Sessions /\ t # s /\ n \in Tokens /\ tokens[n].session = None
            /\ sessions' = [sessions EXCEPT ![t].status = "active"]
            /\ tokens' = [tokens EXCEPT ![n] = NewToken(t)]
        BY <1>1, <2>0, <2>2 DEF OpenSession, Safe, Wired
      <3> HIDE DEF t, n
      <3>2. sessions'[s] = sessions[s]
        BY <2>0, <3>1 DEF TypeOK
      <3>3. \A k \in Tokens : tokens'[k].session = IF k = n THEN t ELSE tokens[k].session
        BY <2>0, <3>1 DEF TypeOK, NewToken
      <3> QED
        BY <1>1, <3>1, <3>2, <3>3, AuthAssumption DEF Dead, TokensOf
    <2>3. ASSUME NEW r \in Requests, Rotate(r)
          PROVE  Ended /\ TokensOf(s)' = TokensOf(s)
      <3> DEFINE n == request[r].fresh
                 k == request[r].token
                 t == tokens[k].session
      <3>1. /\ n \in Tokens /\ k \in Tokens /\ tokens[n].session = None
            /\ t \in Sessions /\ request[r].pc = "rotate"
            /\ tokens' = [tokens EXCEPT ![n] = NewToken(t), ![k].used = TRUE]
            /\ sessions' = sessions
        BY <1>1, <2>3 DEF Rotate, Safe, Wired
      <3>2. t # s
        BY <1>1, <3>1 DEF Dead, TokensOf
      <3>3. n # k
        BY <3>1, AuthAssumption
      <3> HIDE DEF n, k, t
      <3>4. \A j \in Tokens : tokens'[j].session = IF j = n THEN t ELSE tokens[j].session
        BY <2>0, <3>1, <3>3 DEF TypeOK, TokenRecord, NewToken
      <3> QED
        BY <1>1, <3>1, <3>2, <3>4, AuthAssumption DEF Dead, TokensOf
    <2>4. Ended /\ TokensOf(s)' = TokensOf(s)
      BY <1>1, <2>1, <2>2, <2>3, OthersSettle
    <2>5. ASSUME NEW o \in Requests, request'[o].pc = "rotate"
          PROVE  request'[o].token \notin TokensOf(s)
      <3>1. CASE request'[o] = request[o]
        BY <1>1, <2>5, <3>1 DEF Dead
      <3>2. CASE request'[o].token \in Tokens /\ Live(request'[o].token)
        BY <1>1, <2>0, <3>2 DEF Dead, TokensOf, Live, Active
      <3> QED
        BY <1>1, <2>5, <3>1, <3>2, RotatesChecked
    <2>6. \A o \in Requests : request'[o].pc = "rotate" => request'[o].token \notin TokensOf(s)'
      BY <2>4, <2>5
    <2> QED
      BY <2>4, <2>6 DEF Dead
  <1>2. Safe /\ [Next]_vars =>
          [\A s \in Sessions : Dead(s) => Dead(s)' /\ TokensOf(s)' = TokensOf(s)]_vars
    BY <1>1
  <1> QED
    BY <1>2, SpecSafe, PTL DEF Spec, DeadSessionsStayDead

-----------------------------------------------------------------------------
\* The rate limit's row lets one forgot_password at a time past its reads, so what
\* its UPDATE has matched still holds every token that is out when it inserts.
Mail ==
    /\ OneLiveReset
    /\ \A r, o \in Requests : request[r].pc = "forgot" /\ request[o].pc = "forgot" => r = o
    /\ \A r \in Requests : request[r].pc = "forgot" =>
         {p \in Resets : resets[p] \in {"unused", "expired"}} \subseteq request[r].hit

\* A step after which no token works that did not before, and no request has
\* begun to make one.
LEMMA NoNewMail ==
  ASSUME Mail,
         \A p \in Resets : /\ resets'[p] = "unused" => resets[p] = "unused"
                           /\ resets'[p] = "expired" => resets[p] \in {"unused", "expired"},
         \A r \in Requests : request'[r].pc = "forgot" => request'[r] = request[r]
  PROVE  Mail'
  BY DEF Mail, OneLiveReset

LEMMA MailStep == Safe /\ Mail /\ [Next]_vars => Mail'
  <1> SUFFICES ASSUME Safe, Mail, [Next]_vars PROVE Mail'
    OBVIOUS
  <1>0. TypeOK
    BY DEF Safe
  <1>1. ASSUME NEW r \in Requests, NEW q, q.pc # "forgot",
               request' = [request EXCEPT ![r] = q], UNCHANGED resets
        PROVE  Mail'
    BY <1>0, <1>1, NoNewMail DEF TypeOK
  <1>2. IdleRequest.pc = "idle"
    BY DEF IdleRequest
  <1>3. ASSUME NEW r \in Requests, BeginForgot(r) PROVE Mail'
    <2>1. PICK p \in Resets :
            request' = [request EXCEPT ![r] =
              [IdleRequest EXCEPT !.pc = "forgot", !.reset = p,
                 !.hit = {o \in Resets : resets[o] \in {"unused", "expired"}}]]
      BY <1>3 DEF BeginForgot
    <2>2. /\ resets' = resets
          /\ \A o \in Requests : o # r => request'[o] = request[o] /\ request[o].pc # "forgot"
          /\ request'[r].hit = {o \in Resets : resets[o] \in {"unused", "expired"}}
      BY <1>0, <1>3, <2>1 DEF BeginForgot, SubjectLocked, tables, TypeOK, IdleRequest
    <2> QED
      BY <2>2 DEF Mail, OneLiveReset
  <1>4. ASSUME NEW r \in Requests, Reads(r) PROVE Mail'
    <2>1. PICK q \in RequestRecord :
            /\ request' = [request EXCEPT ![r] = q]
            /\ q.pc = "forgot" => BeginForgot(r)
      BY <1>0, <1>4, ReadsFrame
    <2>2. UNCHANGED resets
      BY <1>0, <1>4, ReadsFrame DEF tables
    <2> QED
      BY <1>1, <1>3, <2>1, <2>2
  <1>5. ASSUME NEW r \in Requests, CreateReset(r) PROVE Mail'
    <2>1. /\ request[r].pc = "forgot"
          /\ \A p \in Resets : resets'[p] =
               IF p = request[r].reset THEN "unused"
               ELSE IF p \in request[r].hit THEN "used" ELSE resets[p]
          /\ request' = [request EXCEPT ![r] = IdleRequest]
      BY <1>5 DEF CreateReset, Return
    <2>2. \A o \in Requests : request'[o].pc # "forgot"
      BY <1>0, <1>2, <2>1 DEF Mail, TypeOK
    <2>3. \A p \in Resets : resets'[p] = "unused" => p = request[r].reset
      BY <2>1 DEF Mail
    <2> QED
      BY <2>2, <2>3 DEF Mail, OneLiveReset
  <1>6. ASSUME NEW r \in Requests, Return(r), UNCHANGED resets PROVE Mail'
    BY <1>1, <1>2, <1>6 DEF Return
  <1>7. ASSUME NEW r \in Requests, CommitReset(r) PROVE Mail'
    <2>1. /\ request' = [request EXCEPT ![r] = IdleRequest]
          /\ resets' = [resets EXCEPT ![request[r].reset] = "used"]
      BY <1>7 DEF CommitReset, CommitRevocation, Return
    <2>2. \A p \in Resets : resets'[p] = resets[p] \/ resets'[p] = "used"
      BY <1>0, <2>1 DEF TypeOK
    <2>3. \A o \in Requests : request'[o].pc = "forgot" => request'[o] = request[o]
      BY <1>0, <1>2, <2>1 DEF TypeOK
    <2> QED
      BY <2>2, <2>3, NoNewMail
  <1>8. ASSUME NEW r \in Requests, RequestStep(r) PROVE Mail'
    BY <1>4, <1>5, <1>6, <1>7, <1>8
    DEF RequestStep, Reads, OpenSession, Rotate, RevokeFamily, Logout, RevokeSession,
        CommitLogoutAll, CommitChangePassword, CommitRevocation
  <1>9. ASSUME NEW r \in Requests, BeginLogin(r) PROVE Mail'
    BY <1>1, <1>9 DEF BeginLogin, IdleRequest, tables
  <1>10. ASSUME NEW r \in Requests, NEW k \in Tokens, BeginRefresh(r, k) PROVE Mail'
    BY <1>1, <1>10 DEF BeginRefresh, IdleRequest, tables
  <1>11. ASSUME NEW r \in Requests, ClientStep(r) PROVE Mail'
    BY <1>4, <1>9, <1>10, <1>11 DEF ClientStep, Reads
  <1>12. CASE TimeStep
    BY <1>0, <1>12, NoNewMail DEF TimeStep, ExpireSession, ExpireReset, TypeOK
  <1>13. CASE UNCHANGED vars
    BY <1>13, NoNewMail DEF vars
  <1>14. ASSUME NEW r \in Requests, Abort(r) PROVE Mail'
    BY <1>4, <1>14 DEF Reads
  <1> QED
    BY <1>8, <1>11, <1>12, <1>13, <1>14 DEF Next, Rest

\* However many forgot_password requests run at once, one reset token works.
THEOREM OneResetAtATime == Spec => []OneLiveReset
  <1>1. Init => Mail
    BY DEF Init, Mail, OneLiveReset, IdleRequest
  <1>2. Mail => OneLiveReset
    BY DEF Mail
  <1> QED
    BY <1>1, <1>2, MailStep, SpecSafe, PTL DEF Spec

=============================================================================
