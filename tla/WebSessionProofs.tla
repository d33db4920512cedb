-------------------------- MODULE WebSessionProofs --------------------------
(***************************************************************************)
(* Theorems about WebSession, for any number of tabs' fetches, sessions and *)
(* tokens.  The auth service behind the web server is the one of            *)
(* AuthSessions, step for step, so what is proved of its tables holds here. *)
(***************************************************************************)
EXTENDS WebSession, AuthSessionsProofs, FiniteSetTheorems

\* A fetch that may still present the token it carries.
RefreshPc == {"call", "refresh", "refreshing"}

FetchRecord ==
    [pc : FetchPc, access : Sessions \cup {None}, refresh : Tokens \cup {None},
     got : Tokens \cup {None}, again : BOOLEAN, reply : {"keep", "set", "clear"}]

\* The requests at the auth service are those the fetches wait for.
Asking ==
    \A f \in Requests :
        /\ request[f].pc \in {"idle", "login", "rotate", "reuse", "logout"}
        /\ request[f].pc = "logout" =>
             request[f].target \in Sessions /\ sessions[request[f].target].status # "none"
        /\ fetch[f].pc = "refreshing" =>
             request[f].pc \in {"rotate", "reuse"} /\ request[f].token = fetch[f].refresh
        /\ fetch[f].pc = "loggingout" =>
             request[f].pc = "logout" /\ request[f].target = fetch[f].access

\* The tokens of the cookies and of the fetches are tokens of a session, and a
\* fetch that refreshed has two of the same one.
Held ==
    /\ jar.refresh # None => tokens[jar.refresh].session # None
    /\ \A f \in Requests :
         /\ fetch[f].pc = "idle" => fetch[f] = IdleFetch
         /\ fetch[f].pc \in {"logout", "loggingout"} => fetch[f].access # None
         /\ fetch[f].pc \in {"login", "logout", "loggingout"} =>
              fetch[f].refresh = None /\ fetch[f].got = None
         /\ fetch[f].pc = "call" => fetch[f].refresh # None
         /\ fetch[f].pc = "reply" /\ fetch[f].reply = "set" => fetch[f].got # None
         /\ fetch[f].refresh # None => tokens[fetch[f].refresh].session # None
         /\ fetch[f].got # None => tokens[fetch[f].got].session # None
         /\ fetch[f].refresh # None /\ fetch[f].got # None =>
              /\ tokens[fetch[f].got].session = tokens[fetch[f].refresh].session
              /\ tokens[fetch[f].got].session = fetch[f].access

\* Sessions do not run out here, and those logged out of are revoked.
Ended ==
    /\ \A s \in Sessions : ~sessions[s].expired
    /\ \A s \in out : sessions[s].status = "revoked"

\* Of a session that is not spoiled one token is unused, and one fetch at most
\* is exchanging it.
OneCurrent(s) ==
    /\ \A k, l \in TokensOf(s) : ~tokens[k].used /\ ~tokens[l].used => k = l
    /\ \A r \in Requests : request[r].pc = "rotate" /\ request[r].token \in TokensOf(s) =>
         /\ ~tokens[request[r].token].used
         /\ fetch[r].pc = "refreshing"
         /\ \A o \in Requests : request[o].pc = "rotate" /\ request[o].token \in TokensOf(s) => o = r

\* Nothing has ended the session, and nothing is about to but its logout.
Open(s) ==
    /\ sessions[s].status # "revoked"
    /\ \A k \in TokensOf(s) : ~tokens[k].revoked
    /\ \A r \in Requests :
         /\ request[r].pc = "reuse" => request[r].token \notin TokensOf(s)
         /\ request[r].pc = "logout" /\ request[r].target = s => fetch[r].pc = "loggingout"

\* The token a fetch was given is unused, in no other hands, and on its way to
\* the cookies.
Granted(s) ==
    \A f \in Requests : fetch[f].got \in TokensOf(s) =>
        /\ ~tokens[fetch[f].got].used
        /\ jar.refresh # fetch[f].got
        /\ fetch[f].pc \in {"call", "reply"}
        /\ fetch[f].pc = "reply" => fetch[f].reply = "set"
        /\ \A o \in Requests :
             /\ fetch[o].refresh # fetch[f].got
             /\ fetch[o].got = fetch[f].got => o = f

\* A token that a fetch may still present is unused, and nobody else presents it.
Fresh(s) ==
    \A f \in Requests : fetch[f].refresh \in TokensOf(s) /\ fetch[f].pc \in RefreshPc =>
        /\ fetch[f].got = None => ~tokens[fetch[f].refresh].used
        /\ \A o \in Requests : fetch[o].refresh = fetch[f].refresh /\ o # f =>
             fetch[o].pc # "refreshing" /\ fetch[o].got = None

\* The refresh cookie is unused, or a fetch has exchanged it.
CookieCurrent(s) ==
    jar.refresh \in TokensOf(s) =>
        \/ ~tokens[jar.refresh].used
        \/ \E f \in Requests : fetch[f].refresh = jar.refresh /\ fetch[f].got # None

Kept(s) == Open(s) /\ Granted(s) /\ Fresh(s) /\ CookieCurrent(s)

WebInv ==
    /\ Safe
    /\ WebTypeOK
    /\ Asking
    /\ Held
    /\ Ended
    /\ \A s \in Sessions \ spoiled : OneCurrent(s)
    /\ \A s \in Sessions \ (spoiled \cup out) : Kept(s)

-----------------------------------------------------------------------------
\* What the transactions of the auth service do to the rows, one by one.
LEMMA RequestRows ==
  ASSUME Safe, NEW r \in Requests, NEW q, request' = [request EXCEPT ![r] = q]
  PROVE  \A o \in Requests : request'[o] = IF o = r THEN q ELSE request[o]
  BY DEF Safe, TypeOK

LEMMA NewTokenRow ==
  ASSUME NEW s
  PROVE  NewToken(s).session = s /\ NewToken(s).used = FALSE /\ NewToken(s).revoked = FALSE
  BY DEF NewToken

LEMMA IdleRequestPc == IdleRequest.pc = "idle"
  BY DEF IdleRequest

Opens(r, t, n) ==
    /\ request[r].pc = "login"
    /\ n = request[r].fresh /\ tokens[n].session = None
    /\ sessions[t].status = "none"
    /\ \A s \in Sessions :
         /\ sessions'[s].expired = sessions[s].expired
         /\ sessions'[s].status = IF s = t THEN "active" ELSE sessions[s].status
    /\ \A j \in Tokens :
         /\ tokens'[j].session = IF j = n THEN t ELSE tokens[j].session
         /\ tokens'[j].used = IF j = n THEN FALSE ELSE tokens[j].used
         /\ tokens'[j].revoked = IF j = n THEN FALSE ELSE tokens[j].revoked
    /\ \A o \in Requests : request'[o] = IF o = r THEN IdleRequest ELSE request[o]

LEMMA OpenRows ==
  ASSUME Safe, NEW r \in Requests, OpenSession(r)
  PROVE  \E t \in Sessions, n \in Tokens : Opens(r, t, n)
  <1> DEFINE t == request[r].target
             n == request[r].fresh
  <1>1. /\ t \in Sessions /\ sessions[t].status = "none"
        /\ n \in Tokens /\ tokens[n].session = None
    BY DEF Safe, Wired, OpenSession
  <1>2. /\ sessions' = [sessions EXCEPT ![t].status = "active"]
        /\ tokens' = [tokens EXCEPT ![n] = NewToken(t)]
        /\ request' = [request EXCEPT ![r] = IdleRequest]
    BY DEF OpenSession, Return
  <1>0. n = request[r].fresh
    OBVIOUS
  <1> HIDE DEF t, n
  <1>3. \A s \in Sessions :
          /\ sessions'[s].expired = sessions[s].expired
          /\ sessions'[s].status = IF s = t THEN "active" ELSE sessions[s].status
    BY <1>1, <1>2 DEF Safe, TypeOK, SessionRecord
  <1>4. \A j \in Tokens :
          /\ tokens'[j].session = IF j = n THEN t ELSE tokens[j].session
          /\ tokens'[j].used = IF j = n THEN FALSE ELSE tokens[j].used
          /\ tokens'[j].revoked = IF j = n THEN FALSE ELSE tokens[j].revoked
    <2>1. \A j \in Tokens : tokens'[j] = IF j = n THEN NewToken(t) ELSE tokens[j]
      BY <1>1, <1>2 DEF Safe, TypeOK
    <2> QED
      BY <2>1, NewTokenRow
  <1>5. \A o \in Requests : request'[o] = IF o = r THEN IdleRequest ELSE request[o]
    BY <1>2, RequestRows
  <1> QED
    BY <1>0, <1>1, <1>3, <1>4, <1>5 DEF OpenSession, Opens

Rotates(r, k, n, s) ==
    /\ request[r].pc = "rotate"
    /\ n = request[r].fresh /\ tokens[n].session = None
    /\ k = request[r].token /\ tokens[k].session = s
    /\ n # k
    /\ sessions[s].status # "none"
    /\ sessions' = sessions
    /\ \A j \in Tokens :
         /\ tokens'[j].session = IF j = n THEN s ELSE tokens[j].session
         /\ tokens'[j].used = IF j = n THEN FALSE ELSE IF j = k THEN TRUE ELSE tokens[j].used
         /\ tokens'[j].revoked = IF j = n THEN FALSE ELSE tokens[j].revoked
    /\ \A o \in Requests : request'[o] = IF o = r THEN IdleRequest ELSE request[o]

LEMMA RotateRows ==
  ASSUME Safe, NEW r \in Requests, Rotate(r)
  PROVE  \E k \in Tokens, n \in Tokens, s \in Sessions : Rotates(r, k, n, s)
  <1> DEFINE n == request[r].fresh
             k == request[r].token
             s == tokens[k].session
  <1>1. /\ n \in Tokens /\ tokens[n].session = None
        /\ k \in Tokens /\ s \in Sessions
        /\ n # k
        /\ sessions[s].status # "none"
    BY AuthAssumption DEF Safe, Wired, Rotate, Rows
  <1>2. /\ tokens' = [tokens EXCEPT ![n] = NewToken(s), ![k].used = TRUE]
        /\ request' = [request EXCEPT ![r] = IdleRequest]
        /\ sessions' = sessions
    BY DEF Rotate, Return
  <1>3. tokens' = [[tokens EXCEPT ![n] = NewToken(s)] EXCEPT
                      ![k] = [tokens[k] EXCEPT !.used = TRUE]]
    BY <1>1, <1>2 DEF Safe, TypeOK
  <1>4. /\ tokens'[n] = NewToken(s)
        /\ tokens'[k] = [tokens[k] EXCEPT !.used = TRUE]
        /\ \A j \in Tokens : j # n /\ j # k => tokens'[j] = tokens[j]
    BY <1>1, <1>3 DEF Safe, TypeOK
  <1>5. tokens[k] \in TokenRecord
    BY <1>1 DEF Safe, TypeOK
  <1>0. n = request[r].fresh /\ k = request[r].token /\ tokens[k].session = s
    OBVIOUS
  <1> HIDE DEF n, k, s
  <1>6. \A j \in Tokens :
          /\ tokens'[j].session = IF j = n THEN s ELSE tokens[j].session
          /\ tokens'[j].used = IF j = n THEN FALSE ELSE IF j = k THEN TRUE ELSE tokens[j].used
          /\ tokens'[j].revoked = IF j = n THEN FALSE ELSE tokens[j].revoked
    <2> TAKE j \in Tokens
    <2>1. CASE j = n
      BY <1>4, <2>1, NewTokenRow
    <2>2. CASE j = k
      BY <1>0, <1>1, <1>4, <1>5, <2>2 DEF TokenRecord
    <2>3. CASE j # n /\ j # k
      BY <1>4, <2>3
    <2> QED
      BY <2>1, <2>2, <2>3
  <1>7. \A o \in Requests : request'[o] = IF o = r THEN IdleRequest ELSE request[o]
    BY <1>2, RequestRows
  <1>8. request[r].pc = "rotate"
    BY DEF Rotate
  <1> QED
    BY <1>0, <1>1, <1>2, <1>6, <1>7, <1>8 DEF Rotates

\* Logout and RevokeFamily end one session.
Revokes(s) ==
    /\ \A t \in Sessions :
         /\ sessions'[t].expired = sessions[t].expired
         /\ sessions'[t].status = IF t = s /\ sessions[t].status = "active"
                                    THEN "revoked" ELSE sessions[t].status
    /\ \A k \in Tokens :
         /\ tokens'[k].session = tokens[k].session
         /\ tokens'[k].used = tokens[k].used
         /\ tokens[k].session # s => tokens'[k].revoked = tokens[k].revoked

LEMMA RevokeRows ==
  ASSUME Safe, NEW s \in Sessions, sessions' = Revoked({s}), tokens' = RevokedTokens(TokensOf(s))
  PROVE  Revokes(s)
  <1>1. \A k \in Tokens : tokens[k] \in TokenRecord
    BY DEF Safe, TypeOK
  <1>2. \A k \in Tokens : tokens'[k] =
          IF tokens[k].session = s THEN [tokens[k] EXCEPT !.revoked = TRUE] ELSE tokens[k]
    BY DEF RevokedTokens, TokensOf
  <1>3. \A t \in Sessions :
          /\ sessions'[t].expired = sessions[t].expired
          /\ sessions'[t].status = IF t = s /\ sessions[t].status = "active"
                                     THEN "revoked" ELSE sessions[t].status
    BY RevokedRows DEF Safe
  <1>4. \A k \in Tokens :
          /\ tokens'[k].session = tokens[k].session
          /\ tokens'[k].used = tokens[k].used
          /\ tokens[k].session # s => tokens'[k].revoked = tokens[k].revoked
    <2> TAKE k \in Tokens
    <2>1. CASE tokens[k].session = s
      BY <1>1, <1>2, <2>1 DEF TokenRecord
    <2>2. CASE tokens[k].session # s
      BY <1>2, <2>2
    <2> QED
      BY <2>1, <2>2
  <1> QED
    BY <1>3, <1>4 DEF Revokes

\* A step of a fetch, and the fetches after it.
LEMMA FetchRows ==
  ASSUME WebTypeOK, NEW f \in Requests, NEW q, fetch' = [fetch EXCEPT ![f] = q]
  PROVE  \A o \in Requests : fetch'[o] = IF o = f THEN q ELSE fetch[o]
  BY DEF WebTypeOK

\* An answer changes what the fetch does to the cookies.
LEMMA ReplyRows ==
  ASSUME WebTypeOK, NEW f \in Requests, NEW kind, Reply(f, kind)
  PROVE  \A o \in Requests :
           /\ o # f => fetch'[o] = fetch[o]
           /\ fetch'[o].access = fetch[o].access
           /\ fetch'[o].refresh = fetch[o].refresh
           /\ fetch'[o].got = fetch[o].got
           /\ fetch'[o].again = fetch[o].again
           /\ fetch'[f].pc = "reply"
           /\ fetch'[f].reply = kind
  BY DEF WebTypeOK, Reply

LEMMA Nobody == None \notin Tokens /\ None \notin Sessions
  BY AuthAssumption

\* A fetch is sent with the cookies of the moment.
LEMMA SendKeeps ==
  ASSUME WebInv, NEW f \in Requests, Send(f), Safe'
  PROVE  WebInv'
  <1> DEFINE q == [IdleFetch EXCEPT
                     !.pc = IF jar.access = None THEN "refresh" ELSE "call",
                     !.access = jar.access, !.refresh = jar.refresh]
  <1>1. /\ q.pc \in {"refresh", "call"} /\ (q.pc = "call" => jar.access # None)
        /\ q.access = jar.access /\ q.refresh = jar.refresh
        /\ q.got = None /\ q.again = FALSE /\ q.reply = "keep"
        /\ q \in FetchRecord
    BY DEF WebInv, WebTypeOK, IdleFetch, FetchRecord, FetchPc
  <1>2. fetch' = [fetch EXCEPT ![f] = q] /\ UNCHANGED <<vars, jar, out>>
    BY DEF Send
  <1>3. spoiled' = spoiled \cup (IF Presented(f, jar.refresh) THEN SessionOf(jar.refresh) ELSE {})
    BY DEF Send, Spoil
  <1>4. fetch[f] = IdleFetch /\ jar.refresh # None
    BY DEF Send, WebInv, Held, WebTypeOK, CookiesAgree, NoCookies
  <1> HIDE DEF q
  <1>5. \A o \in Requests : fetch'[o] = IF o = f THEN q ELSE fetch[o]
    BY <1>2, FetchRows DEF WebInv
  <1>6. UNCHANGED <<sessions, tokens, request>>
    BY <1>2 DEF vars
  <1>7. WebTypeOK'
    <2>1. spoiled' \subseteq Sessions
      BY <1>3, <1>4, Nobody DEF SessionOf, WebInv, Held, WebTypeOK, TypeOK, TokenRecord
    <2> QED
      BY <1>1, <1>2, <1>6, <2>1 DEF WebInv, WebTypeOK, Safe, FetchRecord, CookiesAgree
  <1>8. Asking'
    BY <1>1, <1>5, <1>6 DEF WebInv, Asking
  <1>9. Held'
    BY <1>1, <1>2, <1>4, <1>5, <1>6 DEF WebInv, Held
  <1>10. Ended'
    BY <1>2, <1>6 DEF WebInv, Ended
  <1>11. ASSUME NEW s \in Sessions \ spoiled' PROVE OneCurrent(s)'
    <2>1. OneCurrent(s)
      BY <1>3 DEF WebInv
    <2> QED
      BY <1>4, <1>5, <1>6, <2>1 DEF OneCurrent, TokensOf, IdleFetch
  <1>12. ASSUME NEW s \in Sessions \ (spoiled' \cup out') PROVE Kept(s)'
    <2>1. Kept(s)
      BY <1>2, <1>3 DEF WebInv
    <2>2. jar.refresh \in TokensOf(s) => ~Presented(f, jar.refresh)
      BY <1>3, <1>4 DEF SessionOf, TokensOf
    <2>3. Open(s)'
      BY <1>4, <1>5, <1>6, <2>1 DEF Kept, Open, TokensOf, IdleFetch
    <2>4. Granted(s)'
      BY <1>1, <1>2, <1>5, <1>6, <2>1, Nobody DEF Kept, Granted, TokensOf
    <2>5. Fresh(s)'
      BY <1>1, <1>2, <1>4, <1>5, <1>6, <2>1, <2>2
      DEF Kept, Fresh, CookieCurrent, Presented, TokensOf, IdleFetch
    <2>6. CookieCurrent(s)'
      BY <1>1, <1>2, <1>4, <1>5, <1>6, <2>1 DEF Kept, CookieCurrent, TokensOf, IdleFetch
    <2> QED
      BY <2>3, <2>4, <2>5, <2>6 DEF Kept
  <1> QED
    BY <1>7, <1>8, <1>9, <1>10, <1>11, <1>12 DEF WebInv

\* A fetch goes on with the tokens it has and nothing else happens: it drops a
\* token it was given, or a request it waits for, of spoiled sessions only.
LEMMA MoveKeeps ==
  ASSUME WebInv, Safe', NEW f \in Requests, NEW q \in FetchRecord,
         fetch' = [fetch EXCEPT ![f] = q],
         UNCHANGED <<vars, jar, out>>,
         spoiled \subseteq spoiled', spoiled' \subseteq Sessions,
         q.access = fetch[f].access, q.refresh = fetch[f].refresh, q.got = fetch[f].got,
         \/ q.pc = "reply" /\ (q.reply = "set" <=> q.got \in Tokens)
         \/ /\ q.pc \in {"reply", "refresh"}
            /\ q.pc = "reply" => q.reply # "set"
            /\ q.got \in Tokens => tokens[q.got].session \in spoiled' \cup out,
         q.pc = "refresh" => fetch[f].pc = "call",
         fetch[f].pc = "refreshing" /\ request[f].pc = "rotate" =>
           tokens[request[f].token].session \in spoiled',
         fetch[f].pc = "loggingout" => fetch[f].access \in spoiled'
  PROVE  WebInv'
  <1>5. \A o \in Requests : fetch'[o] = IF o = f THEN q ELSE fetch[o]
    BY FetchRows DEF WebInv
  <1>6. UNCHANGED <<sessions, tokens, request>>
    BY DEF vars
  <1>7. WebTypeOK'
    BY <1>6 DEF WebInv, WebTypeOK, Safe, FetchRecord, CookiesAgree
  <1>8. Asking'
    BY <1>5, <1>6 DEF WebInv, Asking
  <1>9. Held'
    <2>1. q.got \in Tokens \cup {None}
      BY DEF FetchRecord
    <2> QED
      BY <1>5, <1>6, <2>1, Nobody DEF WebInv, Held
  <1>10. Ended'
    BY <1>6 DEF WebInv, Ended
  <1>11. ASSUME NEW s \in Sessions \ spoiled' PROVE OneCurrent(s)'
    <2>1. OneCurrent(s)
      BY DEF WebInv
    <2> QED
      BY <1>5, <1>6, <2>1 DEF OneCurrent, TokensOf
  <1>12. ASSUME NEW s \in Sessions \ (spoiled' \cup out') PROVE Kept(s)'
    <2>1. Kept(s)
      BY DEF WebInv
    <2>2. q.got \in TokensOf(s) => q.pc = "reply" /\ q.reply = "set"
      BY DEF TokensOf
    <2>3. Open(s)'
      BY <1>5, <1>6, <2>1 DEF WebInv, Asking, Kept, Open, TokensOf
    <2>4. Granted(s)'
      BY <1>5, <1>6, <2>1, <2>2 DEF Kept, Granted, TokensOf
    <2>5. Fresh(s)'
      BY <1>5, <1>6, <2>1 DEF Kept, Fresh, TokensOf, RefreshPc
    <2>6. CookieCurrent(s)'
      BY <1>5, <1>6, <2>1 DEF Kept, CookieCurrent, TokensOf
    <2> QED
      BY <2>3, <2>4, <2>5, <2>6 DEF Kept
  <1> QED
    BY <1>7, <1>8, <1>9, <1>10, <1>11, <1>12 DEF WebInv

\* What a token that a fetch got is worth once the fetch asks for another one.
LEMMA GotSpoiled ==
  ASSUME WebInv, NEW f \in Requests, fetch[f].got \in Tokens
  PROVE  /\ tokens[fetch[f].got].session \in Sessions
         /\ fetch[f].pc \notin {"call", "reply"} => tokens[fetch[f].got].session \in spoiled \cup out
         /\ fetch[f].pc = "call" /\ ~Active(fetch[f].access) =>
              tokens[fetch[f].got].session \in spoiled \cup out
  <1> DEFINE s == tokens[fetch[f].got].session
  <1>1. s \in Sessions
    BY Nobody DEF WebInv, Held, Safe, TypeOK, TokenRecord
  <1>2. fetch[f].got \in TokensOf(s)
    BY DEF TokensOf
  <1>3. sessions[s].status # "none" /\ sessions[s] \in SessionRecord
    BY <1>1, Nobody DEF WebInv, Safe, TypeOK, Rows
  <1>4. fetch[f].pc = "call" => s = fetch[f].access
    BY Nobody DEF WebInv, Held
  <1> HIDE DEF s
  <1>5. s \notin spoiled \cup out => Granted(s) /\ Open(s)
    BY <1>1 DEF WebInv, Kept
  <1>6. fetch[f].pc \notin {"call", "reply"} => s \in spoiled \cup out
    BY <1>2, <1>5 DEF Granted
  <1>7. fetch[f].pc = "call" /\ ~Active(fetch[f].access) => s \in spoiled \cup out
    BY <1>1, <1>3, <1>4, <1>5 DEF Open, Active, SessionRecord, WebInv, Ended
  <1> QED
    BY <1>1, <1>6, <1>7 DEF s

\* The answer to a fetch is known.
LEMMA ReplyKeeps ==
  ASSUME WebInv, Safe', NEW f \in Requests, NEW kind \in {"keep", "set", "clear"},
         Reply(f, kind),
         UNCHANGED <<vars, jar, out>>,
         spoiled \subseteq spoiled', spoiled' \subseteq Sessions,
         \/ kind = "set" /\ fetch[f].got # None
         \/ /\ kind # "set"
            /\ fetch[f].got \in Tokens => tokens[fetch[f].got].session \in spoiled' \cup out,
         fetch[f].pc = "refreshing" /\ request[f].pc = "rotate" =>
           tokens[request[f].token].session \in spoiled',
         fetch[f].pc = "loggingout" => fetch[f].access \in spoiled'
  PROVE  WebInv'
  <1> DEFINE q == [fetch[f] EXCEPT !.pc = "reply", !.reply = kind]
  <1>1. fetch[f] \in FetchRecord
    BY DEF WebInv, WebTypeOK, FetchRecord
  <1>2. /\ q \in FetchRecord /\ q.pc = "reply" /\ q.reply = kind
        /\ q.access = fetch[f].access /\ q.refresh = fetch[f].refresh /\ q.got = fetch[f].got
    BY <1>1 DEF FetchRecord, FetchPc
  <1>3. fetch' = [fetch EXCEPT ![f] = q]
    BY DEF Reply, WebInv, WebTypeOK
  <1>4. fetch[f].got \in Tokens \cup {None}
    BY <1>1 DEF FetchRecord
  <1> HIDE DEF q
  <1> QED
    BY <1>2, <1>3, <1>4, Nobody, MoveKeeps

LEMMA MovesKeep ==
  ASSUME WebInv, Safe', NEW f \in Requests,
         \/ RefreshTimesOut(f) \/ Call(f) \/ CallUnauthorized(f) \/ Throw(f)
         \/ LoginFails(f) /\ UNCHANGED vars
         \/ LogoutFails(f) /\ UNCHANGED vars
  PROVE  WebInv'
  <1>1. fetch[f] \in FetchRecord /\ spoiled \subseteq Sessions
    BY DEF WebInv, WebTypeOK, FetchRecord
  <1>2. fetch[f].got \in Tokens \cup {None}
    BY <1>1 DEF FetchRecord
  <1>3. CASE RefreshTimesOut(f)
    <2>1. request[f].pc = "rotate" => tokens[request[f].token].session \in Sessions
      BY DEF WebInv, Safe, Wired
    <2>2. spoiled' = spoiled \cup (IF request[f].pc = "rotate" THEN SessionOf(request[f].token) ELSE {})
      BY <1>3 DEF RefreshTimesOut, Spoil
    <2>3. request[f].pc = "rotate" => SessionOf(request[f].token) = {tokens[request[f].token].session}
      BY Nobody DEF SessionOf, WebInv, Safe, Wired
    <2> QED
      BY <1>1, <1>3, <2>1, <2>2, <2>3, GotSpoiled, ReplyKeeps DEF RefreshTimesOut, Unauthorized
  <1>4. ASSUME fetch[f].pc = "call", Finish(f), UNCHANGED <<vars, jar, spoiled, out>>
        PROVE  WebInv'
    BY <1>1, <1>2, <1>4, Nobody, ReplyKeeps DEF Finish
  <1>5. CASE CallUnauthorized(f) /\ ~fetch[f].again
    <2> DEFINE q == [fetch[f] EXCEPT !.pc = "refresh", !.again = TRUE]
    <2>1. /\ q \in FetchRecord /\ q.pc = "refresh"
          /\ q.access = fetch[f].access /\ q.refresh = fetch[f].refresh /\ q.got = fetch[f].got
      BY <1>1 DEF FetchRecord, FetchPc
    <2>2. fetch' = [fetch EXCEPT ![f] = q]
      BY <1>5 DEF CallUnauthorized, WebInv, WebTypeOK
    <2>3. /\ fetch[f].pc = "call"
          /\ ~Active(fetch[f].access) \/ fetch[f].got = None
          /\ UNCHANGED <<vars, jar, spoiled, out>>
      BY <1>5 DEF CallUnauthorized
    <2> HIDE DEF q
    <2> QED
      BY <1>1, <2>1, <2>2, <2>3, GotSpoiled, Nobody, MoveKeeps
  <1>6. CASE Throw(f)
    <2>1. spoiled' = spoiled \cup SessionOf(fetch[f].got)
      BY <1>6 DEF Throw, Spoil
    <2>2. fetch[f].got \in Tokens =>
            SessionOf(fetch[f].got) = {tokens[fetch[f].got].session} /\ tokens[fetch[f].got].session \in Sessions
      BY Nobody, GotSpoiled DEF SessionOf
    <2>3. fetch[f].got = None => SessionOf(fetch[f].got) = {}
      BY DEF SessionOf
    <2> QED
      BY <1>1, <1>2, <1>6, <2>1, <2>2, <2>3, ReplyKeeps DEF Throw
  <1>7. CASE LoginFails(f) /\ UNCHANGED vars
    <2>1. fetch[f].got = None
      BY <1>7 DEF LoginFails, WebInv, Held
    <2> QED
      BY <1>1, <1>7, <2>1, Nobody, ReplyKeeps DEF LoginFails
  <1>8. CASE LogoutFails(f) /\ UNCHANGED vars
    <2>1. fetch[f].got = None
      BY <1>8 DEF LogoutFails, WebInv, Held
    <2>2. fetch[f].pc = "loggingout" => fetch[f].access \in Sessions
      BY DEF WebInv, WebTypeOK, Asking
    <2>3. aborts \in Nat
      BY DEF WebInv, Safe, TypeOK
    <2>4. ~Abort(f)
      BY <1>8, <2>3 DEF Abort, vars
    <2>5. \/ fetch[f].pc = "logout" /\ UNCHANGED spoiled
          \/ fetch[f].pc = "loggingout" /\ spoiled' = spoiled \cup {fetch[f].access}
      BY <1>8, <2>4 DEF LogoutFails, Spoil
    <2>6. Reply(f, "clear") /\ UNCHANGED <<vars, jar, out>>
      BY <1>8 DEF LogoutFails
    <2> QED
      BY <1>1, <2>1, <2>2, <2>5, <2>6, Nobody, ReplyKeeps
  <1> QED
    BY <1>3, <1>4, <1>5, <1>6, <1>7, <1>8 DEF Call, CallUnauthorized

-----------------------------------------------------------------------------
\* A fetch ends: its token goes to the cookies or is of a spoiled session.
LEMMA EndKeeps ==
  ASSUME WebInv, Safe', NEW f \in Requests, Receive(f) \/ Leave(f)
  PROVE  WebInv'
  <1>1. /\ fetch[f].pc = "reply" /\ fetch' = [fetch EXCEPT ![f] = IdleFetch]
        /\ UNCHANGED <<vars, out>>
    BY DEF Receive, Leave
  <1>2. IdleFetch \in FetchRecord /\ IdleFetch.pc = "idle" /\ IdleFetch.access = None
        /\ IdleFetch.refresh = None /\ IdleFetch.got = None /\ IdleFetch.reply = "keep"
    BY DEF IdleFetch, FetchRecord, FetchPc
  <1>3. fetch[f] \in FetchRecord
    BY DEF WebInv, WebTypeOK, FetchRecord
  <1>4. fetch[f].got # None =>
          /\ fetch[f].got \in Tokens
          /\ tokens[fetch[f].got].session \in Sessions
          /\ SessionOf(fetch[f].got) = {tokens[fetch[f].got].session}
    BY <1>3, GotSpoiled DEF SessionOf, FetchRecord
  <1>5. \/ Leave(f) /\ jar' = jar /\ spoiled' = spoiled \cup SessionOf(fetch[f].got)
        \/ Receive(f) /\ spoiled' = spoiled /\ fetch[f].reply = "keep" /\ jar' = jar
        \/ Receive(f) /\ spoiled' = spoiled /\ fetch[f].reply = "clear" /\ jar' = NoCookies
        \/ /\ Receive(f) /\ spoiled' = spoiled /\ fetch[f].reply = "set" /\ fetch[f].got # None
           /\ jar' = [access |-> tokens[fetch[f].got].session, refresh |-> fetch[f].got]
    BY <1>1, <1>3 DEF Receive, Leave, Spoil, Cookies, FetchRecord, WebInv, Held
  <1>6. UNCHANGED <<sessions, tokens, request>>
    BY <1>1 DEF vars
  <1>7. \A o \in Requests : fetch'[o] = IF o = f THEN IdleFetch ELSE fetch[o]
    BY <1>1, FetchRows DEF WebInv
  <1>8. /\ spoiled \subseteq spoiled' /\ spoiled' \subseteq Sessions
        /\ jar' = jar \/ jar'.refresh = None \/ jar'.refresh = fetch[f].got
    <2>1. fetch[f].got = None => SessionOf(fetch[f].got) = {}
      BY DEF SessionOf
    <2> QED
      BY <1>4, <1>5, <2>1 DEF NoCookies, WebInv, WebTypeOK
  <1>9. /\ jar' \in [access : Sessions \cup {None}, refresh : Tokens \cup {None}]
        /\ jar'.refresh # None => tokens[jar'.refresh].session # None
        /\ jar'.access # None => jar'.refresh # None /\ tokens[jar'.refresh].session = jar'.access
    BY <1>4, <1>5, Nobody DEF NoCookies, WebInv, WebTypeOK, CookiesAgree, Held
  <1>10. WebTypeOK'
    BY <1>1, <1>2, <1>6, <1>8, <1>9 DEF WebInv, WebTypeOK, Safe, FetchRecord, CookiesAgree
  <1>11. Asking'
    BY <1>2, <1>6, <1>7 DEF WebInv, Asking
  <1>12. Held'
    BY <1>2, <1>6, <1>7, <1>9 DEF WebInv, Held
  <1>13. Ended'
    BY <1>1, <1>6 DEF WebInv, Ended
  <1>14. ASSUME NEW s \in Sessions \ spoiled' PROVE OneCurrent(s)'
    <2>1. OneCurrent(s)
      BY <1>8 DEF WebInv
    <2> QED
      BY <1>1, <1>6, <1>7, <2>1 DEF OneCurrent, TokensOf
  <1>15. ASSUME NEW s \in Sessions \ (spoiled' \cup out') PROVE Kept(s)'
    <2>1. Kept(s)
      BY <1>1, <1>8 DEF WebInv
    <2>2. fetch[f].got \in TokensOf(s) => Receive(f) /\ fetch[f].reply = "set"
      BY <1>1, <1>4, <1>5, <2>1, Nobody DEF Kept, Granted, TokensOf
    <2>3. Open(s)'
      BY <1>1, <1>2, <1>6, <1>7, <2>1 DEF Kept, Open, TokensOf
    <2>4. Granted(s)'
      BY <1>2, <1>6, <1>7, <1>8, <2>1, Nobody DEF Kept, Granted, TokensOf
    <2>5. Fresh(s)'
      BY <1>2, <1>6, <1>7, <2>1, Nobody DEF Kept, Fresh, TokensOf
    <2>6. CookieCurrent(s)'
      <3>1. CASE jar'.refresh = fetch[f].got
        BY <1>6, <2>1, <3>1 DEF Kept, Granted, CookieCurrent, TokensOf
      <3>2. CASE jar'.refresh = None
        BY <3>2, Nobody DEF CookieCurrent, TokensOf
      <3>3. CASE jar' = jar /\ fetch[f].refresh = jar.refresh /\ fetch[f].got # None /\ jar.refresh \in TokensOf(s)
        <4>1. tokens[fetch[f].got].session = tokens[fetch[f].refresh].session
          BY <3>3, Nobody DEF WebInv, Held, TokensOf
        <4>2. fetch[f].got \in TokensOf(s)
          BY <1>4, <3>3, <4>1 DEF TokensOf
        <4>3. jar'.refresh = fetch[f].got
          BY <1>1, <1>5, <2>2, <4>2, <1>4 DEF Receive, Leave, Cookies
        <4> QED
          BY <3>1, <4>3
      <3>4. CASE jar' = jar /\ ~(fetch[f].refresh = jar.refresh /\ fetch[f].got # None)
        BY <1>6, <1>7, <2>1, <3>4 DEF Kept, CookieCurrent, TokensOf
      <3> QED
        BY <1>6, <1>8, <3>1, <3>2, <3>3, <3>4 DEF CookieCurrent, TokensOf
    <2> QED
      BY <2>3, <2>4, <2>5, <2>6 DEF Kept
  <1> QED
    BY <1>10, <1>11, <1>12, <1>13, <1>14, <1>15 DEF WebInv

\* A fetch that carries no refresh token: the logout.
LEMMA SendLogoutKeeps ==
  ASSUME WebInv, Safe', NEW f \in Requests, SendLogout(f)
  PROVE  WebInv'
  <1> DEFINE q == [IdleFetch EXCEPT
                     !.pc = IF jar.access = None THEN "reply" ELSE "logout",
                     !.reply = IF jar.access = None THEN "clear" ELSE "keep",
                     !.access = jar.access]
  <1>1. /\ q.pc \in {"reply", "logout"} /\ (q.pc = "logout" => jar.access # None)
        /\ q.access = jar.access /\ q.refresh = None /\ q.got = None /\ q.reply # "set"
        /\ q \in FetchRecord
    BY DEF WebInv, WebTypeOK, IdleFetch, FetchRecord, FetchPc
  <1>2. fetch' = [fetch EXCEPT ![f] = q] /\ UNCHANGED <<vars, jar, spoiled, out>>
    BY DEF SendLogout
  <1>3. fetch[f] = IdleFetch
    BY DEF SendLogout, WebInv, Held
  <1> HIDE DEF q
  <1>4. \A o \in Requests : fetch'[o] = IF o = f THEN q ELSE fetch[o]
    BY <1>2, FetchRows DEF WebInv
  <1>5. UNCHANGED <<sessions, tokens, request>>
    BY <1>2 DEF vars
  <1>6. WebTypeOK'
    BY <1>1, <1>2, <1>5 DEF WebInv, WebTypeOK, Safe, FetchRecord, CookiesAgree
  <1>7. Asking' /\ Held' /\ Ended'
    BY <1>1, <1>2, <1>4, <1>5 DEF WebInv, Asking, Held, Ended
  <1>8. ASSUME NEW s \in Sessions \ spoiled' PROVE OneCurrent(s)'
    <2>1. OneCurrent(s)
      BY <1>2 DEF WebInv
    <2> QED
      BY <1>3, <1>4, <1>5, <2>1 DEF OneCurrent, TokensOf, IdleFetch
  <1>9. ASSUME NEW s \in Sessions \ (spoiled' \cup out') PROVE Kept(s)'
    <2>1. Kept(s)
      BY <1>2 DEF WebInv
    <2>2. Open(s)'
      BY <1>3, <1>4, <1>5, <2>1 DEF Kept, Open, TokensOf, IdleFetch
    <2>3. Granted(s)' /\ Fresh(s)'
      BY <1>1, <1>2, <1>4, <1>5, <2>1, Nobody DEF Kept, Granted, Fresh, TokensOf
    <2>4. CookieCurrent(s)'
      BY <1>2, <1>3, <1>4, <1>5, <2>1 DEF Kept, CookieCurrent, TokensOf, IdleFetch
    <2> QED
      BY <2>2, <2>3, <2>4 DEF Kept
  <1> QED
    BY <1>6, <1>7, <1>8, <1>9 DEF WebInv

LEMMA ExpireAccessKeeps ==
  ASSUME WebInv, Safe', ExpireAccess
  PROVE  WebInv'
  <1>1. jar' = [jar EXCEPT !.access = None] /\ UNCHANGED <<vars, fetch, spoiled, out>>
    BY DEF ExpireAccess
  <1>2. jar'.refresh = jar.refresh /\ jar'.access = None
        /\ jar' \in [access : Sessions \cup {None}, refresh : Tokens \cup {None}]
    BY <1>1 DEF WebInv, WebTypeOK
  <1>3. UNCHANGED <<sessions, tokens, request>>
    BY <1>1 DEF vars
  <1>4. WebTypeOK'
    BY <1>1, <1>2 DEF WebInv, WebTypeOK, Safe, CookiesAgree
  <1>5. Asking' /\ Held' /\ Ended'
    BY <1>1, <1>2, <1>3 DEF WebInv, Asking, Held, Ended
  <1>6. ASSUME NEW s \in Sessions \ spoiled' PROVE OneCurrent(s)'
    BY <1>1, <1>3, <1>6 DEF WebInv, OneCurrent, TokensOf
  <1>7. ASSUME NEW s \in Sessions \ (spoiled' \cup out') PROVE Kept(s)'
    BY <1>1, <1>2, <1>3, <1>7 DEF WebInv, Kept, Open, Granted, Fresh, CookieCurrent, TokensOf
  <1> QED
    BY <1>4, <1>5, <1>6, <1>7 DEF WebInv

-----------------------------------------------------------------------------
\* The request of a fetch begins, and no row is written yet.
LEMMA AskRefreshKeeps ==
  ASSUME WebInv, Safe', NEW f \in Requests, AskRefresh(f)
  PROVE  WebInv'
  <1> DEFINE k == fetch[f].refresh
  <1>1. /\ fetch[f].pc = "refresh" /\ k \in Tokens /\ k # None
        /\ BeginRefresh(f, k)
        /\ fetch' = [fetch EXCEPT ![f].pc = "refreshing"]
        /\ spoiled' = spoiled \cup (IF MayPresent(f, k) THEN SessionOf(k) ELSE {})
        /\ UNCHANGED <<jar, out>>
    BY DEF AskRefresh, Spoil, WebInv, WebTypeOK
  <1>2. UNCHANGED <<sessions, tokens>>
    BY <1>1 DEF BeginRefresh, tables
  <1>3. PICK q :
          /\ request' = [request EXCEPT ![f] = q]
          /\ q.token = k
          /\ \/ q.pc = "rotate" /\ Live(k)
             \/ q.pc = "reuse" /\ ~Live(k)
    <2>1. CASE Live(k)
      <3>1. PICK n \in Tokens : request' = [request EXCEPT ![f] =
              [IdleRequest EXCEPT !.pc = "rotate", !.token = k, !.fresh = n]]
        BY <1>1, <2>1 DEF BeginRefresh
      <3> DEFINE q == [IdleRequest EXCEPT !.pc = "rotate", !.token = k, !.fresh = n]
      <3>2. request' = [request EXCEPT ![f] = q] /\ q.pc = "rotate" /\ q.token = k
        BY <3>1 DEF IdleRequest
      <3> HIDE DEF q
      <3> QED
        BY <2>1, <3>1, <3>2
    <2>2. CASE ~Live(k)
      <3>1. request' = [request EXCEPT ![f] = [IdleRequest EXCEPT !.pc = "reuse", !.token = k]]
        BY <1>1, <2>2 DEF BeginRefresh
      <3>2. /\ [IdleRequest EXCEPT !.pc = "reuse", !.token = k].pc = "reuse"
            /\ [IdleRequest EXCEPT !.pc = "reuse", !.token = k].token = k
        BY DEF IdleRequest
      <3> QED
        BY <2>2, <3>1, <3>2
    <2> QED
      BY <2>1, <2>2
  <1>4. \A o \in Requests : request'[o] = IF o = f THEN q ELSE request[o]
    BY <1>3, RequestRows DEF WebInv
  <1>5. tokens[k].session \in Sessions /\ SessionOf(k) = {tokens[k].session}
    BY <1>1, Nobody DEF SessionOf, WebInv, Held, Safe, TypeOK, TokenRecord
  <1>6. /\ \A o \in Requests :
             /\ o # f => fetch'[o] = fetch[o]
             /\ fetch'[o].access = fetch[o].access
             /\ fetch'[o].refresh = fetch[o].refresh
             /\ fetch'[o].got = fetch[o].got
             /\ fetch'[o].reply = fetch[o].reply
        /\ fetch'[f].pc = "refreshing"
    BY <1>1 DEF WebInv, WebTypeOK
  <1>0. k = fetch[f].refresh
    OBVIOUS
  <1> HIDE DEF k
  <1>7. WebTypeOK'
    <2>1. spoiled' \subseteq Sessions
      BY <1>1, <1>5 DEF WebInv, WebTypeOK
    <2>2. fetch' \in [Requests -> FetchRecord]
      BY <1>1 DEF WebInv, WebTypeOK, FetchRecord, FetchPc
    <2> QED
      BY <1>1, <1>2, <2>1, <2>2 DEF WebInv, WebTypeOK, Safe, CookiesAgree, FetchRecord
  <1>8. Asking'
    BY <1>0, <1>2, <1>3, <1>4, <1>6 DEF WebInv, Asking
  <1>9. Held'
    BY <1>1, <1>2, <1>6 DEF WebInv, Held
  <1>10. Ended'
    BY <1>1, <1>2 DEF WebInv, Ended
  <1>11. ASSUME NEW s \in Sessions \ spoiled' PROVE OneCurrent(s)'
    <2>1. OneCurrent(s)
      BY <1>1 DEF WebInv
    <2>2. k \in TokensOf(s) => ~MayPresent(f, k)
      BY <1>1, <1>5 DEF TokensOf
    <2>3. ASSUME NEW r \in Requests, r # f, request[r].pc = "rotate", request[r].token \in TokensOf(s),
                 k \in TokensOf(s), Live(k)
          PROVE  FALSE
      <3>1. request[r].token = k
        BY <2>1, <2>3 DEF OneCurrent, Live
      <3>2. fetch[r].pc = "refreshing" /\ fetch[r].refresh = k
        BY <2>1, <2>3, <3>1 DEF OneCurrent, WebInv, Asking
      <3> QED
        BY <2>2, <2>3, <3>2 DEF MayPresent
    <2> QED
      BY <1>2, <1>3, <1>4, <1>6, <2>1, <2>3 DEF OneCurrent, TokensOf, Live
  <1>12. ASSUME NEW s \in Sessions \ (spoiled' \cup out') PROVE Kept(s)'
    <2>1. Kept(s)
      BY <1>1 DEF WebInv
    <2>2. k \in TokensOf(s) => ~MayPresent(f, k)
      BY <1>1, <1>5 DEF TokensOf
    <2>3. k \in TokensOf(s) => Live(k)
      <3>1. SUFFICES ASSUME k \in TokensOf(s) PROVE Live(k)
        OBVIOUS
      <3>2. fetch[f].got = None
        <4>1. SUFFICES ASSUME fetch[f].got \in Tokens PROVE FALSE
          BY DEF WebInv, WebTypeOK
        <4>2. tokens[fetch[f].got].session = s
          BY <1>0, <1>1, <3>1, <4>1, Nobody DEF TokensOf, WebInv, Held
        <4> QED
          BY <1>1, <4>1, <4>2, GotSpoiled
      <3>3. ~tokens[k].used /\ ~tokens[k].revoked /\ sessions[s].status # "revoked"
        BY <1>0, <1>1, <2>1, <3>1, <3>2 DEF Kept, Fresh, Open, RefreshPc
      <3>4. sessions[s].status # "none" /\ ~sessions[s].expired /\ sessions[s] \in SessionRecord
        BY <1>1, <3>1, Nobody DEF WebInv, Safe, TypeOK, Rows, Ended, TokensOf
      <3> QED
        BY <3>1, <3>3, <3>4, Nobody DEF Live, Active, TokensOf, SessionRecord
    <2>4. Open(s)'
      BY <1>2, <1>3, <1>4, <1>6, <2>1, <2>3 DEF Kept, Open, TokensOf
    <2>5. Granted(s)'
      <3>1. fetch[f].got \notin TokensOf(s)
        BY <1>1, <2>1 DEF Kept, Granted
      <3> QED
        BY <1>1, <1>2, <1>6, <2>1, <3>1 DEF Kept, Granted, TokensOf
    <2>6. Fresh(s)'
      BY <1>0, <1>1, <1>2, <1>6, <2>1, <2>2 DEF Kept, Fresh, TokensOf, MayPresent, RefreshPc
    <2>7. CookieCurrent(s)'
      BY <1>1, <1>2, <1>6, <2>1 DEF Kept, CookieCurrent, TokensOf
    <2> QED
      BY <2>4, <2>5, <2>6, <2>7 DEF Kept
  <1> QED
    BY <1>7, <1>8, <1>9, <1>10, <1>11, <1>12 DEF WebInv

\* A login or a logout is asked for: no refresh token is involved.
LEMMA AskKeeps ==
  ASSUME WebInv, Safe', NEW f \in Requests, SendLogin(f) \/ AskLogout(f)
  PROVE  WebInv'
  <1>1. /\ UNCHANGED <<sessions, tokens, jar, spoiled, out>>
        /\ \/ fetch[f] = IdleFetch /\ fetch' = [fetch EXCEPT ![f].pc = "login"]
           \/ fetch[f].pc = "logout" /\ fetch' = [fetch EXCEPT ![f].pc = "loggingout"]
    BY DEF SendLogin, AskLogout, BeginLogin, Authenticate, tables, WebInv, Held
  <1>2. \/ SendLogin(f)
        \/ AskLogout(f) /\ fetch[f].access \in Sessions /\ sessions[fetch[f].access].status # "none"
    BY Nobody DEF SendLogin, AskLogout, Authenticate, Active, WebInv, WebTypeOK, Held
  <1>3. PICK q :
          /\ request' = [request EXCEPT ![f] = q]
          /\ \/ SendLogin(f) /\ q.pc = "login"
             \/ AskLogout(f) /\ q.pc = "logout" /\ q.target = fetch[f].access
    <2>1. CASE SendLogin(f)
      <3>1. PICK s \in Sessions, k \in Tokens : request' = [request EXCEPT ![f] =
              [IdleRequest EXCEPT !.pc = "login", !.target = s, !.fresh = k]]
        BY <2>1 DEF SendLogin, BeginLogin
      <3>2. [IdleRequest EXCEPT !.pc = "login", !.target = s, !.fresh = k].pc = "login"
        BY DEF IdleRequest
      <3> QED
        BY <2>1, <3>1, <3>2
    <2>2. CASE AskLogout(f)
      <3> DEFINE q(pc) == [IdleRequest EXCEPT !.pc = pc, !.target = fetch[f].access]
      <3>1. PICK pc \in {"logout", "logout_all", "change_password"} : request' = [request EXCEPT ![f] = q(pc)]
        BY <2>2 DEF AskLogout, Authenticate
      <3>2. q(pc).pc = pc /\ q(pc).target = fetch[f].access
        BY DEF IdleRequest
      <3>3. request'[f].pc = "logout"
        BY <2>2 DEF AskLogout
      <3> HIDE DEF q
      <3>4. request'[f] = q(pc)
        BY <3>1 DEF WebInv, Safe, TypeOK
      <3> QED
        BY <2>2, <3>1, <3>2, <3>3, <3>4
    <2> QED
      BY <2>1, <2>2
  <1>4. \A o \in Requests : request'[o] = IF o = f THEN q ELSE request[o]
    BY <1>3, RequestRows DEF WebInv
  <1>5. /\ \A o \in Requests :
             /\ o # f => fetch'[o] = fetch[o]
             /\ fetch'[o].access = fetch[o].access
             /\ fetch'[o].refresh = fetch[o].refresh
             /\ fetch'[o].got = fetch[o].got
             /\ fetch'[o].reply = fetch[o].reply
        /\ SendLogin(f) => fetch'[f].pc = "login"
        /\ AskLogout(f) => fetch'[f].pc = "loggingout"
        /\ fetch'[f].pc \in {"login", "loggingout"}
    BY <1>1 DEF SendLogin, AskLogout, WebInv, WebTypeOK
  <1>6. fetch[f].refresh = None /\ fetch[f].got = None /\ fetch[f].pc \notin {"refreshing", "loggingout"}
    BY <1>1 DEF IdleFetch, WebInv, Held
  <1>7. WebTypeOK'
    <2>1. fetch' \in [Requests -> FetchRecord]
      BY <1>1 DEF WebInv, WebTypeOK, FetchRecord, FetchPc
    <2> QED
      BY <1>1, <2>1 DEF WebInv, WebTypeOK, Safe, CookiesAgree, FetchRecord
  <1>8. Asking'
    BY <1>1, <1>2, <1>3, <1>4, <1>5 DEF WebInv, Asking
  <1>9. Held'
    BY <1>1, <1>2, <1>5, <1>6, Nobody DEF WebInv, Held
  <1>10. Ended'
    BY <1>1 DEF WebInv, Ended
  <1>11. ASSUME NEW s \in Sessions \ spoiled' PROVE OneCurrent(s)'
    <2>1. OneCurrent(s)
      BY <1>1 DEF WebInv
    <2> QED
      BY <1>1, <1>3, <1>4, <1>5, <2>1 DEF OneCurrent, TokensOf
  <1>12. ASSUME NEW s \in Sessions \ (spoiled' \cup out') PROVE Kept(s)'
    <2>1. Kept(s)
      BY <1>1 DEF WebInv
    <2>2. Open(s)'
      BY <1>1, <1>3, <1>4, <1>5, <2>1 DEF Kept, Open, TokensOf
    <2>3. Granted(s)' /\ Fresh(s)'
      BY <1>1, <1>5, <1>6, <2>1, Nobody DEF Kept, Granted, Fresh, TokensOf
    <2>4. CookieCurrent(s)'
      BY <1>1, <1>5, <2>1 DEF Kept, CookieCurrent, TokensOf
    <2> QED
      BY <2>2, <2>3, <2>4 DEF Kept
  <1> QED
    BY <1>7, <1>8, <1>9, <1>10, <1>11, <1>12 DEF WebInv

-----------------------------------------------------------------------------
\* The request of a fetch ends without a token for it: the fetch that waits has an
\* answer that sets no cookies, the fetch that has given up notices nothing.
Quits(f) ==
    \/ UNCHANGED fetch /\ fetch[f].pc \notin {"refreshing", "login", "loggingout"}
    \/ /\ fetch[f].pc \in {"refreshing", "login", "loggingout"}
       /\ \E kind \in {"keep", "clear"} : Reply(f, kind)

LEMMA QuitRows ==
  ASSUME WebInv, NEW f \in Requests, Quits(f)
  PROVE  /\ fetch' \in [Requests -> FetchRecord]
         /\ \A o \in Requests :
              /\ o # f => fetch'[o] = fetch[o]
              /\ fetch'[o].access = fetch[o].access
              /\ fetch'[o].refresh = fetch[o].refresh
              /\ fetch'[o].got = fetch[o].got
         /\ fetch'[f] = fetch[f] \/ (fetch'[f].pc = "reply" /\ fetch'[f].reply # "set")
         /\ fetch'[f].pc \notin {"refreshing", "login", "loggingout"}
         /\ fetch[f].got # None => fetch[f].pc = "refreshing" \/ fetch'[f] = fetch[f]
  <1>1. CASE UNCHANGED fetch /\ fetch[f].pc \notin {"refreshing", "login", "loggingout"}
    BY <1>1 DEF WebInv, WebTypeOK, FetchRecord
  <1>2. CASE /\ fetch[f].pc \in {"refreshing", "login", "loggingout"}
             /\ \E kind \in {"keep", "clear"} : Reply(f, kind)
    <2>1. PICK kind \in {"keep", "clear"} : Reply(f, kind)
      BY <1>2
    <2>2. fetch' \in [Requests -> FetchRecord]
      BY <2>1 DEF Reply, WebInv, WebTypeOK, FetchRecord, FetchPc
    <2>3. fetch[f].got # None => fetch[f].pc = "refreshing"
      BY <1>2 DEF WebInv, Held
    <2> QED
      BY <2>1, <2>2, <2>3, ReplyRows DEF WebInv
  <1> QED
    BY <1>1, <1>2 DEF Quits

\* A rollback, or the end of a session that is spoiled or logged out of.
LEMMA QuitKeeps ==
  ASSUME WebInv, Safe', NEW f \in Requests, Quits(f),
         \A o \in Requests : request'[o] = IF o = f THEN IdleRequest ELSE request[o],
         UNCHANGED <<jar, spoiled>>,
         out \subseteq out', out' \subseteq Sessions,
         \A s \in out' : sessions'[s].status = "revoked",
         \A s \in Sessions :
           /\ sessions'[s].expired = sessions[s].expired
           /\ sessions[s].status # "none" => sessions'[s].status # "none"
           /\ s \notin spoiled \cup out' => sessions'[s].status = sessions[s].status,
         \A k \in Tokens :
           /\ tokens'[k].session = tokens[k].session
           /\ tokens'[k].used = tokens[k].used
           /\ tokens[k].session \notin spoiled \cup out' => tokens'[k].revoked = tokens[k].revoked
  PROVE  WebInv'
  <1>1. /\ fetch' \in [Requests -> FetchRecord]
        /\ \A o \in Requests :
             /\ o # f => fetch'[o] = fetch[o]
             /\ fetch'[o].access = fetch[o].access
             /\ fetch'[o].refresh = fetch[o].refresh
             /\ fetch'[o].got = fetch[o].got
        /\ fetch'[f] = fetch[f] \/ (fetch'[f].pc = "reply" /\ fetch'[f].reply # "set")
        /\ fetch'[f].pc \notin {"refreshing", "login", "loggingout"}
        /\ fetch[f].got # None => fetch[f].pc = "refreshing" \/ fetch'[f] = fetch[f]
    BY QuitRows
  <1>2. jar \in [access : Sessions \cup {None}, refresh : Tokens \cup {None}]
        /\ \A o \in Requests : fetch[o] \in FetchRecord
    BY DEF WebInv, WebTypeOK, FetchRecord
  <1>3. WebTypeOK'
    BY <1>1, <1>2 DEF WebInv, WebTypeOK, Safe, CookiesAgree, FetchRecord
  <1>4. Asking'
    BY <1>1, IdleRequestPc DEF WebInv, Asking
  <1>5. Held'
    <2>1. jar.refresh # None => jar.refresh \in Tokens
      BY <1>2
    <2>2. \A o \in Requests : /\ fetch[o].refresh # None => fetch[o].refresh \in Tokens
                              /\ fetch[o].got # None => fetch[o].got \in Tokens
      BY <1>2 DEF FetchRecord
    <2> QED
      BY <1>1, <2>1, <2>2 DEF WebInv, Held
  <1>6. Ended'
    BY DEF WebInv, Ended
  <1>7. ASSUME NEW s \in Sessions \ spoiled' PROVE OneCurrent(s)'
    <2>1. OneCurrent(s)
      BY DEF WebInv
    <2>2. TokensOf(s)' = TokensOf(s)
      BY DEF TokensOf
    <2>3. \A r \in Requests : request[r].pc = "rotate" => request[r].token \in Tokens
      BY DEF WebInv, Safe, Wired
    <2>4. \A k \in TokensOf(s) : tokens'[k].used = tokens[k].used
      BY DEF TokensOf
    <2> QED
      BY <1>1, <2>1, <2>2, <2>4, IdleRequestPc DEF OneCurrent
  <1>8. ASSUME NEW s \in Sessions \ (spoiled' \cup out') PROVE Kept(s)'
    <2>1. Kept(s)
      BY DEF WebInv
    <2>2. TokensOf(s)' = TokensOf(s)
      BY DEF TokensOf
    <2>3. \A k \in TokensOf(s) : tokens'[k].used = tokens[k].used /\ tokens'[k].revoked = tokens[k].revoked
      BY DEF TokensOf
    <2>4. fetch[f].got \in TokensOf(s) => fetch'[f] = fetch[f]
      BY <1>1, <2>1, Nobody DEF Kept, Granted, TokensOf
    <2>5. Open(s)'
      BY <1>1, <2>1, <2>2, <2>3, IdleRequestPc DEF Kept, Open
    <2>6. Granted(s)'
      BY <1>1, <2>1, <2>2, <2>3, <2>4 DEF Kept, Granted
    <2>7. Fresh(s)'
      BY <1>1, <2>1, <2>2, <2>3 DEF Kept, Fresh, RefreshPc
    <2>8. CookieCurrent(s)'
      BY <1>1, <2>1, <2>2, <2>3 DEF Kept, CookieCurrent
    <2> QED
      BY <2>5, <2>6, <2>7, <2>8 DEF Kept
  <1> QED
    BY <1>3, <1>4, <1>5, <1>6, <1>7, <1>8 DEF WebInv

LEMMA AbortKeeps ==
  ASSUME WebInv, Safe', NEW f \in Requests, Abort(f), Quits(f), UNCHANGED <<jar, spoiled, out>>
  PROVE  WebInv'
  <1>1. request' = [request EXCEPT ![f] = IdleRequest] /\ UNCHANGED <<sessions, tokens>>
    BY DEF Abort, Return, tables
  <1>2. \A o \in Requests : request'[o] = IF o = f THEN IdleRequest ELSE request[o]
    BY <1>1, RequestRows DEF WebInv
  <1> QED
    BY <1>1, <1>2, QuitKeeps DEF WebInv, WebTypeOK, Ended

\* The refresh that was refused was of a session that was spoiled or logged out of.
LEMMA RevokeFamilyKeeps ==
  ASSUME WebInv, Safe', NEW f \in Requests, RevokeFamily(f), Quits(f), UNCHANGED <<jar, spoiled, out>>
  PROVE  WebInv'
  <1> DEFINE s == tokens[request[f].token].session
  <1>1. /\ request[f].pc = "reuse" /\ request' = [request EXCEPT ![f] = IdleRequest]
        /\ s \in Sessions /\ request[f].token \in TokensOf(s)
        /\ sessions' = Revoked({s}) /\ tokens' = RevokedTokens(TokensOf(s))
    BY DEF RevokeFamily, Return, WebInv, Safe, Wired, TokensOf
  <1>2. \A o \in Requests : request'[o] = IF o = f THEN IdleRequest ELSE request[o]
    BY <1>1, RequestRows DEF WebInv
  <1> HIDE DEF s
  <1>3. Revokes(s)
    BY <1>1, RevokeRows DEF WebInv
  <1>4. s \in spoiled \cup out
    BY <1>1 DEF WebInv, Kept, Open
  <1>5. /\ \A t \in out : sessions'[t].status = "revoked"
        /\ \A t \in Sessions :
           /\ sessions'[t].expired = sessions[t].expired
           /\ sessions[t].status # "none" => sessions'[t].status # "none"
           /\ t \notin spoiled \cup out => sessions'[t].status = sessions[t].status
    BY <1>3, <1>4 DEF Revokes, WebInv, WebTypeOK, Ended
  <1>6. \A k \in Tokens :
           /\ tokens'[k].session = tokens[k].session
           /\ tokens'[k].used = tokens[k].used
           /\ tokens[k].session \notin spoiled \cup out => tokens'[k].revoked = tokens[k].revoked
    BY <1>3, <1>4 DEF Revokes
  <1> QED
    BY <1>2, <1>5, <1>6, QuitKeeps DEF WebInv, WebTypeOK

\* A logout is answered, or of a session that was spoiled when it was given up.
LEMMA LogoutKeeps ==
  ASSUME WebInv, Safe', NEW f \in Requests, Logout(f), Quits(f), UNCHANGED <<jar, spoiled>>,
         \/ out' = out \cup {request[f].target}
         \/ out' = out /\ fetch[f].pc # "loggingout"
  PROVE  WebInv'
  <1> DEFINE s == request[f].target
  <1>1. /\ request[f].pc = "logout" /\ request' = [request EXCEPT ![f] = IdleRequest]
        /\ s \in Sessions /\ sessions[s].status # "none"
        /\ sessions' = Revoked({s}) /\ tokens' = RevokedTokens(TokensOf(s))
    BY DEF Logout, Return, WebInv, Asking
  <1>2. \A o \in Requests : request'[o] = IF o = f THEN IdleRequest ELSE request[o]
    BY <1>1, RequestRows DEF WebInv
  <1>3. Revokes(s)
    BY <1>1, RevokeRows DEF WebInv
  <1>4. s \in spoiled \cup out'
    BY <1>1 DEF WebInv, Kept, Open
  <1>0. out' = out \cup {s} \/ out' = out
    OBVIOUS
  <1> HIDE DEF s
  <1>5. sessions'[s].status = "revoked"
    BY <1>1, <1>3 DEF Revokes, WebInv, Safe, TypeOK, SessionRecord
  <1>6. /\ out \subseteq out' /\ out' \subseteq Sessions
        /\ \A t \in out' : sessions'[t].status = "revoked"
        /\ \A t \in Sessions :
           /\ sessions'[t].expired = sessions[t].expired
           /\ sessions[t].status # "none" => sessions'[t].status # "none"
           /\ t \notin spoiled \cup out' => sessions'[t].status = sessions[t].status
    BY <1>0, <1>1, <1>3, <1>4, <1>5 DEF Revokes, WebInv, WebTypeOK, Ended
  <1>7. \A k \in Tokens :
           /\ tokens'[k].session = tokens[k].session
           /\ tokens'[k].used = tokens[k].used
           /\ tokens[k].session \notin spoiled \cup out' => tokens'[k].revoked = tokens[k].revoked
    BY <1>3, <1>4 DEF Revokes
  <1> QED
    BY <1>2, <1>6, <1>7, QuitKeeps

-----------------------------------------------------------------------------
\* A refresh is granted to the fetch that waits for it, or in a spoiled session
\* when the fetch has given it up.
LEMMA RotateKeeps ==
  ASSUME WebInv, Safe', NEW f \in Requests, Rotate(f), UNCHANGED <<jar, spoiled, out>>,
         \/ UNCHANGED fetch /\ fetch[f].pc \notin {"refreshing", "login", "loggingout"}
         \/ /\ fetch[f].pc = "refreshing"
            /\ fetch' = [fetch EXCEPT ![f].pc = "call", ![f].got = request[f].fresh,
                                      ![f].access = tokens[request[f].token].session]
  PROVE  WebInv'
  <1>1. PICK k \in Tokens, n \in Tokens, u \in Sessions : Rotates(f, k, n, u)
    BY RotateRows DEF WebInv
  <1>2. /\ request[f].pc = "rotate"
        /\ n = request[f].fresh /\ tokens[n].session = None
        /\ k = request[f].token /\ tokens[k].session = u
        /\ n # k
        /\ sessions[u].status # "none"
        /\ sessions' = sessions
    BY <1>1 DEF Rotates
  <1>3. \A j \in Tokens :
          /\ tokens'[j].session = IF j = n THEN u ELSE tokens[j].session
          /\ tokens'[j].used = IF j = n THEN FALSE ELSE IF j = k THEN TRUE ELSE tokens[j].used
          /\ tokens'[j].revoked = IF j = n THEN FALSE ELSE tokens[j].revoked
    BY <1>1 DEF Rotates
  <1>4. \A o \in Requests : request'[o] = IF o = f THEN IdleRequest ELSE request[o]
    BY <1>1 DEF Rotates
  <1>5. /\ fetch' \in [Requests -> FetchRecord]
        /\ \A o \in Requests :
             /\ o # f => fetch'[o] = fetch[o]
             /\ fetch'[o].refresh = fetch[o].refresh
        /\ \/ fetch' = fetch /\ fetch[f].pc \notin {"refreshing", "login", "loggingout"}
           \/ /\ fetch[f].pc = "refreshing" /\ fetch[f].refresh = k
              /\ fetch'[f].pc = "call" /\ fetch'[f].got = n /\ fetch'[f].access = u
    <2>1. CASE UNCHANGED fetch /\ fetch[f].pc \notin {"refreshing", "login", "loggingout"}
      BY <2>1 DEF WebInv, WebTypeOK, FetchRecord
    <2>2. CASE /\ fetch[f].pc = "refreshing"
               /\ fetch' = [fetch EXCEPT ![f].pc = "call", ![f].got = n, ![f].access = u]
      <3>1. fetch'[f] = [fetch[f] EXCEPT !.pc = "call", !.got = n, !.access = u]
        BY <2>2 DEF WebInv, WebTypeOK
      <3>2. /\ fetch'[f].refresh = fetch[f].refresh
            /\ fetch'[f].pc = "call" /\ fetch'[f].got = n /\ fetch'[f].access = u
            /\ fetch'[f] \in FetchRecord
        BY <3>1 DEF WebInv, WebTypeOK, FetchRecord, FetchPc
      <3>3. fetch[f].refresh = k
        BY <1>2, <2>2 DEF WebInv, Asking
      <3>4. \A o \in Requests : o # f => fetch'[o] = fetch[o] /\ fetch[o] \in FetchRecord
        BY <2>2 DEF WebInv, WebTypeOK, FetchRecord
      <3>5. fetch' \in [Requests -> FetchRecord]
        <4>1. fetch' = [o \in Requests |-> fetch'[o]]
          BY <2>2 DEF WebInv, WebTypeOK
        <4> QED
          BY <3>2, <3>4, <4>1
      <3> QED
        BY <2>2, <3>2, <3>3, <3>4, <3>5
    <2> QED
      BY <1>2, <2>1, <2>2
  <1>6. jar \in [access : Sessions \cup {None}, refresh : Tokens \cup {None}]
        /\ \A o \in Requests : fetch[o] \in FetchRecord
    BY DEF WebInv, WebTypeOK, FetchRecord
  <1>7. /\ jar.refresh # None => jar.refresh \in Tokens /\ jar.refresh # n
        /\ \A o \in Requests :
             /\ fetch[o].refresh # None => fetch[o].refresh \in Tokens /\ fetch[o].refresh # n
             /\ fetch[o].got # None => fetch[o].got \in Tokens /\ fetch[o].got # n
    BY <1>2, <1>6 DEF FetchRecord, WebInv, Held
  <1>8. WebTypeOK'
    BY <1>3, <1>5, <1>6, <1>7 DEF WebInv, WebTypeOK, Safe, CookiesAgree, FetchRecord
  <1>9. Asking'
    BY <1>2, <1>4, <1>5, IdleRequestPc DEF WebInv, Asking
  <1>10. Held'
    <2>1. jar.refresh # None => tokens'[jar.refresh].session = tokens[jar.refresh].session
      BY <1>3, <1>7
    <2>2. \A o \in Requests :
            /\ fetch[o].refresh # None => tokens'[fetch[o].refresh].session = tokens[fetch[o].refresh].session
            /\ fetch[o].got # None => tokens'[fetch[o].got].session = tokens[fetch[o].got].session
      BY <1>3, <1>7
    <2>3. tokens'[n].session = u /\ tokens'[k].session = u
      BY <1>2, <1>3
    <2> QED
      BY <1>2, <1>5, <2>1, <2>2, <2>3, Nobody DEF WebInv, Held
  <1>11. Ended'
    BY <1>2 DEF WebInv, Ended
  <1>12. /\ TokensOf(u)' = TokensOf(u) \cup {n} /\ k \in TokensOf(u) /\ n \notin TokensOf(u)
         /\ \A s \in Sessions \ {u} : TokensOf(s)' = TokensOf(s) /\ n \notin TokensOf(s) /\ k \notin TokensOf(s)
    BY <1>2, <1>3, Nobody DEF TokensOf
  <1>13. u \notin spoiled => fetch[f].pc = "refreshing"
    BY <1>2, <1>12 DEF WebInv, OneCurrent
  <1>14. \A s \in Sessions : TokensOf(s) \subseteq Tokens
    BY DEF TokensOf
  <1>15. ASSUME NEW s \in Sessions \ spoiled' PROVE OneCurrent(s)'
    <2>1. OneCurrent(s)
      BY DEF WebInv
    <2>2. CASE s # u
      <3>1. TokensOf(s)' = TokensOf(s) /\ \A j \in TokensOf(s) : tokens'[j].used = tokens[j].used
        BY <1>3, <1>12, <1>14, <2>2
      <3>2. \A r \in Requests : fetch[r].pc = "refreshing" /\ r # f => fetch'[r].pc = "refreshing"
        BY <1>5
      <3> QED
        BY <1>4, <2>1, <3>1, <3>2, IdleRequestPc DEF OneCurrent
    <2>3. CASE s = u
      <3>1. \A j \in TokensOf(u) : ~tokens[j].used => j = k
        BY <1>2, <1>12, <2>1, <2>3 DEF OneCurrent
      <3>2. \A i, j \in TokensOf(s)' : ~tokens'[i].used /\ ~tokens'[j].used => i = j
        BY <1>3, <1>12, <1>14, <2>3, <3>1
      <3>3. \A r \in Requests : r # f /\ request[r].pc = "rotate" => request[r].token \notin TokensOf(u)
        BY <1>2, <1>12, <2>1, <2>3 DEF OneCurrent
      <3>4. \A r \in Requests : request[r].pc = "rotate" => request[r].token # n
        BY <1>2, Nobody DEF WebInv, Safe, Wired
      <3> QED
        BY <1>4, <1>12, <2>3, <3>2, <3>3, <3>4, IdleRequestPc DEF OneCurrent
    <2> QED
      BY <2>2, <2>3
  <1>16. ASSUME NEW s \in Sessions \ (spoiled' \cup out') PROVE Kept(s)'
    <2>1. Kept(s)
      BY DEF WebInv
    <2>2. CASE s # u
      <3>1. \A j \in TokensOf(s) : tokens'[j].used = tokens[j].used /\ tokens'[j].revoked = tokens[j].revoked
        BY <1>3, <1>12, <1>14, <2>2
      <3>2. Open(s)'
        BY <1>2, <1>4, <1>5, <1>12, <2>1, <2>2, <3>1, IdleRequestPc DEF Kept, Open
      <3>3. Granted(s)'
        BY <1>5, <1>7, <1>12, <2>1, <2>2, <3>1, Nobody, <1>14 DEF Kept, Granted
      <3>4. Fresh(s)'
        BY <1>5, <1>12, <2>1, <2>2, <3>1 DEF Kept, Fresh, RefreshPc
      <3>5. CookieCurrent(s)'
        BY <1>2, <1>5, <1>12, <2>1, <2>2, <3>1, Nobody DEF Kept, CookieCurrent
      <3> QED
        BY <3>2, <3>3, <3>4, <3>5 DEF Kept
    <2>3. CASE s = u
      <3>1. /\ fetch[f].pc = "refreshing" /\ fetch[f].refresh = k
            /\ fetch'[f].pc = "call" /\ fetch'[f].got = n
        BY <1>5, <1>13, <2>3
      <3>2. OneCurrent(u)
        BY <2>3 DEF WebInv
      <3>3. \A j \in TokensOf(u) : ~tokens[j].used => j = k
        BY <1>2, <1>12, <3>2 DEF OneCurrent
      <3>4. \A j \in TokensOf(u) : j # k => tokens'[j].used = tokens[j].used
        BY <1>3, <1>12, <1>14
      <3>5. ~tokens'[n].used
        BY <1>3
      <3>6. Open(s)'
        <4>1. \A j \in TokensOf(u) : ~tokens[j].revoked
          BY <2>1, <2>3 DEF Kept, Open
        <4>2. \A j \in TokensOf(u)' : ~tokens'[j].revoked
          BY <1>3, <1>12, <1>14, <4>1
        <4>3. \A r \in Requests : request[r].pc = "reuse" => request[r].token # n
          BY <1>2, Nobody DEF WebInv, Safe, Wired
        <4> QED
          BY <1>2, <1>4, <1>5, <1>12, <2>1, <2>3, <4>2, <4>3, IdleRequestPc DEF Kept, Open
      <3>7. Granted(s)'
        <4>1. \A o \in Requests : fetch[o].got \notin TokensOf(u)
          <5>1. SUFFICES ASSUME NEW o \in Requests, fetch[o].got \in TokensOf(u) PROVE FALSE
            OBVIOUS
          <5>2. fetch[o].got = k
            BY <2>1, <2>3, <3>3, <5>1 DEF Kept, Granted
          <5> QED
            BY <2>1, <2>3, <3>1, <5>1, <5>2 DEF Kept, Granted
        <4>2. /\ jar.refresh # n
              /\ \A o \in Requests : fetch[o].refresh # n /\ fetch[o].got # n
          BY <1>7, Nobody
        <4> QED
          BY <1>5, <1>12, <2>3, <3>1, <3>5, <4>1, <4>2 DEF Granted
      <3>8. Fresh(s)'
        <4>1. \A o \in Requests : o # f /\ fetch[o].pc \in RefreshPc => fetch[o].refresh # k
          BY <1>12, <2>1, <2>3, <3>1 DEF Kept, Fresh
        <4>2. \A o \in Requests : o # f /\ fetch[o].refresh = k => fetch[o].pc # "refreshing" /\ fetch[o].got = None
          BY <1>12, <2>1, <2>3, <3>1 DEF Kept, Fresh, RefreshPc
        <4>3. \A o \in Requests : fetch[o].refresh \in TokensOf(u)' => fetch[o].refresh \in TokensOf(u)
          BY <1>7, <1>12, Nobody
        <4>4. ASSUME NEW o \in Requests, fetch'[o].refresh \in TokensOf(u)', fetch'[o].pc \in RefreshPc
              PROVE  /\ fetch'[o].got = None => ~tokens'[fetch'[o].refresh].used
                     /\ \A p \in Requests : fetch'[p].refresh = fetch'[o].refresh /\ p # o =>
                          fetch'[p].pc # "refreshing" /\ fetch'[p].got = None
          <5>1. CASE o = f
            BY <1>5, <3>1, <4>2, <5>1, Nobody
          <5>2. CASE o # f
            <6>1. fetch[o].refresh \in TokensOf(u) /\ fetch[o].refresh # k /\ fetch[o].pc \in RefreshPc
              BY <1>5, <4>1, <4>3, <4>4, <5>2
            <6> QED
              BY <1>5, <2>1, <2>3, <3>1, <3>4, <5>2, <6>1 DEF Kept, Fresh
          <5> QED
            BY <5>1, <5>2
        <4> QED
          BY <2>3, <4>4 DEF Fresh
      <3>9. CookieCurrent(s)'
        <4>1. SUFFICES ASSUME jar.refresh \in TokensOf(u), jar.refresh # k
                       PROVE  \/ ~tokens'[jar.refresh].used
                              \/ \E o \in Requests : fetch'[o].refresh = jar.refresh /\ fetch'[o].got # None
          BY <1>5, <1>7, <1>12, <2>3, <3>1, Nobody DEF CookieCurrent
        <4> QED
          BY <1>5, <2>1, <2>3, <3>1, <3>4, <4>1 DEF Kept, CookieCurrent
      <3> QED
        BY <3>6, <3>7, <3>8, <3>9 DEF Kept
    <2> QED
      BY <2>2, <2>3
  <1> QED
    BY <1>8, <1>9, <1>10, <1>11, <1>15, <1>16 DEF WebInv

\* A login commits: its token is in no other hands.
LEMMA OpenKeeps ==
  ASSUME WebInv, Safe', NEW f \in Requests, OpenSession(f), UNCHANGED <<jar, spoiled, out>>,
         \/ UNCHANGED fetch /\ fetch[f].pc \notin {"refreshing", "login", "loggingout"}
         \/ /\ fetch[f].pc = "login"
            /\ fetch' = [fetch EXCEPT ![f].pc = "reply", ![f].reply = "set", ![f].got = request[f].fresh]
  PROVE  WebInv'
  <1>1. PICK u \in Sessions, n \in Tokens : Opens(f, u, n)
    BY OpenRows DEF WebInv
  <1>2. /\ request[f].pc = "login"
        /\ n = request[f].fresh /\ tokens[n].session = None
        /\ sessions[u].status = "none"
    BY <1>1 DEF Opens
  <1>3. /\ \A s \in Sessions :
             /\ sessions'[s].expired = sessions[s].expired
             /\ sessions'[s].status = IF s = u THEN "active" ELSE sessions[s].status
        /\ \A j \in Tokens :
             /\ tokens'[j].session = IF j = n THEN u ELSE tokens[j].session
             /\ tokens'[j].used = IF j = n THEN FALSE ELSE tokens[j].used
             /\ tokens'[j].revoked = IF j = n THEN FALSE ELSE tokens[j].revoked
    BY <1>1 DEF Opens
  <1>4. \A o \in Requests : request'[o] = IF o = f THEN IdleRequest ELSE request[o]
    BY <1>1 DEF Opens
  <1>5. /\ fetch' \in [Requests -> FetchRecord]
        /\ \A o \in Requests :
             /\ o # f => fetch'[o] = fetch[o]
             /\ fetch'[o].access = fetch[o].access
             /\ fetch'[o].refresh = fetch[o].refresh
        /\ \/ fetch' = fetch /\ fetch[f].pc \notin {"refreshing", "login", "loggingout"}
           \/ /\ fetch[f].pc = "login" /\ fetch[f].refresh = None
              /\ fetch'[f].pc = "reply" /\ fetch'[f].reply = "set" /\ fetch'[f].got = n
    <2>1. CASE UNCHANGED fetch /\ fetch[f].pc \notin {"refreshing", "login", "loggingout"}
      BY <2>1 DEF WebInv, WebTypeOK, FetchRecord
    <2>2. CASE /\ fetch[f].pc = "login"
               /\ fetch' = [fetch EXCEPT ![f].pc = "reply", ![f].reply = "set", ![f].got = n]
      <3>1. fetch'[f] = [fetch[f] EXCEPT !.pc = "reply", !.reply = "set", !.got = n]
        BY <2>2 DEF WebInv, WebTypeOK
      <3>2. /\ fetch'[f].refresh = fetch[f].refresh /\ fetch'[f].access = fetch[f].access
            /\ fetch'[f].pc = "reply" /\ fetch'[f].reply = "set" /\ fetch'[f].got = n
            /\ fetch'[f] \in FetchRecord
        BY <3>1 DEF WebInv, WebTypeOK, FetchRecord, FetchPc
      <3>3. fetch[f].refresh = None
        BY <2>2 DEF WebInv, Held
      <3>4. \A o \in Requests : o # f => fetch'[o] = fetch[o] /\ fetch[o] \in FetchRecord
        BY <2>2 DEF WebInv, WebTypeOK, FetchRecord
      <3>5. fetch' \in [Requests -> FetchRecord]
        <4>1. fetch' = [o \in Requests |-> fetch'[o]]
          BY <2>2 DEF WebInv, WebTypeOK
        <4> QED
          BY <3>2, <3>4, <4>1
      <3> QED
        BY <2>2, <3>2, <3>3, <3>4, <3>5
    <2> QED
      BY <1>2, <2>1, <2>2
  <1>6. jar \in [access : Sessions \cup {None}, refresh : Tokens \cup {None}]
        /\ \A o \in Requests : fetch[o] \in FetchRecord
    BY DEF WebInv, WebTypeOK, FetchRecord
  <1>7. /\ jar.refresh # None => jar.refresh \in Tokens /\ jar.refresh # n
        /\ \A o \in Requests :
             /\ fetch[o].refresh # None => fetch[o].refresh \in Tokens /\ fetch[o].refresh # n
             /\ fetch[o].got # None => fetch[o].got \in Tokens /\ fetch[o].got # n
    BY <1>2, <1>6 DEF FetchRecord, WebInv, Held
  <1>8. WebTypeOK'
    BY <1>3, <1>5, <1>6, <1>7 DEF WebInv, WebTypeOK, Safe, CookiesAgree, FetchRecord
  <1>9. Asking'
    BY <1>3, <1>4, <1>5, IdleRequestPc DEF WebInv, Asking
  <1>10. Held'
    <2>1. jar.refresh # None => tokens'[jar.refresh].session = tokens[jar.refresh].session
      BY <1>3, <1>7
    <2>2. \A o \in Requests :
            /\ fetch[o].refresh # None => tokens'[fetch[o].refresh].session = tokens[fetch[o].refresh].session
            /\ fetch[o].got # None => tokens'[fetch[o].got].session = tokens[fetch[o].got].session
      BY <1>3, <1>7
    <2>3. tokens'[n].session = u
      BY <1>3
    <2> QED
      BY <1>5, <2>1, <2>2, <2>3, Nobody DEF WebInv, Held
  <1>11. Ended'
    BY <1>2, <1>3 DEF WebInv, WebTypeOK, Ended
  <1>12. /\ TokensOf(u) = {} /\ TokensOf(u)' = {n}
         /\ \A s \in Sessions \ {u} : TokensOf(s)' = TokensOf(s) /\ n \notin TokensOf(s)
    <2>1. TokensOf(u) = {}
      BY <1>2, Nobody DEF TokensOf, WebInv, Safe, Rows
    <2>2. \A j \in Tokens : tokens'[j].session = u <=> j = n
      BY <1>3, <2>1 DEF TokensOf
    <2>3. TokensOf(u)' = {n}
      BY <2>2 DEF TokensOf
    <2>4. \A s \in Sessions \ {u} : TokensOf(s)' = TokensOf(s)
      BY <1>2, <1>3, Nobody DEF TokensOf
    <2> QED
      BY <1>2, <2>1, <2>3, <2>4, Nobody DEF TokensOf
  <1>13. \A s \in Sessions : TokensOf(s) \subseteq Tokens
    BY DEF TokensOf
  <1>14. \A r \in Requests :
           request[r].pc \in {"rotate", "reuse"} => request[r].token \in Tokens /\ request[r].token # n
    BY <1>2, Nobody DEF WebInv, Safe, Wired
  <1>15. ASSUME NEW s \in Sessions \ spoiled' PROVE OneCurrent(s)'
    <2>1. OneCurrent(s)
      BY DEF WebInv
    <2>2. CASE s # u
      <3>1. TokensOf(s)' = TokensOf(s) /\ \A j \in TokensOf(s) : tokens'[j].used = tokens[j].used
        BY <1>3, <1>12, <1>13, <2>2
      <3>2. \A r \in Requests : fetch[r].pc = "refreshing" /\ r # f => fetch'[r].pc = "refreshing"
        BY <1>5
      <3> QED
        BY <1>4, <2>1, <3>1, <3>2, IdleRequestPc DEF OneCurrent
    <2>3. CASE s = u
      BY <1>4, <1>12, <1>14, <2>3, IdleRequestPc DEF OneCurrent
    <2> QED
      BY <2>2, <2>3
  <1>16. ASSUME NEW s \in Sessions \ (spoiled' \cup out') PROVE Kept(s)'
    <2>1. Kept(s)
      BY DEF WebInv
    <2>2. CASE s # u
      <3>1. \A j \in TokensOf(s) : tokens'[j].used = tokens[j].used /\ tokens'[j].revoked = tokens[j].revoked
        BY <1>3, <1>12, <1>13, <2>2
      <3>2. Open(s)'
        BY <1>2, <1>3, <1>4, <1>5, <1>12, <2>1, <2>2, <3>1, IdleRequestPc DEF Kept, Open
      <3>3. Granted(s)'
        BY <1>5, <1>7, <1>12, <1>13, <2>1, <2>2, <3>1, Nobody DEF Kept, Granted
      <3>4. Fresh(s)'
        BY <1>5, <1>12, <1>13, <2>1, <2>2, <3>1, Nobody DEF Kept, Fresh, RefreshPc
      <3>5. CookieCurrent(s)'
        BY <1>5, <1>12, <1>13, <2>1, <2>2, <3>1, Nobody DEF Kept, CookieCurrent
      <3> QED
        BY <3>2, <3>3, <3>4, <3>5 DEF Kept
    <2>3. CASE s = u
      <3>1. sessions'[s].status = "active" /\ ~tokens'[n].used /\ ~tokens'[n].revoked
        BY <1>3, <2>3
      <3>2. \A r \in Requests : request[r].pc = "logout" => request[r].target # u
        BY <1>2 DEF WebInv, Asking
      <3>3. Open(s)'
        BY <1>4, <1>12, <1>14, <2>3, <3>1, <3>2, IdleRequestPc DEF Open
      <3>4. /\ jar.refresh # n
            /\ \A o \in Requests : fetch[o].refresh # n /\ fetch[o].got # n
        BY <1>7, Nobody
      <3>5. Granted(s)'
        BY <1>5, <1>12, <2>3, <3>1, <3>4 DEF Granted
      <3>6. Fresh(s)' /\ CookieCurrent(s)'
        BY <1>5, <1>12, <2>3, <3>4 DEF Fresh, CookieCurrent
      <3> QED
        BY <3>3, <3>5, <3>6 DEF Kept
    <2> QED
      BY <2>2, <2>3
  <1> QED
    BY <1>8, <1>9, <1>10, <1>11, <1>15, <1>16 DEF WebInv

-----------------------------------------------------------------------------
\* What a step of the browser and the web server does at the auth service is a
\* step of AuthSessions or nothing.
LEMMA ServiceStep == WebInv /\ [WebNext]_allVars => [Next]_vars
  <1> SUFFICES ASSUME WebInv, [WebNext]_allVars PROVE [Next]_vars
    OBVIOUS
  <1>1. ASSUME NEW f \in Requests,
               \/ Refreshed(f) \/ NotRefreshed(f) \/ LoggedIn(f) \/ LoginFails(f)
               \/ LoggedOut(f) \/ LogoutFails(f) \/ FinishAlone(f)
        PROVE  [Next]_vars
    <2>1. ASSUME Rotate(f) \/ RevokeFamily(f) \/ OpenSession(f) \/ Logout(f) \/ Abort(f) PROVE Next
      BY <1>1, <2>1 DEF Next, RequestStep
    <2>2. \/ Rotate(f) \/ RevokeFamily(f) \/ OpenSession(f) \/ Logout(f) \/ Abort(f)
          \/ UNCHANGED vars
      BY <1>1
      DEF Refreshed, NotRefreshed, LoggedIn, LoginFails, LoggedOut, LogoutFails, FinishAlone
    <2> QED
      BY <2>1, <2>2
  <1>2. ASSUME NEW f \in Requests, AskRefresh(f) PROVE Next
    <2>1. fetch[f].refresh \in Tokens /\ BeginRefresh(f, fetch[f].refresh)
      BY <1>2 DEF AskRefresh, WebInv, WebTypeOK
    <2> QED
      BY <2>1 DEF Next, ClientStep
  <1>3. ASSUME NEW f \in Requests, SendLogin(f) PROVE Next
    BY <1>3 DEF SendLogin, Next, ClientStep
  <1>4. ASSUME NEW f \in Requests, AskLogout(f) PROVE Next
    <2>1. fetch[f].access \in Sessions /\ Authenticate(f, fetch[f].access)
      BY <1>4 DEF AskLogout, WebInv, WebTypeOK, Held
    <2> QED
      BY <2>1 DEF Next, ClientStep
  <1>5. ASSUME NEW f \in Requests,
               \/ Send(f) \/ RefreshTimesOut(f) \/ Call(f) \/ CallUnauthorized(f) \/ Throw(f)
               \/ SendLogout(f) \/ Receive(f) \/ Leave(f)
        PROVE  UNCHANGED vars
    BY <1>5 DEF Send, RefreshTimesOut, Call, CallUnauthorized, Throw, SendLogout, Receive, Leave
  <1>6. ASSUME ExpireAccess \/ WebRest \/ UNCHANGED allVars PROVE UNCHANGED vars
    BY <1>6 DEF ExpireAccess, WebRest, allVars
  <1> QED
    BY <1>1, <1>2, <1>3, <1>4, <1>5, <1>6 DEF WebNext

LEMMA InitWebInv == WebInit => WebInv
  <1> SUFFICES ASSUME WebInit PROVE WebInv
    OBVIOUS
  <1>1. Safe
    BY InitSafe DEF WebInit
  <1>2. /\ IdleFetch \in FetchRecord /\ IdleFetch.pc = "idle"
        /\ IdleFetch.refresh = None /\ IdleFetch.got = None
    BY DEF IdleFetch, FetchRecord, FetchPc
  <1>3. WebTypeOK
    BY <1>1, <1>2 DEF WebInit, WebTypeOK, Safe, FetchRecord, NoCookies, CookiesAgree
  <1>4. Asking /\ Held /\ Ended
    BY <1>2, IdleRequestPc DEF WebInit, Init, Asking, Held, Ended, NoCookies
  <1>5. ASSUME NEW s \in Sessions PROVE TokensOf(s) = {} /\ sessions[s].status = "none"
    BY Nobody DEF WebInit, Init, TokensOf
  <1>6. ASSUME NEW s \in Sessions PROVE OneCurrent(s) /\ Kept(s)
    BY <1>2, <1>5, IdleRequestPc
    DEF WebInit, Init, OneCurrent, Kept, Open, Granted, Fresh, CookieCurrent
  <1> QED
    BY <1>1, <1>3, <1>4, <1>6 DEF WebInv

\* Every step keeps the invariant.
LEMMA WebStep == WebInv /\ [WebNext]_allVars => WebInv'
  <1> SUFFICES ASSUME WebInv, [WebNext]_allVars PROVE WebInv'
    OBVIOUS
  <1>1. Safe'
    BY ServiceStep, NextSafe DEF WebInv
  <1>2. ASSUME NEW f \in Requests, Refreshed(f) PROVE WebInv'
    BY <1>1, <1>2, RotateKeeps DEF Refreshed
  <1>3. ASSUME NEW f \in Requests, NotRefreshed(f) PROVE WebInv'
    <2>1. Quits(f) /\ UNCHANGED <<jar, spoiled, out>>
      BY <1>3 DEF NotRefreshed, Unauthorized, Quits
    <2> QED
      BY <1>1, <1>3, <2>1, AbortKeeps, RevokeFamilyKeeps DEF NotRefreshed
  <1>4. ASSUME NEW f \in Requests, LoggedIn(f) PROVE WebInv'
    BY <1>1, <1>4, OpenKeeps DEF LoggedIn
  <1>5. ASSUME NEW f \in Requests, LoginFails(f) PROVE WebInv'
    <2>1. CASE UNCHANGED vars
      BY <1>1, <1>5, <2>1, MovesKeep
    <2>2. CASE Abort(f)
      <3>1. Quits(f) /\ UNCHANGED <<jar, spoiled, out>>
        BY <1>5 DEF LoginFails, Quits
      <3> QED
        BY <1>1, <2>2, <3>1, AbortKeeps
    <2> QED
      BY <1>5, <2>1, <2>2 DEF LoginFails
  <1>6. ASSUME NEW f \in Requests, LoggedOut(f) PROVE WebInv'
    <2>1. Quits(f) /\ Logout(f) /\ UNCHANGED <<jar, spoiled>>
      BY <1>6 DEF LoggedOut, Quits
    <2>2. out' = out \cup {request[f].target}
      BY <1>6 DEF LoggedOut, WebInv, Asking
    <2> QED
      BY <1>1, <2>1, <2>2, LogoutKeeps
  <1>7. ASSUME NEW f \in Requests, LogoutFails(f) PROVE WebInv'
    <2>1. CASE UNCHANGED vars
      BY <1>1, <1>7, <2>1, MovesKeep
    <2>2. CASE fetch[f].pc = "loggingout" /\ Abort(f) /\ UNCHANGED spoiled
      <3>1. Quits(f) /\ UNCHANGED <<jar, out>>
        BY <1>7, <2>2 DEF LogoutFails, Quits
      <3> QED
        BY <1>1, <2>2, <3>1, AbortKeeps
    <2> QED
      BY <1>7, <2>1, <2>2 DEF LogoutFails
  <1>8. ASSUME NEW f \in Requests, FinishAlone(f) PROVE WebInv'
    <2>1. /\ fetch[f].pc \notin {"refreshing", "login", "loggingout"}
          /\ UNCHANGED <<jar, fetch, spoiled, out>>
      BY <1>8 DEF FinishAlone, webVars
    <2>2. Quits(f)
      BY <2>1 DEF Quits
    <2> QED
      BY <1>1, <1>8, <2>1, <2>2, RotateKeeps, OpenKeeps, AbortKeeps, RevokeFamilyKeeps, LogoutKeeps
      DEF FinishAlone
  <1>9. ASSUME UNCHANGED allVars PROVE WebInv'
    <2>1. UNCHANGED <<sessions, tokens, request, jar, fetch, spoiled, out>>
      BY <1>9 DEF allVars, vars, webVars
    <2>2. WebTypeOK' /\ Asking' /\ Held' /\ Ended'
      BY <1>1, <2>1 DEF WebInv, WebTypeOK, Safe, CookiesAgree, Asking, Held, Ended
    <2>3. \A s \in Sessions : (OneCurrent(s) => OneCurrent(s)') /\ (Kept(s) => Kept(s)')
      BY <2>1 DEF OneCurrent, Kept, Open, Granted, Fresh, CookieCurrent, TokensOf
    <2> QED
      BY <1>1, <2>1, <2>2, <2>3 DEF WebInv
  <1>10. ASSUME NEW f \in Requests,
                Send(f) \/ SendLogout(f) \/ AskRefresh(f) \/ SendLogin(f) \/ AskLogout(f)
         PROVE  WebInv'
    BY <1>1, <1>10, SendKeeps, SendLogoutKeeps, AskRefreshKeeps, AskKeeps
  <1>11. ASSUME NEW f \in Requests,
                \/ RefreshTimesOut(f) \/ Call(f) \/ CallUnauthorized(f) \/ Throw(f)
                \/ Receive(f) \/ Leave(f)
         PROVE  WebInv'
    BY <1>1, <1>11, MovesKeep, EndKeeps
  <1>12. ASSUME ExpireAccess PROVE WebInv'
    BY <1>1, <1>12, ExpireAccessKeeps
  <1> QED
    BY <1>2, <1>3, <1>4, <1>5, <1>6, <1>7, <1>8, <1>9, <1>10, <1>11, <1>12 DEF WebNext, WebRest

LEMMA WebInvHolds == WebSpec => []WebInv
  BY InitWebInv, WebStep, PTL DEF WebSpec

\* The auth service behind the web server does nothing that AuthSessions does not
\* allow, whatever the gateway gives up and in whatever order replies arrive.
THEOREM WebImplementsAuth == WebSpec => Spec
  <1>1. WebInit => Init
    BY DEF WebInit
  <1> QED
    BY <1>1, ServiceStep, WebInvHolds, PTL DEF WebSpec, Spec

\* Behind the web server, too, a reported reuse ends its family and an ended session
\* stays so (AuthService.refresh, logout).
COROLLARY WebKeepsAuth == WebSpec => []ReuseEndsFamily /\ DeadSessionsStayDead
  BY WebImplementsAuth, ReuseIsFinal, DeadStayDead, PTL

\* The cookies and the fetches keep their types, and the two cookies
\* (setAuthCookies, clearAuthCookies) are always of one session.
THEOREM WebTypeCorrect == WebSpec => []WebTypeOK
  <1>1. WebInv => WebTypeOK
    BY DEF WebInv
  <1> QED
    BY <1>1, WebInvHolds, PTL

\* A refresh cookie that is there and that no fetch carries is accepted, unless its
\* session was logged out of or spoiled: a token used twice at once, a lost reply, a
\* call that was given up (proxyPrivate, refreshSession).
THEOREM SignedInCorrect == WebSpec => []SignedInUnlessSpoiled
  <1>1. WebInv => SignedInUnlessSpoiled
    <2> SUFFICES ASSUME WebInv, NEW s \in Sessions \ (spoiled \cup out),
                        jar.refresh # None, tokens[jar.refresh].session = s,
                        \A f \in Requests : fetch[f].pc # "idle" => fetch[f].refresh # jar.refresh
                 PROVE  Live(jar.refresh)
      BY DEF SignedInUnlessSpoiled
    <2>1. jar.refresh \in TokensOf(s) /\ Kept(s)
      BY DEF TokensOf, WebInv, WebTypeOK
    <2>2. \A f \in Requests : fetch[f].refresh # jar.refresh
      BY DEF WebInv, Held, IdleFetch
    <2>3. ~tokens[jar.refresh].used /\ ~tokens[jar.refresh].revoked
      BY <2>1, <2>2 DEF Kept, CookieCurrent, Open
    <2>4. sessions[s].status = "active" /\ ~sessions[s].expired
      BY <2>1, Nobody DEF Kept, Open, WebInv, Safe, TypeOK, Rows, Ended, SessionRecord, TokensOf
    <2> QED
      BY <2>1, <2>3, <2>4, Nobody DEF Live, Active, TokensOf
  <1> QED
    BY <1>1, WebInvHolds, PTL

\* A session that is not spoiled has one refresh token that is accepted at most.
THEOREM OneTokenCorrect == WebSpec => []OneTokenUnlessSpoiled
  <1>1. WebInv => OneTokenUnlessSpoiled
    <2> SUFFICES ASSUME WebInv, NEW s \in Sessions \ spoiled
                 PROVE  Cardinality({k \in TokensOf(s) : Live(k)}) <= 1
      BY DEF OneTokenUnlessSpoiled
    <2> DEFINE K == {k \in TokensOf(s) : Live(k)}
    <2>1. \A k, l \in K : k = l
      BY DEF WebInv, OneCurrent, Live
    <2>2. CASE K = {}
      BY <2>2, FS_EmptySet
    <2>3. CASE K # {}
      <3>1. PICK k \in K : TRUE
        BY <2>3
      <3>2. K = {k}
        BY <2>1, <3>1
      <3> HIDE DEF K
      <3>3. Cardinality(K) = 1
        BY <3>2, FS_Singleton
      <3> QED
        BY <3>3 DEF K
    <2> QED
      BY <2>2, <2>3
  <1> QED
    BY <1>1, WebInvHolds, PTL

\* A logout that was answered is final: no refresh in flight and no late reply
\* makes a token of the session acceptable again.
THEOREM LogoutFinal == WebSpec => []LogoutSticks
  <1>1. WebInv => LogoutSticks
    BY DEF WebInv, Ended, LogoutSticks, Active, Live, TokensOf
  <1> QED
    BY <1>1, WebInvHolds, PTL

=============================================================================
