------------------------------ MODULE WebSession ------------------------------
(***************************************************************************)
(* A browser signed in through the web server: the cookies all its tabs     *)
(* share, the fetches they send at the same time, the web server that puts  *)
(* a refresh before or after the call when the access token has run out,    *)
(* and behind the gateway the auth service, whose requests are the actions  *)
(* of AuthSessions.                                                         *)
(*                                                                          *)
(* A fetch carries the cookies of the moment it is sent and its reply is    *)
(* applied whenever it arrives.  A fetch makes one call at a time, so it    *)
(* shares its identity with the request it has at the auth service.  The    *)
(* gateway gives a call up after three seconds; the service does not notice *)
(* and finishes what it was asked.  The fourteen days that a session lasts  *)
(* do not run out here.                                                     *)
(***************************************************************************)
EXTENDS AuthSessions

VARIABLES
    jar,        \* the cookies: the session of the access token, the refresh token
    fetch,      \* the fetches in progress
    spoiled,    \* sessions of a token that two fetches used or could use, or whose
                \* successor was lost, or of a call that was given up
    out         \* sessions a logout was answered for by the auth service

webVars == <<jar, fetch, spoiled, out>>
allVars == <<vars, webVars>>

NoCookies == [access |-> None, refresh |-> None]

\* access and refresh are the tokens the fetch carries, got the refresh token of
\* refreshedSession or of a login, again that the call was answered 401 once, reply
\* what the answer does to the cookies.
IdleFetch ==
    [pc |-> "idle", access |-> None, refresh |-> None, got |-> None,
     again |-> FALSE, reply |-> "keep"]

FetchPc == {"idle", "refresh", "refreshing", "call", "login", "logout", "loggingout", "reply"}

CookiesAgree ==
    jar.access # None => jar.refresh # None /\ tokens[jar.refresh].session = jar.access

\* The types; and the two cookies are of one session.
WebTypeOK ==
    /\ TypeOK
    /\ jar \in [access : Sessions \cup {None}, refresh : Tokens \cup {None}]
    /\ fetch \in [Requests ->
         [pc : FetchPc, access : Sessions \cup {None}, refresh : Tokens \cup {None},
          got : Tokens \cup {None}, again : BOOLEAN, reply : {"keep", "set", "clear"}]]
    /\ spoiled \subseteq Sessions
    /\ out \subseteq Sessions
    /\ CookiesAgree

WebInit ==
    /\ Init
    /\ jar = NoCookies
    /\ fetch = [f \in Requests |-> IdleFetch]
    /\ spoiled = {}
    /\ out = {}

-----------------------------------------------------------------------------
SessionOf(k) == IF k = None THEN {} ELSE {tokens[k].session}

\* Mutant of Reply: the cookies are set when the refresh came first, and forgotten
\* when the call was answered 401 before it.
ReplyForgets(f, kind) ==
    fetch' = [fetch EXCEPT ![f].pc = "reply",
                           ![f].reply = IF kind = "set" /\ fetch[f].again THEN "keep" ELSE kind]

Reply(f, kind) ==
    fetch' = [fetch EXCEPT ![f].pc = "reply", ![f].reply = kind]

\* refreshSession has returned null.
Unauthorized(f) == Reply(f, IF fetch[f].again THEN "clear" ELSE "keep")

\* What the answer does to the cookies when the call has been made.
Finish(f) == Reply(f, IF fetch[f].got # None THEN "set" ELSE "keep")

\* Mutant of Spoil: nothing is.
SpoilNothing(S) == UNCHANGED spoiled

Spoil(S) == spoiled' = spoiled \cup S

\* Another fetch in progress has presented the token, or may still do so.
Presented(f, k) ==
    \E o \in Requests \ {f} :
        fetch[o].refresh = k /\ (fetch[o].pc = "refreshing" \/ fetch[o].got # None)
MayPresent(f, k) ==
    \E o \in Requests \ {f} : fetch[o].refresh = k /\ fetch[o].pc \in {"call", "refresh", "refreshing"}

(***************************************************************************)
(* proxyPrivate.                                                           *)
(***************************************************************************)

\* A tab sends a fetch; without cookies it would be answered 401 at once.
Send(f) ==
    /\ fetch[f].pc = "idle" /\ request[f].pc = "idle"
    /\ jar # NoCookies
    /\ fetch' = [fetch EXCEPT ![f] = [IdleFetch EXCEPT
         !.pc = IF jar.access = None THEN "refresh" ELSE "call",
         !.access = jar.access, !.refresh = jar.refresh]]
    /\ Spoil(IF Presented(f, jar.refresh) THEN SessionOf(jar.refresh) ELSE {})
    /\ UNCHANGED <<vars, jar, out>>

\* refreshSession's call reaches the auth service.
AskRefresh(f) ==
    LET k == fetch[f].refresh IN
    /\ fetch[f].pc = "refresh"
    /\ k # None
    /\ BeginRefresh(f, k)
    /\ fetch' = [fetch EXCEPT ![f].pc = "refreshing"]
    /\ Spoil(IF MayPresent(f, k) THEN SessionOf(k) ELSE {})
    /\ UNCHANGED <<jar, out>>

\* The refresh was granted: its token is used for the call.
Refreshed(f) ==
    /\ fetch[f].pc = "refreshing"
    /\ Rotate(f)
    /\ fetch' = [fetch EXCEPT ![f].pc = "call", ![f].got = request[f].fresh,
                              ![f].access = tokens[request[f].token].session]
    /\ UNCHANGED <<jar, spoiled, out>>

\* It was not: the token was refused, or the transaction failed.
NotRefreshed(f) ==
    /\ fetch[f].pc = "refreshing"
    /\ RevokeFamily(f) \/ Abort(f)
    /\ Unauthorized(f)
    /\ UNCHANGED <<jar, spoiled, out>>

\* The gateway gave the refresh up while the auth service was at it.
RefreshTimesOut(f) ==
    /\ fetch[f].pc = "refreshing"
    /\ Unauthorized(f)
    /\ Spoil(IF request[f].pc = "rotate" THEN SessionOf(request[f].token) ELSE {})
    /\ UNCHANGED <<vars, jar, out>>

\* The service has answered anything but 401, or the gateway that it did not.
Call(f) ==
    /\ fetch[f].pc = "call"
    /\ Finish(f)
    /\ UNCHANGED <<vars, jar, spoiled, out>>

\* The session has ended, or the access token the tab sent ran out on the way.
CallUnauthorized(f) ==
    /\ fetch[f].pc = "call"
    /\ ~Active(fetch[f].access) \/ fetch[f].got = None
    /\ IF fetch[f].again THEN Finish(f)
       ELSE fetch' = [fetch EXCEPT ![f].pc = "refresh", ![f].again = TRUE]
    /\ UNCHANGED <<vars, jar, spoiled, out>>

\* The web server cannot reach the gateway and answers 500, without cookies.
Throw(f) ==
    /\ fetch[f].pc \in {"refresh", "call", "logout"}
    /\ Reply(f, "keep")
    /\ Spoil(SessionOf(fetch[f].got))
    /\ UNCHANGED <<vars, jar, out>>

(***************************************************************************)
(* loginThroughGateway, logoutThroughGateway.                              *)
(***************************************************************************)

SendLogin(f) ==
    /\ fetch[f].pc = "idle"
    /\ BeginLogin(f)
    /\ fetch' = [fetch EXCEPT ![f].pc = "login"]
    /\ UNCHANGED <<jar, spoiled, out>>

LoggedIn(f) ==
    /\ fetch[f].pc = "login"
    /\ OpenSession(f)
    /\ fetch' = [fetch EXCEPT ![f].pc = "reply", ![f].reply = "set", ![f].got = request[f].fresh]
    /\ UNCHANGED <<jar, spoiled, out>>

LoginFails(f) ==
    /\ fetch[f].pc = "login"
    /\ Abort(f) \/ UNCHANGED vars
    /\ Reply(f, "keep")
    /\ UNCHANGED <<jar, spoiled, out>>

\* Without an access cookie the auth service is not called.
SendLogout(f) ==
    /\ fetch[f].pc = "idle" /\ request[f].pc = "idle"
    /\ jar # NoCookies
    /\ fetch' = [fetch EXCEPT ![f] = [IdleFetch EXCEPT
         !.pc = IF jar.access = None THEN "reply" ELSE "logout",
         !.reply = IF jar.access = None THEN "clear" ELSE "keep",
         !.access = jar.access]]
    /\ UNCHANGED <<vars, jar, spoiled, out>>

\* The access token is accepted.
AskLogout(f) ==
    /\ fetch[f].pc = "logout"
    /\ Authenticate(f, fetch[f].access)
    /\ request'[f].pc = "logout"
    /\ fetch' = [fetch EXCEPT ![f].pc = "loggingout"]
    /\ UNCHANGED <<jar, spoiled, out>>

\* Mutant of LoggedOut: the answer does not wait for the commit.
LoggedOutEarly(f) ==
    /\ fetch[f].pc = "loggingout"
    /\ Reply(f, "clear")
    /\ out' = out \cup {fetch[f].access}
    /\ UNCHANGED <<vars, jar, spoiled>>

LoggedOut(f) ==
    /\ fetch[f].pc = "loggingout"
    /\ Logout(f)
    /\ Reply(f, "clear")
    /\ out' = out \cup {fetch[f].access}
    /\ UNCHANGED <<jar, spoiled>>

\* The call was answered 401 or 500, or given up: the cookies go all the same.
LogoutFails(f) ==
    /\ \/ fetch[f].pc = "logout" /\ UNCHANGED <<vars, spoiled>>
       \/ fetch[f].pc = "loggingout" /\ Abort(f) /\ UNCHANGED spoiled
       \/ fetch[f].pc = "loggingout" /\ Spoil({fetch[f].access}) /\ UNCHANGED vars
    /\ Reply(f, "clear")
    /\ UNCHANGED <<jar, out>>

(***************************************************************************)
(* The browser.                                                            *)
(***************************************************************************)

\* Mutant of Cookies: setAuthCookies sets the access cookie only.
CookiesHalf(f) ==
    CASE fetch[f].reply = "keep" -> jar
      [] fetch[f].reply = "clear" -> NoCookies
      [] fetch[f].reply = "set" -> [jar EXCEPT !.access = tokens[fetch[f].got].session]

\* The cookies once the reply is applied.
Cookies(f) ==
    CASE fetch[f].reply = "keep" -> jar
      [] fetch[f].reply = "clear" -> NoCookies
      [] fetch[f].reply = "set" ->
           [access |-> tokens[fetch[f].got].session, refresh |-> fetch[f].got]

Receive(f) ==
    /\ fetch[f].pc = "reply"
    /\ jar' = Cookies(f)
    /\ fetch' = [fetch EXCEPT ![f] = IdleFetch]
    /\ UNCHANGED <<vars, spoiled, out>>

\* The tab is closed or reloaded before the reply arrives.
Leave(f) ==
    /\ fetch[f].pc = "reply"
    /\ fetch' = [fetch EXCEPT ![f] = IdleFetch]
    /\ Spoil(SessionOf(fetch[f].got))
    /\ UNCHANGED <<vars, jar, out>>

\* The access cookie lives as long as the access token.
ExpireAccess ==
    /\ jar.access # None
    /\ jar' = [jar EXCEPT !.access = None]
    /\ UNCHANGED <<vars, fetch, spoiled, out>>

\* What the auth service still does for a fetch that has been given up.
FinishAlone(f) ==
    /\ fetch[f].pc \notin {"refreshing", "login", "loggingout"}
    /\ Rotate(f) \/ RevokeFamily(f) \/ OpenSession(f) \/ Logout(f) \/ Abort(f)
    /\ UNCHANGED webVars

WebRest == (\A f \in Requests : fetch[f].pc = "idle") /\ UNCHANGED allVars

WebNext ==
    \/ \E f \in Requests :
         \/ Send(f) \/ AskRefresh(f) \/ Refreshed(f) \/ NotRefreshed(f) \/ RefreshTimesOut(f)
         \/ Call(f) \/ CallUnauthorized(f) \/ Throw(f)
         \/ SendLogin(f) \/ LoggedIn(f) \/ LoginFails(f)
         \/ SendLogout(f) \/ AskLogout(f) \/ LoggedOut(f) \/ LogoutFails(f)
         \/ Receive(f) \/ Leave(f) \/ FinishAlone(f)
    \/ ExpireAccess
    \/ WebRest

WebSpec == WebInit /\ [][WebNext]_allVars

-----------------------------------------------------------------------------
(***************************************************************************)
(* Properties.                                                             *)
(***************************************************************************)

\* A refresh cookie that no fetch in progress carries is accepted, unless its session
\* was logged out of, or spoiled: by a fetch that was sent with, or presented, a token
\* that another fetch had presented or might still present (Send, AskRefresh), by a
\* refresh or a logout that the gateway gave up while the auth service was at it
\* (RefreshTimesOut, LogoutFails), or by a tab that left or a web server that failed
\* with the next token in hand (Leave, Throw).  The property is about the cookie that
\* is there: one that a reply has cleared is gone, for whatever reason.
SignedInUnlessSpoiled ==
    \A s \in Sessions \ (spoiled \cup out) :
        (/\ jar.refresh # None
         /\ tokens[jar.refresh].session = s
         /\ \A f \in Requests : fetch[f].pc # "idle" => fetch[f].refresh # jar.refresh)
        => Live(jar.refresh)

\* A session has two refresh tokens that are accepted only if two fetches used one
\* of its tokens at the same time, or gave up on one.
OneTokenUnlessSpoiled ==
    \A s \in Sessions \ spoiled : Cardinality({k \in TokensOf(s) : Live(k)}) <= 1

\* A logout the auth service has answered is final: whatever refresh was in flight,
\* whatever late reply sets cookies again, no token of the session is accepted.
LogoutSticks ==
    \A s \in out : ~Active(s) /\ \A k \in TokensOf(s) : ~Live(k)

=============================================================================
