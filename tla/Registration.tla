--------------------------- MODULE Registration ---------------------------
(***************************************************************************)
(* Accounts and workspaces in the auth service: registration, verification  *)
(* of the mail address and its renewal, the first sign-in, and workspaces   *)
(* created later.                                                           *)
(*                                                                          *)
(* A request is one transaction at READ COMMITTED whose writes appear when  *)
(* it commits.  Nothing in the schema keeps two accounts of one mail        *)
(* address apart that are spelled differently: User.email is unique as it   *)
(* is written, while the accounts are looked up by lower("email").  What    *)
(* does is the row of the rate limit for the address, which enforce writes  *)
(* first and which stays locked until the transaction ends.  (How often a   *)
(* request is refused by its limit is RateLimit's; here a request that is   *)
(* refused does not begin.)  A membership's createdAt is the time at which   *)
(* its transaction began, not the one at which it committed.                *)
(***************************************************************************)
EXTENDS Integers, FiniteSets

CONSTANTS
    Users,          \* identities of User rows
    Tenants,        \* identities of Tenant rows
    Verifications,  \* identities of UserEmailVerification rows
    Sessions,       \* identities of UserSession rows
    Emails,         \* mail addresses as they are spelled
    AddressOf,      \* the address that a spelling stands for
    Slugs,          \* slugs of tenants
    Requests,       \* requests the service handles at the same time
    None

ASSUME RegistrationAssumption ==
    /\ DOMAIN AddressOf = Emails
    /\ None \notin Users \cup Tenants \cup Verifications \cup Sessions \cup Emails \cup Slugs

VARIABLES
    users,          \* table User
    tenants,        \* table Tenant: the slug of a tenant
    memberships,    \* table Membership: the tenants of a user
    older,          \* its createdAt: the tenants of the user that were begun before
    verifications,  \* table UserEmailVerification
    sessions,       \* table UserSession
    request,        \* the requests in progress
    home            \* history: the tenant a user registered with

tables == <<users, tenants, memberships, older, verifications, sessions, home>>
vars == <<tables, request>>

-----------------------------------------------------------------------------
UserRecord == [email : Emails \cup {None}, verified : BOOLEAN]
VerificationRecord ==
    [user : Users \cup {None}, status : {"unused", "used", "expired"}]
SessionRecord == [user : Users \cup {None}, tenant : Tenants \cup {None}]

NoUser == [email |-> None, verified |-> FALSE]
NoVerification == [user |-> None, status |-> "unused"]
NoSession == [user |-> None, tenant |-> None]

\* Where a request stands: "user", "tenant" and "finish" are the statements of a
\* registration, "workspace" and "join" those of create_tenant, "login" and "open"
\* those of a login.
RequestPc ==
    {"idle", "user", "tenant", "finish", "workspace", "join", "login", "open",
     "verify", "resend"}

\* email is what the request names, user, tenant and token the rows it reads or will
\* insert, hit the tokens its UPDATE has matched; old are the tenants of the user
\* whose transactions began before this one.
RequestRecord ==
    [pc : RequestPc, email : Emails \cup {None}, slug : Slugs \cup {None},
     user : Users \cup {None}, tenant : Tenants \cup {None},
     token : Verifications \cup {None}, hit : SUBSET Verifications, old : SUBSET Tenants]
Idle ==
    [pc |-> "idle", email |-> None, slug |-> None, user |-> None, tenant |-> None,
     token |-> None, hit |-> {}, old |-> {}]

TypeOK ==
    /\ users \in [Users -> UserRecord]
    /\ tenants \in [Tenants -> Slugs \cup {None}]
    /\ memberships \in [Users -> SUBSET Tenants]
    /\ older \in [Tenants -> SUBSET Tenants]
    /\ verifications \in [Verifications -> VerificationRecord]
    /\ sessions \in [Sessions -> SessionRecord]
    /\ request \in [Requests -> RequestRecord]
    /\ home \in [Users -> Tenants \cup {None}]

Init ==
    /\ users = [u \in Users |-> NoUser]
    /\ tenants = [t \in Tenants |-> None]
    /\ memberships = [u \in Users |-> {}]
    /\ older = [t \in Tenants |-> {}]
    /\ verifications = [v \in Verifications |-> NoVerification]
    /\ sessions = [s \in Sessions |-> NoSession]
    /\ request = [r \in Requests |-> Idle]
    /\ home = [u \in Users |-> None]

-----------------------------------------------------------------------------
Accounts == {u \in Users : users[u].email # None}

\* Mutant of Found: accounts are looked up by the spelling.
FoundExactly(e) == {u \in Accounts : users[u].email = e}

\* find_user_by_email.
Found(e) == {u \in Accounts : AddressOf[users[u].email] = AddressOf[e]}

FreshUser(u) == u \notin Accounts /\ \A r \in Requests : request[r].user # u
FreshTenant(t) ==
    /\ tenants[t] = None /\ \A x \in Tenants : t \notin older[x]
    /\ \A r \in Requests : request[r].tenant # t /\ t \notin request[r].old
FreshToken(v) ==
    verifications[v].user = None /\ \A r \in Requests : request[r].token # v

RegisterPc == {"user", "tenant", "finish"}

\* Mutant of SubjectFree: the limits are enforced without the subject.
SubjectFreeAlways(r, pcs, e) == TRUE

\* enforce can write the row of the address: no other request of the same kind
\* for it is in progress.
SubjectFree(r, pcs, e) ==
    \A o \in Requests \ {r} :
        request[o].pc \in pcs => AddressOf[request[o].email] # AddressOf[e]

End(r) == request' = [request EXCEPT ![r] = Idle]
Proceed(r, pc) == request' = [request EXCEPT ![r].pc = pc]

\* The tokens that create_email_verification marks as used.
Unused(u) ==
    {v \in Verifications : verifications[v].user = u /\ verifications[v].status # "used"}

\* Its two statements: the tokens it has matched are used up, a new one is mailed.
Issued(token, u, hit) ==
    [v \in Verifications |->
        IF v = token THEN [user |-> u, status |-> "unused"]
        ELSE IF v \in hit THEN [verifications[v] EXCEPT !.status = "used"]
        ELSE verifications[v]]

(***************************************************************************)
(* Registration.                                                           *)
(***************************************************************************)

\* The limit admits the request, and there is no account of the address.
BeginRegister(r, e, g) ==
    /\ request[r].pc = "idle"
    /\ SubjectFree(r, RegisterPc, e)
    /\ Found(e) = {}
    /\ \E u \in Users, t \in Tenants, v \in Verifications :
         /\ FreshUser(u) /\ FreshTenant(t) /\ FreshToken(v)
         /\ request' = [request EXCEPT ![r] =
              [Idle EXCEPT !.pc = "user", !.email = e, !.slug = g,
                           !.user = u, !.tenant = t, !.token = v]]
    /\ UNCHANGED tables

\* The INSERT of the user waits for another one of the same spelling, and fails if
\* that one is there.
InsertUser(r) ==
    LET e == request[r].email IN
    /\ request[r].pc = "user"
    /\ \A o \in Requests : request[o].pc \in {"tenant", "finish"} => request[o].email # e
    /\ IF \E u \in Accounts : users[u].email = e THEN End(r) ELSE Proceed(r, "tenant")
    /\ UNCHANGED tables

\* The INSERT of a tenant waits for another one of the same slug.
SlugFree(g) == \A o \in Requests : request[o].pc \in {"finish", "join"} => request[o].slug # g
SlugTaken(g) == \E t \in Tenants : tenants[t] = g

\* Mutant of SlugConflict: what was written is committed.
SlugConflictCommits(r) ==
    /\ users' = [u \in Users |->
         IF u = request[r].user /\ request[r].pc = "tenant"
           THEN [email |-> request[r].email, verified |-> FALSE] ELSE users[u]]
    /\ End(r)
    /\ UNCHANGED <<tenants, memberships, older, verifications, sessions, home>>

\* tenant_slug_taken: the whole transaction is rolled back.
SlugConflict(r) == End(r) /\ UNCHANGED tables

InsertTenant(r) ==
    /\ request[r].pc \in {"tenant", "workspace"}
    /\ SlugFree(request[r].slug)
    /\ IF SlugTaken(request[r].slug) THEN SlugConflict(r)
       ELSE /\ Proceed(r, IF request[r].pc = "tenant" THEN "finish" ELSE "join")
            /\ UNCHANGED tables

\* The membership of a user in the tenant that the request creates.
Join(q) ==
    /\ tenants' = [tenants EXCEPT ![q.tenant] = q.slug]
    /\ memberships' = [memberships EXCEPT ![q.user] = @ \cup {q.tenant}]
    /\ older' = [older EXCEPT ![q.tenant] = q.old]

\* create_membership, issue_email_verification and the commit.
FinishRegister(r) ==
    LET q == request[r] IN
    /\ q.pc = "finish"
    /\ users' = [users EXCEPT ![q.user] = [email |-> q.email, verified |-> FALSE]]
    /\ Join(q)
    /\ home' = [home EXCEPT ![q.user] = q.tenant]
    /\ verifications' = Issued(q.token, q.user, {})
    /\ End(r)
    /\ UNCHANGED sessions

(***************************************************************************)
(* Verification of the mail address.                                       *)
(***************************************************************************)

\* find_email_verification has returned a token neither used nor expired.
BeginVerify(r, v) ==
    /\ request[r].pc = "idle"
    /\ verifications[v].user # None
    /\ verifications[v].status = "unused"
    /\ request' = [request EXCEPT ![r] = [Idle EXCEPT !.pc = "verify", !.token = v]]
    /\ UNCHANGED tables

\* Mutant of Verify: the token gets a status of its own.
VerifyMarked(r) ==
    LET v == request[r].token IN
    /\ request[r].pc = "verify"
    /\ verifications' = [verifications EXCEPT ![v].status = "verified"]
    /\ users' = [users EXCEPT ![verifications[v].user].verified = TRUE]
    /\ End(r)
    /\ UNCHANGED <<tenants, memberships, older, sessions, home>>

Verify(r) ==
    LET v == request[r].token IN
    /\ request[r].pc = "verify"
    /\ verifications' = [verifications EXCEPT ![v].status = "used"]
    /\ users' = [users EXCEPT ![verifications[v].user].verified = TRUE]
    /\ End(r)
    /\ UNCHANGED <<tenants, memberships, older, sessions, home>>

\* resend_verification of an unverified account, up to the UPDATE of its tokens.
BeginResend(r, e) ==
    /\ request[r].pc = "idle"
    /\ SubjectFree(r, {"resend"}, e)
    /\ \E u \in Found(e), v \in Verifications :
         /\ ~users[u].verified
         /\ FreshToken(v)
         /\ request' = [request EXCEPT ![r] =
              [Idle EXCEPT !.pc = "resend", !.email = e, !.user = u, !.token = v,
                           !.hit = Unused(u)]]
    /\ UNCHANGED tables

Resend(r) ==
    LET q == request[r] IN
    /\ q.pc = "resend"
    /\ verifications' = Issued(q.token, q.user, q.hit)
    /\ End(r)
    /\ UNCHANGED <<users, tenants, memberships, older, sessions, home>>

ExpireToken(v) ==
    /\ verifications[v].user # None
    /\ verifications[v].status = "unused"
    /\ verifications' = [verifications EXCEPT ![v].status = "expired"]
    /\ UNCHANGED <<users, tenants, memberships, older, sessions, home, request>>

(***************************************************************************)
(* Sign-in, and workspaces created by a user who is signed in.             *)
(***************************************************************************)

\* Mutant of MayLogin: the address need not be verified.
MayLoginUnverified(u) == TRUE

MayLogin(u) == users[u].verified

\* The right password for the account; a login that is refused changes nothing.
BeginLogin(r, e) ==
    /\ request[r].pc = "idle"
    /\ SubjectFree(r, {"login"}, e)
    /\ \E u \in Found(e) :
         /\ MayLogin(u)
         /\ request' = [request EXCEPT ![r] =
              [Idle EXCEPT !.pc = "login", !.email = e, !.user = u]]
    /\ UNCHANGED tables

\* Mutant of FirstTenant: list_tenants_for_user puts the newest tenant first.
FirstTenantNewest(u) ==
    IF memberships[u] = {} THEN None
    ELSE CHOOSE t \in memberships[u] : \A x \in memberships[u] : t \notin older[x]

\* The first of list_tenants_for_user, in the order of createdAt.
FirstTenant(u) ==
    IF memberships[u] = {} THEN None
    ELSE CHOOSE t \in memberships[u] : older[t] \cap memberships[u] = {}

ReadTenants(r) ==
    /\ request[r].pc = "login"
    /\ request' = [request EXCEPT ![r].pc = "open", ![r].tenant = FirstTenant(request[r].user)]
    /\ UNCHANGED tables

\* create_auth_response and the commit.
OpenSession(r) ==
    /\ request[r].pc = "open"
    /\ \E s \in Sessions :
         /\ sessions[s] = NoSession
         /\ sessions' = [sessions EXCEPT ![s] =
              [user |-> request[r].user, tenant |-> request[r].tenant]]
    /\ End(r)
    /\ UNCHANGED <<users, tenants, memberships, older, verifications, home>>

\* The session is over and its row of no more interest.
EndSession(s) ==
    /\ sessions[s] # NoSession
    /\ sessions' = [sessions EXCEPT ![s] = NoSession]
    /\ UNCHANGED <<users, tenants, memberships, older, verifications, home, request>>

\* The tenants of the user that are there or in the making.
Begun(u) ==
    memberships[u] \cup
        {t \in Tenants : \E r \in Requests : request[r].user = u /\ request[r].tenant = t}

\* create_tenant for the user of a session.
BeginWorkspace(r, s, g) ==
    /\ request[r].pc = "idle"
    /\ sessions[s] # NoSession
    /\ \E t \in Tenants :
         /\ FreshTenant(t)
         /\ request' = [request EXCEPT ![r] =
              [Idle EXCEPT !.pc = "workspace", !.slug = g, !.tenant = t,
                           !.user = sessions[s].user, !.old = Begun(sessions[s].user)]]
    /\ UNCHANGED tables

JoinWorkspace(r) ==
    /\ request[r].pc = "join"
    /\ Join(request[r])
    /\ End(r)
    /\ UNCHANGED <<users, verifications, sessions, home>>

-----------------------------------------------------------------------------
\* The transaction is rolled back: the database fails or the process dies.
Abort(r) ==
    /\ request[r].pc # "idle"
    /\ End(r)
    /\ UNCHANGED tables

ClientStep(r) ==
    \/ \E e \in Emails : BeginResend(r, e) \/ BeginLogin(r, e)
    \/ \E e \in Emails, g \in Slugs : BeginRegister(r, e, g)
    \/ \E v \in Verifications : BeginVerify(r, v)
    \/ \E s \in Sessions, g \in Slugs : BeginWorkspace(r, s, g)

RequestStep(r) ==
    \/ InsertUser(r) \/ InsertTenant(r) \/ FinishRegister(r)
    \/ Verify(r) \/ Resend(r)
    \/ ReadTenants(r) \/ OpenSession(r) \/ JoinWorkspace(r)

Rest == (\A r \in Requests : request[r].pc = "idle") /\ UNCHANGED vars

Next ==
    \/ \E r \in Requests : ClientStep(r) \/ RequestStep(r) \/ Abort(r)
    \/ \E v \in Verifications : ExpireToken(v)
    \/ \E s \in Sessions : EndSession(s)
    \/ Rest

Spec == Init /\ [][Next]_vars

-----------------------------------------------------------------------------
(***************************************************************************)
(* Properties.                                                             *)
(***************************************************************************)

\* A mail address has one account, however it is spelled and however many
\* registrations of it run at once: nothing but the locked row of the rate limit
\* sees to it, and find_user_by_email relies on it.
OneAccountPerAddress ==
    \A u, w \in Accounts : AddressOf[users[u].email] = AddressOf[users[w].email] => u = w

\* An account comes with a tenant of its own and a mail that verifies it, or not at
\* all, and no tenant is left without its owner, whichever statement of whichever
\* request fails.  (docs/api-contracts.md:97 has the registration create a bearer
\* token in the same transaction.  register creates none, as SessionsAreVerified and
\* AAC-001 of docs/auth-security.md have it: the two documents disagree.)
AccountsComeWhole ==
    /\ \A u \in Accounts :
         /\ memberships[u] # {}
         /\ \E v \in Verifications : verifications[v].user = u
    /\ \A t \in Tenants : tenants[t] # None =>
         Cardinality({u \in Accounts : t \in memberships[u]}) = 1

\* At most one mail with a working verification token is out for an account.
OneLiveVerification ==
    \A v, w \in Verifications :
        /\ verifications[v].user # None /\ verifications[v].user = verifications[w].user
        /\ verifications[v].status = "unused" /\ verifications[w].status = "unused"
        => v = w

\* Only accounts whose address is verified sign in, and register signs nobody in
\* (AAC-001, AAC-002 of docs/auth-security.md); an address is verified only when a
\* token that was mailed to it is used up, by the verification or by its renewal.
SessionsAreVerified ==
    /\ \A s \in Sessions : sessions[s] # NoSession => users[sessions[s].user].verified
    /\ \A u \in Users : users[u].verified =>
         \E v \in Verifications : verifications[v].user = u /\ verifications[v].status = "used"

\* Every session is one of the tenant its user registered with, whatever tenants he
\* creates in transactions that begin and commit in whatever order around the login
\* that reads the list; current_tenant finds it.
SessionsStayHome ==
    \A s \in Sessions : sessions[s] # NoSession =>
        /\ sessions[s].tenant = home[sessions[s].user]
        /\ sessions[s].tenant \in memberships[sessions[s].user]

=============================================================================
