-------------------------- MODULE RegistrationProofs --------------------------
(***************************************************************************)
(* Theorems about Registration, for any number of users, spellings,        *)
(* tenants, tokens, sessions and requests.                                  *)
(*                                                                          *)
(* The tables say little by themselves; what makes a step safe is what the  *)
(* requests in progress hold: identities that are nobody else's, an address *)
(* that no account has and no other registration registers, tokens that no  *)
(* other request renews.  Reserved says so, and holds on because a request  *)
(* gives its reservations up only with its transaction.  Homes says which   *)
(* tenant a login finds first: the one that no other of the user precedes.  *)
(***************************************************************************)
EXTENDS Registration, FiniteSetTheorems, TLAPS

-----------------------------------------------------------------------------
(***************************************************************************)
(* The tables.                                                             *)
(***************************************************************************)

InTenant(u, t) == t \in memberships[u]

\* An account has a membership and a token; what is no account has neither and is
\* not verified; a token that was mailed is an account's.
Whole ==
    /\ \A u \in Accounts : /\ memberships[u] # {}
                           /\ \E v \in Verifications : verifications[v].user = u
    /\ \A u \in Users \ Accounts : memberships[u] = {} /\ ~users[u].verified
    /\ \A v \in Verifications :
         /\ verifications[v].user \in Accounts \cup {None}
         /\ verifications[v].user = None => verifications[v].status = "unused"

\* Exactly the tenants that are there have members, and each has one.
Owned ==
    /\ \A t \in Tenants : tenants[t] # None => \E u \in Accounts : InTenant(u, t)
    /\ \A u \in Users, t \in Tenants : InTenant(u, t) => tenants[t] # None
    /\ \A u, w \in Users, t \in Tenants : InTenant(u, t) /\ InTenant(w, t) => u = w

\* The tenant of the registration is the one of a user that was begun before all the
\* others.
Homes ==
    \A u \in Accounts :
        /\ home[u] \in memberships[u]
        /\ older[home[u]] = {}
        /\ \A t \in memberships[u] \ {home[u]} : home[u] \in older[t]

VerifiedByToken ==
    \A u \in Users : users[u].verified =>
        \E v \in Verifications : verifications[v].user = u /\ verifications[v].status = "used"

SignedIn ==
    \A s \in Sessions : sessions[s] # NoSession =>
        /\ sessions[s].user \in Accounts
        /\ users[sessions[s].user].verified
        /\ sessions[s].tenant = home[sessions[s].user]

Sound ==
    /\ Whole /\ Owned /\ Homes
    /\ OneAccountPerAddress /\ OneLiveVerification /\ VerifiedByToken /\ SignedIn

(***************************************************************************)
(* The requests in progress.                                               *)
(***************************************************************************)

\* A registration: the user is its own and the address nobody's.
HoldsAddress(r) ==
    request[r].pc \in RegisterPc =>
        /\ request[r].email \in Emails
        /\ request[r].user \in Users \ Accounts
        /\ Found(request[r].email) = {}
        /\ \A o \in Requests \ {r} :
             /\ request[o].user # request[r].user
             /\ request[o].pc \in RegisterPc =>
                  AddressOf[request[o].email] # AddressOf[request[r].email]

HoldsToken(r) ==
    request[r].pc \in RegisterPc \cup {"resend"} =>
        /\ request[r].token \in Verifications
        /\ verifications[request[r].token].user = None
        /\ \A o \in Requests \ {r} : request[o].token # request[r].token

HoldsTenant(r) ==
    request[r].pc \in RegisterPc \cup {"workspace", "join"} =>
        /\ request[r].slug \in Slugs
        /\ request[r].tenant \in Tenants
        /\ tenants[request[r].tenant] = None
        /\ \A o \in Requests \ {r} : request[o].tenant # request[r].tenant

\* A renewal has matched every token of its account that still works, and no other
\* renewal is of the account.
HoldsTokens(r) ==
    request[r].pc = "resend" =>
        /\ request[r].email \in Emails
        /\ request[r].user \in Accounts
        /\ AddressOf[users[request[r].user].email] = AddressOf[request[r].email]
        /\ Unused(request[r].user) \subseteq request[r].hit
        /\ \A v \in request[r].hit : verifications[v].user = request[r].user
        /\ \A o \in Requests \ {r} :
             request[o].pc = "resend" =>
               AddressOf[request[o].email] # AddressOf[request[r].email]

ActsForAccount(r) ==
    /\ request[r].pc \in {"login", "open", "workspace", "join"} => request[r].user \in Accounts
    /\ request[r].pc \in {"login", "open"} => users[request[r].user].verified
    /\ request[r].pc = "verify" =>
         request[r].token \in Verifications /\ verifications[request[r].token].user # None

\* Nothing of a user is begun before his registration, and whatever he begins later
\* finds its tenant there.
KnowsHome(r) ==
    /\ request[r].pc \in RegisterPc => request[r].old = {}
    /\ request[r].pc \in {"workspace", "join"} => home[request[r].user] \in request[r].old
    /\ request[r].pc = "open" => request[r].tenant = home[request[r].user]

Holds(r) ==
    /\ HoldsAddress(r) /\ HoldsToken(r) /\ HoldsTenant(r) /\ HoldsTokens(r)
    /\ ActsForAccount(r) /\ KnowsHome(r)

Reserved == \A r \in Requests : Holds(r)

IInv == TypeOK /\ Sound /\ Reserved

-----------------------------------------------------------------------------
(***************************************************************************)
(* Types.                                                                  *)
(***************************************************************************)

LEMMA Pcs ==
    /\ {"idle", "user", "tenant", "finish", "workspace", "join", "login", "open", "verify",
        "resend"} \subseteq RequestPc
    /\ RegisterPc = {"user", "tenant", "finish"}
  BY DEF RequestPc, RegisterPc

LEMMA EndTyped ==
  ASSUME TypeOK, NEW r, End(r)
  PROVE  request' \in [Requests -> RequestRecord]
  BY Pcs DEF TypeOK, End, Idle, RequestRecord

LEMMA ProceedTyped ==
  ASSUME TypeOK, NEW r, NEW pc \in RequestPc, Proceed(r, pc)
  PROVE  request' \in [Requests -> RequestRecord]
  BY DEF TypeOK, Proceed, RequestRecord

LEMMA BeginTyped ==
  ASSUME TypeOK, NEW r, NEW q \in RequestRecord, request' = [request EXCEPT ![r] = q]
  PROVE  request' \in [Requests -> RequestRecord]
  BY DEF TypeOK

LEMMA IssuedTyped ==
  ASSUME TypeOK, NEW token, NEW u \in Users, NEW hit
  PROVE  Issued(token, u, hit) \in [Verifications -> VerificationRecord]
  BY DEF TypeOK, Issued, VerificationRecord

LEMMA JoinTyped ==
  ASSUME TypeOK, NEW r \in Requests, Join(request[r]),
         request[r].user \in Users, request[r].slug \in Slugs, request[r].tenant \in Tenants
  PROVE  /\ tenants' \in [Tenants -> Slugs \cup {None}]
         /\ memberships' \in [Users -> SUBSET Tenants]
         /\ older' \in [Tenants -> SUBSET Tenants]
<1>1. request[r].old \subseteq Tenants
  BY DEF TypeOK, RequestRecord
<1> QED
  BY <1>1 DEF Join, TypeOK

\* What a login reads while transactions that began before it are still to commit.
LEMMA FirstIsHome ==
  ASSUME IInv, NEW u \in Accounts
  PROVE  FirstTenant(u) = home[u] /\ home[u] \in Tenants /\ tenants[home[u]] # None
<1>1. /\ home[u] \in memberships[u]
      /\ older[home[u]] = {}
      /\ \A t \in memberships[u] \ {home[u]} : home[u] \in older[t]
  BY DEF IInv, Sound, Homes
<1>2. u \in Users /\ memberships[u] \subseteq Tenants
  BY DEF IInv, TypeOK, Accounts
<1>3. older[home[u]] \cap memberships[u] = {}
  BY <1>1
<1>4. \A t \in memberships[u] : older[t] \cap memberships[u] = {} => t = home[u]
  BY <1>1
<1>5. FirstTenant(u) = home[u]
  BY <1>1, <1>3, <1>4 DEF FirstTenant
<1>6. tenants[home[u]] # None
  BY <1>1, <1>2 DEF IInv, Sound, Owned, InTenant
<1> QED
  BY <1>1, <1>2, <1>5, <1>6

LEMMA TypeStep == IInv /\ [Next]_vars => TypeOK'
<1> SUFFICES ASSUME IInv, [Next]_vars PROVE TypeOK'
  OBVIOUS
<1>t. TypeOK
  BY DEF IInv
<1>u. \A u \in Accounts : u \in Users
  BY DEF Accounts
<1>h. \A r \in Requests : Holds(r)
  BY DEF IInv, Reserved
<1>1. ASSUME NEW r \in Requests, ClientStep(r) PROVE TypeOK'
  <2>1. UNCHANGED tables
    BY <1>1 DEF ClientStep, BeginResend, BeginLogin, BeginRegister, BeginVerify, BeginWorkspace
  <2>2. ASSUME NEW e \in Emails, BeginResend(r, e) PROVE request' \in [Requests -> RequestRecord]
    <3>1. PICK u \in Found(e), v \in Verifications : request' = [request EXCEPT ![r] =
            [Idle EXCEPT !.pc = "resend", !.email = e, !.user = u, !.token = v,
                         !.hit = Unused(u)]]
      BY <2>2 DEF BeginResend
    <3>2. u \in Users /\ Unused(u) \subseteq Verifications
      BY DEF Found, Accounts, Unused
    <3> DEFINE q == [Idle EXCEPT !.pc = "resend", !.email = e, !.user = u, !.token = v,
                                 !.hit = Unused(u)]
    <3>3. q \in RequestRecord
      BY <3>2, Pcs DEF Idle, RequestRecord
    <3>4. QED  BY <1>t, <3>1, <3>3, BeginTyped
  <2>3. ASSUME NEW e \in Emails, BeginLogin(r, e) PROVE request' \in [Requests -> RequestRecord]
    <3>1. PICK u \in Found(e) : request' = [request EXCEPT ![r] =
            [Idle EXCEPT !.pc = "login", !.email = e, !.user = u]]
      BY <2>3 DEF BeginLogin
    <3>2. u \in Users
      BY DEF Found, Accounts
    <3>3. [Idle EXCEPT !.pc = "login", !.email = e, !.user = u] \in RequestRecord
      BY <3>2, Pcs DEF Idle, RequestRecord
    <3>4. QED  BY <1>t, <3>1, <3>3, BeginTyped
  <2>4. ASSUME NEW e \in Emails, NEW g \in Slugs, BeginRegister(r, e, g)
        PROVE  request' \in [Requests -> RequestRecord]
    <3>1. PICK u \in Users, t \in Tenants, v \in Verifications :
            request' = [request EXCEPT ![r] =
              [Idle EXCEPT !.pc = "user", !.email = e, !.slug = g,
                           !.user = u, !.tenant = t, !.token = v]]
      BY <2>4 DEF BeginRegister
    <3>2. [Idle EXCEPT !.pc = "user", !.email = e, !.slug = g,
                       !.user = u, !.tenant = t, !.token = v] \in RequestRecord
      BY Pcs DEF Idle, RequestRecord
    <3>3. QED  BY <1>t, <3>1, <3>2, BeginTyped
  <2>5. ASSUME NEW v \in Verifications, BeginVerify(r, v)
        PROVE  request' \in [Requests -> RequestRecord]
    BY <1>t, <2>5, Pcs DEF BeginVerify, Idle, TypeOK, RequestRecord
  <2>6. ASSUME NEW s \in Sessions, NEW g \in Slugs, BeginWorkspace(r, s, g)
        PROVE  request' \in [Requests -> RequestRecord]
    <3>1. PICK t \in Tenants : request' = [request EXCEPT ![r] =
            [Idle EXCEPT !.pc = "workspace", !.slug = g, !.tenant = t,
                         !.user = sessions[s].user, !.old = Begun(sessions[s].user)]]
      BY <2>6 DEF BeginWorkspace
    <3>2. PICK u \in Accounts : u = sessions[s].user
      BY <2>6 DEF BeginWorkspace, IInv, Sound, SignedIn
    <3>3. u \in Users /\ Begun(u) \subseteq Tenants
      BY <1>t, <1>u DEF TypeOK, Begun
    <3>4. [Idle EXCEPT !.pc = "workspace", !.slug = g, !.tenant = t,
                       !.user = u, !.old = Begun(u)] \in RequestRecord
      BY <3>3, Pcs DEF Idle, RequestRecord
    <3>5. QED  BY <1>t, <3>1, <3>2, <3>4, BeginTyped
  <2>7. QED
    BY <1>1, <1>t, <2>1, <2>2, <2>3, <2>4, <2>5, <2>6 DEF ClientStep, TypeOK, tables
<1>2. ASSUME NEW r \in Requests, InsertUser(r) \/ InsertTenant(r) \/ Abort(r) PROVE TypeOK'
  <2>1. UNCHANGED tables
    BY <1>2 DEF InsertUser, InsertTenant, SlugConflict, Abort
  <2>2. request' \in [Requests -> RequestRecord]
    BY <1>t, <1>2, EndTyped, ProceedTyped, Pcs DEF InsertUser, InsertTenant, SlugConflict, Abort
  <2>3. QED  BY <1>t, <2>1, <2>2 DEF TypeOK, tables
<1>3. ASSUME NEW r \in Requests, FinishRegister(r) PROVE TypeOK'
  <2>1. /\ request[r].email \in Emails /\ request[r].user \in Users
        /\ request[r].slug \in Slugs /\ request[r].tenant \in Tenants
    BY <1>3, <1>h, Pcs DEF FinishRegister, Holds, HoldsAddress, HoldsTenant
  <2>2. users' \in [Users -> UserRecord]
    BY <1>t, <1>3, <2>1 DEF FinishRegister, TypeOK, UserRecord
  <2>3. /\ tenants' \in [Tenants -> Slugs \cup {None}]
        /\ memberships' \in [Users -> SUBSET Tenants]
        /\ older' \in [Tenants -> SUBSET Tenants]
        /\ home' \in [Users -> Tenants \cup {None}]
    BY <1>t, <1>3, <2>1, JoinTyped DEF FinishRegister, TypeOK
  <2>4. verifications' \in [Verifications -> VerificationRecord]
    BY <1>t, <1>3, <2>1, IssuedTyped DEF FinishRegister
  <2>5. QED
    BY <1>t, <1>3, <2>1, <2>2, <2>3, <2>4, EndTyped DEF FinishRegister, TypeOK
<1>4. ASSUME NEW r \in Requests, Verify(r) PROVE TypeOK'
  <2>1. users' \in [Users -> UserRecord]
    BY <1>t, <1>4 DEF Verify, TypeOK, UserRecord
  <2>2. verifications' \in [Verifications -> VerificationRecord]
    BY <1>t, <1>4 DEF Verify, TypeOK, VerificationRecord
  <2>3. QED  BY <1>t, <1>4, <2>1, <2>2, EndTyped DEF Verify, TypeOK
<1>5. ASSUME NEW r \in Requests, Resend(r) PROVE TypeOK'
  <2>1. request[r].user \in Users
    BY <1>5, <1>h, <1>u DEF Resend, Holds, HoldsTokens
  <2>2. QED  BY <1>t, <1>5, <2>1, IssuedTyped, EndTyped DEF Resend, TypeOK
<1>6. ASSUME NEW r \in Requests, OpenSession(r) PROVE TypeOK'
  <2>1. request[r].user \in Accounts
    BY <1>6, <1>h DEF OpenSession, Holds, ActsForAccount
  <2>2. request[r].tenant \in Tenants \cup {None}
    BY <1>t DEF TypeOK, RequestRecord
  <2>3. sessions' \in [Sessions -> SessionRecord]
    BY <1>t, <1>6, <1>u, <2>1, <2>2 DEF OpenSession, TypeOK, SessionRecord
  <2>4. QED  BY <1>t, <1>6, <2>3, EndTyped DEF OpenSession, TypeOK
<1>7. ASSUME NEW r \in Requests, JoinWorkspace(r) PROVE TypeOK'
  <2>1. /\ request[r].user \in Users
        /\ request[r].slug \in Slugs /\ request[r].tenant \in Tenants
    BY <1>7, <1>h, <1>u DEF JoinWorkspace, Holds, ActsForAccount, HoldsTenant
  <2>2. /\ tenants' \in [Tenants -> Slugs \cup {None}]
        /\ memberships' \in [Users -> SUBSET Tenants]
        /\ older' \in [Tenants -> SUBSET Tenants]
    BY <1>t, <1>7, <2>1, JoinTyped DEF JoinWorkspace
  <2>3. QED  BY <1>t, <1>7, <2>1, <2>2, EndTyped DEF JoinWorkspace, TypeOK
<1>8. ASSUME NEW v \in Verifications, ExpireToken(v) PROVE TypeOK'
  BY <1>t, <1>8 DEF ExpireToken, TypeOK, VerificationRecord
<1>9. ASSUME NEW s \in Sessions, EndSession(s) PROVE TypeOK'
  BY <1>t, <1>9 DEF EndSession, TypeOK, SessionRecord, NoSession
<1>10. ASSUME NEW r \in Requests, ReadTenants(r) PROVE TypeOK'
  <2>1. request[r].user \in Accounts /\ UNCHANGED tables
    BY <1>10, <1>h DEF ReadTenants, Holds, ActsForAccount
  <2>2. FirstTenant(request[r].user) \in Tenants
    BY <2>1, FirstIsHome
  <2>3. request' \in [Requests -> RequestRecord]
    <3>1. [request[r] EXCEPT !.pc = "open", !.tenant = FirstTenant(request[r].user)]
            \in RequestRecord
      BY <1>t, <2>2, Pcs DEF TypeOK, RequestRecord
    <3>2. request' = [request EXCEPT ![r] =
            [request[r] EXCEPT !.pc = "open", !.tenant = FirstTenant(request[r].user)]]
      BY <1>10 DEF ReadTenants
    <3>3. QED  BY <1>t, <3>1, <3>2, BeginTyped
  <2>4. QED  BY <1>t, <2>1, <2>3 DEF TypeOK, tables
<1>11. CASE UNCHANGED vars
  BY <1>t, <1>11 DEF TypeOK, vars, tables
<1> QED
  BY <1>1, <1>2, <1>3, <1>4, <1>5, <1>6, <1>7, <1>8, <1>9, <1>10, <1>11
  DEF Next, RequestStep, Rest

-----------------------------------------------------------------------------
(***************************************************************************)
(* The tables stay sound.                                                  *)
(***************************************************************************)

LEMMA FinishRegisterSound ==
  ASSUME IInv, NEW r \in Requests, FinishRegister(r)
  PROVE  Sound'
<1>s. Whole /\ Owned /\ Homes /\ OneAccountPerAddress /\ OneLiveVerification /\ VerifiedByToken /\ SignedIn
  BY DEF IInv, Sound
<1>t. TypeOK
  BY DEF IInv
<1>n. None \notin Slugs /\ None \notin Emails /\ None \notin Users
  BY RegistrationAssumption
<1>0. HoldsAddress(r) /\ HoldsToken(r) /\ HoldsTenant(r) /\ KnowsHome(r) /\ request[r].pc = "finish"
  BY DEF IInv, Reserved, Holds, FinishRegister
<1>1. PICK u \in Users, e \in Emails, g \in Slugs, t \in Tenants, v \in Verifications :
        request[r].user = u /\ request[r].email = e /\ request[r].slug = g
          /\ request[r].tenant = t /\ request[r].token = v
  BY <1>0 DEF HoldsAddress, HoldsToken, HoldsTenant, RegisterPc
<1>2. /\ u \notin Accounts /\ Found(e) = {}
      /\ verifications[v].user = None /\ tenants[t] = None
  BY <1>0, <1>1 DEF HoldsAddress, HoldsToken, HoldsTenant, RegisterPc
<1>3. /\ users'[u] = [email |-> e, verified |-> FALSE]
      /\ \A w \in Users \ {u} : users'[w] = users[w]
  BY <1>1, <1>t DEF FinishRegister, TypeOK
<1>4. Accounts' = Accounts \cup {u}
  BY <1>3, <1>n DEF Accounts
<1>5. /\ tenants'[t] = g /\ older'[t] = {}
      /\ \A x \in Tenants \ {t} : tenants'[x] = tenants[x] /\ older'[x] = older[x]
  BY <1>0, <1>1, <1>t DEF FinishRegister, Join, TypeOK, KnowsHome, RegisterPc
<1>6. /\ memberships'[u] = {t} /\ home'[u] = t
      /\ \A w \in Users \ {u} : memberships'[w] = memberships[w] /\ home'[w] = home[w]
  BY <1>1, <1>2, <1>s, <1>t DEF FinishRegister, Join, TypeOK, Whole
<1>7. /\ verifications'[v] = [user |-> u, status |-> "unused"]
      /\ \A x \in Verifications \ {v} : verifications'[x] = verifications[x]
  BY <1>1, <1>t DEF FinishRegister, Issued, TypeOK
<1>8. UNCHANGED sessions
  BY DEF FinishRegister
<1>9. /\ \A x \in Tenants : InTenant(u, x)' <=> x = t
      /\ \A w \in Users \ {u}, x \in Tenants : InTenant(w, x)' <=> InTenant(w, x)
  BY <1>6 DEF InTenant
<1>10. Accounts \subseteq Users
  BY DEF Accounts
<1>11. Whole'
  <2>1. memberships'[u] # {}
    BY <1>6
  <2>2. \A w \in Accounts : \E x \in Verifications \ {v} : verifications[x].user = w
    BY <1>2, <1>n, <1>s, <1>10 DEF Whole
  <2>3. \A w \in Accounts' : /\ memberships'[w] # {}
                             /\ \E x \in Verifications : verifications'[x].user = w
    BY <1>2, <1>4, <1>6, <1>7, <1>s, <1>10, <2>1, <2>2 DEF Whole
  <2>4. \A w \in Users \ Accounts' : memberships'[w] = {} /\ ~users'[w].verified
    BY <1>3, <1>4, <1>6, <1>s DEF Whole
  <2>5. \A x \in Verifications :
          /\ verifications'[x].user \in Accounts' \cup {None}
          /\ verifications'[x].user = None => verifications'[x].status = "unused"
    BY <1>4, <1>7, <1>s DEF Whole
  <2>6. QED  BY <2>3, <2>4, <2>5 DEF Whole
<1>12. Owned'
  <2>1. \A w \in Users : ~InTenant(w, t)
    BY <1>2, <1>s DEF Owned
  <2>2. \A x \in Tenants : tenants'[x] # None => \E w \in Accounts' : InTenant(w, x)'
    <3>1. ASSUME NEW x \in Tenants \ {t}, tenants[x] # None
          PROVE  \E w \in Accounts' : InTenant(w, x)'
      BY <1>2, <1>4, <1>9, <1>10, <1>s, <3>1 DEF Owned
    <3>2. u \in Accounts' /\ InTenant(u, t)'
      BY <1>4, <1>9
    <3>3. QED  BY <1>5, <3>1, <3>2
  <2>3. \A w \in Users, x \in Tenants : InTenant(w, x)' => tenants'[x] # None
    BY <1>5, <1>9, <1>n, <1>s DEF Owned
  <2>4. \A w, y \in Users, x \in Tenants : InTenant(w, x)' /\ InTenant(y, x)' => w = y
    BY <1>9, <1>s, <2>1 DEF Owned
  <2>5. QED  BY <2>2, <2>3, <2>4 DEF Owned
<1>13. OneAccountPerAddress'
  <2>1. \A w \in Accounts : AddressOf[users[w].email] # AddressOf[e]
    BY <1>2 DEF Found
  <2>2. QED  BY <1>2, <1>3, <1>4, <1>10, <1>s, <2>1 DEF OneAccountPerAddress
<1>14. OneLiveVerification'
  <2>1. \A x \in Verifications : verifications[x].user # u
    BY <1>2, <1>n, <1>s DEF Whole
  <2>2. QED  BY <1>7, <1>s, <2>1 DEF OneLiveVerification
<1>15. VerifiedByToken'
  <2>1. \A w \in Users : users'[w].verified => w # u /\ users[w].verified
    BY <1>3
  <2>2. \A w \in Users : users[w].verified =>
          \E x \in Verifications \ {v} :
            verifications[x].user = w /\ verifications[x].status = "used"
    BY <1>2, <1>n, <1>s DEF VerifiedByToken
  <2>3. QED  BY <1>7, <2>1, <2>2 DEF VerifiedByToken
<1>16. SignedIn'
  BY <1>2, <1>3, <1>4, <1>6, <1>8, <1>10, <1>s DEF SignedIn
<1>17. Homes'
  <2>1. \A w \in Accounts : w \in Users \ {u} /\ t \notin memberships[w]
    BY <1>2, <1>10, <1>s DEF Owned, InTenant
  <2>2. \A w \in Accounts : memberships[w] \subseteq Tenants
    BY <1>10, <1>t DEF TypeOK
  <2>3. QED  BY <1>4, <1>5, <1>6, <1>s, <2>1, <2>2 DEF Homes
<1> QED
  BY <1>11, <1>12, <1>13, <1>14, <1>15, <1>16, <1>17 DEF Sound

LEMMA VerifySound ==
  ASSUME IInv, NEW r \in Requests, Verify(r)
  PROVE  Sound'
<1>s. Whole /\ Owned /\ Homes /\ OneAccountPerAddress /\ OneLiveVerification /\ VerifiedByToken /\ SignedIn
  BY DEF IInv, Sound
<1>t. TypeOK
  BY DEF IInv
<1>n. None \notin Users
  BY RegistrationAssumption
<1>a. Accounts \subseteq Users
  BY DEF Accounts
<1>1. PICK v \in Verifications : request[r].token = v /\ verifications[v].user # None
  BY DEF IInv, Reserved, Holds, ActsForAccount, Verify
<1>2. PICK u \in Accounts : verifications[v].user = u
  BY <1>1, <1>s DEF Whole
<1>3. /\ users'[u].verified /\ users'[u].email = users[u].email
      /\ \A w \in Users \ {u} : users'[w] = users[w]
      /\ UNCHANGED <<tenants, memberships, older, home, sessions>>
  BY <1>1, <1>2, <1>a, <1>t DEF Verify, TypeOK, UserRecord
<1>4. /\ verifications'[v] = [user |-> u, status |-> "used"]
      /\ \A x \in Verifications \ {v} : verifications'[x] = verifications[x]
  BY <1>1, <1>2, <1>t DEF Verify, TypeOK, VerificationRecord
<1>5. Accounts' = Accounts /\ \A w \in Users : users'[w].email = users[w].email
  BY <1>3 DEF Accounts
<1>6. Whole'
  BY <1>2, <1>3, <1>4, <1>5, <1>a, <1>n, <1>s DEF Whole
<1>7. Owned' /\ Homes'
  BY <1>3, <1>5, <1>s DEF Owned, InTenant, Homes
<1>8. OneAccountPerAddress'
  BY <1>5, <1>a, <1>s DEF OneAccountPerAddress
<1>9. OneLiveVerification'
  BY <1>4, <1>s DEF OneLiveVerification
<1>10. VerifiedByToken'
  <2>1. ASSUME NEW w \in Users, users'[w].verified
        PROVE  \E x \in Verifications :
                 verifications'[x].user = w /\ verifications'[x].status = "used"
    <3>1. CASE w = u
      BY <1>4, <3>1
    <3>2. CASE w # u
      <4>1. PICK x \in Verifications :
              verifications[x].user = w /\ verifications[x].status = "used"
        BY <1>3, <1>s, <2>1, <3>2 DEF VerifiedByToken
      <4>2. x # v
        BY <1>2, <3>2, <4>1
      <4>3. QED  BY <1>4, <4>1, <4>2
    <3>3. QED  BY <3>1, <3>2
  <2>2. QED  BY <2>1 DEF VerifiedByToken
<1>11. SignedIn'
  BY <1>3, <1>5, <1>a, <1>s DEF SignedIn
<1> QED
  BY <1>6, <1>7, <1>8, <1>9, <1>10, <1>11 DEF Sound

LEMMA ResendSound ==
  ASSUME IInv, NEW r \in Requests, Resend(r)
  PROVE  Sound'
<1>s. Whole /\ Owned /\ Homes /\ OneAccountPerAddress /\ OneLiveVerification /\ VerifiedByToken /\ SignedIn
  BY DEF IInv, Sound
<1>t. TypeOK
  BY DEF IInv
<1>n. None \notin Users
  BY RegistrationAssumption
<1>a. Accounts \subseteq Users
  BY DEF Accounts
<1>0. HoldsToken(r) /\ HoldsTokens(r) /\ request[r].pc = "resend"
  BY DEF IInv, Reserved, Holds, Resend
<1>1. PICK v \in Verifications, u \in Accounts : request[r].token = v /\ request[r].user = u
  BY <1>0 DEF HoldsToken, HoldsTokens
<1> DEFINE hit == request[r].hit
<1>2. /\ verifications[v].user = None
      /\ \A x \in Verifications :
           verifications[x].user = u /\ verifications[x].status # "used" => x \in hit
      /\ \A x \in hit : verifications[x].user = u
  BY <1>0, <1>1 DEF HoldsToken, HoldsTokens, Unused
<1>3. UNCHANGED <<users, tenants, memberships, older, home, sessions>>
  BY DEF Resend
<1>4. verifications' = Issued(v, u, hit)
  BY <1>1 DEF Resend
<1> HIDE DEF hit
<1>5. /\ verifications'[v] = [user |-> u, status |-> "unused"]
      /\ \A x \in Verifications \ {v} :
           /\ verifications'[x].user = verifications[x].user
           /\ verifications'[x].status = IF x \in hit THEN "used" ELSE verifications[x].status
  BY <1>4, <1>t DEF Issued, TypeOK, VerificationRecord
<1>6. Accounts' = Accounts
  BY <1>3 DEF Accounts
<1>7. Whole'
  <2>1. \A w \in Accounts : \E x \in Verifications \ {v} : verifications[x].user = w
    BY <1>2, <1>a, <1>n, <1>s DEF Whole
  <2>2. \A x \in hit : verifications[x].user # None
    BY <1>2, <1>a, <1>n
  <2>3. QED  BY <1>3, <1>5, <1>6, <1>a, <1>n, <1>s, <2>1, <2>2 DEF Whole
<1>8. Owned' /\ Homes'
  BY <1>3, <1>6, <1>s DEF Owned, InTenant, Homes
<1>9. OneAccountPerAddress'
  BY <1>3, <1>6, <1>s DEF OneAccountPerAddress
<1>10. OneLiveVerification'
  <2>1. \A x \in Verifications \ {v} :
          verifications'[x].status = "unused" =>
            /\ x \notin hit /\ verifications[x].status = "unused"
            /\ verifications'[x].user # u
    BY <1>2, <1>5
  <2>2. QED  BY <1>5, <1>s, <2>1 DEF OneLiveVerification
<1>11. VerifiedByToken'
  <2>1. \A w \in Users : users[w].verified =>
          \E x \in Verifications \ {v} :
            verifications[x].user = w /\ verifications[x].status = "used"
    BY <1>2, <1>n, <1>s DEF VerifiedByToken
  <2>2. QED  BY <1>3, <1>5, <2>1 DEF VerifiedByToken
<1>12. SignedIn'
  BY <1>3, <1>6, <1>s DEF SignedIn
<1> QED
  BY <1>7, <1>8, <1>9, <1>10, <1>11, <1>12 DEF Sound

LEMMA JoinWorkspaceSound ==
  ASSUME IInv, NEW r \in Requests, JoinWorkspace(r)
  PROVE  Sound'
<1>s. Whole /\ Owned /\ Homes /\ OneAccountPerAddress /\ OneLiveVerification /\ VerifiedByToken /\ SignedIn
  BY DEF IInv, Sound
<1>t. TypeOK
  BY DEF IInv
<1>n. None \notin Slugs
  BY RegistrationAssumption
<1>a. Accounts \subseteq Users
  BY DEF Accounts
<1>0. HoldsTenant(r) /\ ActsForAccount(r) /\ KnowsHome(r) /\ request[r].pc = "join"
  BY DEF IInv, Reserved, Holds, JoinWorkspace
<1>1. PICK u \in Accounts, g \in Slugs, t \in Tenants :
        request[r].user = u /\ request[r].slug = g /\ request[r].tenant = t
  BY <1>0 DEF HoldsTenant, ActsForAccount
<1>2. tenants[t] = None
  BY <1>0, <1>1 DEF HoldsTenant
<1>3. /\ tenants'[t] = g /\ home[u] \in older'[t]
      /\ \A x \in Tenants \ {t} : tenants'[x] = tenants[x] /\ older'[x] = older[x]
      /\ UNCHANGED <<users, verifications, sessions, home>>
  BY <1>0, <1>1, <1>t DEF JoinWorkspace, Join, TypeOK, KnowsHome
<1>4. /\ memberships'[u] = memberships[u] \cup {t}
      /\ \A w \in Users \ {u} : memberships'[w] = memberships[w]
  BY <1>1, <1>a, <1>t DEF JoinWorkspace, Join, TypeOK
<1>5. Accounts' = Accounts
  BY <1>3 DEF Accounts
<1>6. /\ \A x \in Tenants : InTenant(u, x)' <=> x = t \/ InTenant(u, x)
      /\ \A w \in Users \ {u}, x \in Tenants : InTenant(w, x)' <=> InTenant(w, x)
  BY <1>4 DEF InTenant
<1>7. Homes'
  <2>1. \A w \in Accounts : t \notin memberships[w] /\ memberships[w] \subseteq Tenants
    BY <1>2, <1>a, <1>s, <1>t DEF Owned, InTenant, TypeOK
  <2>2. QED  BY <1>1, <1>3, <1>4, <1>5, <1>a, <1>s, <2>1 DEF Homes
<1>8. Whole'
  BY <1>3, <1>4, <1>5, <1>a, <1>s DEF Whole
<1>9. Owned'
  <2>1. \A w \in Users : ~InTenant(w, t)
    BY <1>2, <1>s DEF Owned
  <2>2. \A x \in Tenants : tenants'[x] # None => \E w \in Accounts' : InTenant(w, x)'
    <3>1. ASSUME NEW x \in Tenants \ {t}, tenants[x] # None
          PROVE  \E w \in Accounts' : InTenant(w, x)'
      BY <1>5, <1>6, <1>a, <1>s, <3>1 DEF Owned
    <3>2. u \in Accounts' /\ InTenant(u, t)'
      BY <1>5, <1>6
    <3>3. QED  BY <1>3, <3>1, <3>2
  <2>3. \A w \in Users, x \in Tenants : InTenant(w, x)' => tenants'[x] # None
    BY <1>3, <1>6, <1>n, <1>s DEF Owned
  <2>4. \A w, y \in Users, x \in Tenants : InTenant(w, x)' /\ InTenant(y, x)' => w = y
    BY <1>6, <1>s, <2>1 DEF Owned
  <2>5. QED  BY <2>2, <2>3, <2>4 DEF Owned
<1>10. OneAccountPerAddress' /\ OneLiveVerification' /\ VerifiedByToken'
  BY <1>3, <1>5, <1>s DEF OneAccountPerAddress, OneLiveVerification, VerifiedByToken
<1>11. SignedIn'
  BY <1>3, <1>5, <1>a, <1>s DEF SignedIn
<1> QED
  BY <1>7, <1>8, <1>9, <1>10, <1>11 DEF Sound

LEMMA SoundStep == IInv /\ [Next]_vars => Sound'
<1> SUFFICES ASSUME IInv, [Next]_vars PROVE Sound'
  OBVIOUS
<1>s. Whole /\ Owned /\ Homes /\ OneAccountPerAddress /\ OneLiveVerification /\ VerifiedByToken /\ SignedIn
  BY DEF IInv, Sound
<1>t. TypeOK
  BY DEF IInv
<1>1. ASSUME UNCHANGED tables PROVE Sound'
  BY <1>1, <1>s DEF tables, Sound, Whole, Owned, OneAccountPerAddress, OneLiveVerification,
     VerifiedByToken, SignedIn, Accounts, InTenant, Homes
<1>2. ASSUME NEW r \in Requests,
             ClientStep(r) \/ InsertUser(r) \/ InsertTenant(r) \/ ReadTenants(r) \/ Abort(r)
      PROVE  UNCHANGED tables
  BY <1>2 DEF ClientStep, BeginResend, BeginLogin, BeginRegister, BeginVerify, BeginWorkspace,
     InsertUser, InsertTenant, SlugConflict, ReadTenants, Abort
\* The steps that write sessions only.
<1>3. ASSUME UNCHANGED <<users, tenants, memberships, older, verifications, home>>, SignedIn'
      PROVE  Sound'
  BY <1>3, <1>s DEF Sound, Whole, Owned, OneAccountPerAddress, OneLiveVerification,
     VerifiedByToken, Accounts, InTenant, Homes
<1>4. ASSUME NEW r \in Requests, OpenSession(r) PROVE Sound'
  <2>1. /\ request[r].user \in Accounts /\ users[request[r].user].verified
    BY <1>4 DEF IInv, Reserved, Holds, ActsForAccount, OpenSession
  <2>2. UNCHANGED <<users, tenants, memberships, older, verifications, home>>
    BY <1>4 DEF OpenSession
  <2>3. request[r].tenant = home[request[r].user]
    BY <1>4 DEF IInv, Reserved, Holds, KnowsHome, OpenSession
  <2>4. PICK s \in Sessions : sessions' = [sessions EXCEPT ![s] =
              [user |-> request[r].user, tenant |-> request[r].tenant]]
    BY <1>4 DEF OpenSession
  <2>5. \A x \in Sessions : \/ sessions'[x] = sessions[x]
                            \/ /\ sessions'[x].user = request[r].user
                               /\ sessions'[x].tenant = request[r].tenant
    BY <1>t, <2>4 DEF TypeOK
  <2>6. Accounts' = Accounts
    BY <2>2 DEF Accounts
  <2>7. SignedIn'
    BY <1>s, <2>1, <2>2, <2>3, <2>5, <2>6 DEF SignedIn
  <2>8. QED  BY <1>3, <2>2, <2>7
<1>5. ASSUME NEW s \in Sessions, EndSession(s) PROVE Sound'
  <2>1. UNCHANGED <<users, tenants, memberships, older, verifications, home>>
    BY <1>5 DEF EndSession
  <2>2. \A x \in Sessions : sessions'[x] \in {sessions[x], NoSession}
    BY <1>5, <1>t DEF EndSession, TypeOK
  <2>3. Accounts' = Accounts
    BY <2>1 DEF Accounts
  <2>4. SignedIn'
    BY <1>s, <2>1, <2>2, <2>3 DEF SignedIn
  <2>5. QED  BY <1>3, <2>1, <2>4
<1>6. ASSUME NEW v \in Verifications, ExpireToken(v) PROVE Sound'
  <2>1. /\ UNCHANGED <<users, tenants, memberships, older, home, sessions>>
        /\ verifications[v].user # None /\ verifications[v].status = "unused"
        /\ verifications'[v].status = "expired"
        /\ \A x \in Verifications \ {v} : verifications'[x] = verifications[x]
        /\ \A x \in Verifications : verifications'[x].user = verifications[x].user
    BY <1>6, <1>t DEF ExpireToken, TypeOK, VerificationRecord
  <2>2. Accounts' = Accounts
    BY <2>1 DEF Accounts
  <2>3. Whole'
    BY <1>s, <2>1, <2>2 DEF Whole
  <2>4. Owned' /\ Homes' /\ OneAccountPerAddress' /\ SignedIn'
    BY <1>s, <2>1, <2>2 DEF Owned, Homes, OneAccountPerAddress, SignedIn, InTenant
  <2>5. OneLiveVerification'
    BY <1>s, <2>1 DEF OneLiveVerification
  <2>6. VerifiedByToken'
    BY <1>s, <2>1 DEF VerifiedByToken
  <2>7. QED  BY <2>3, <2>4, <2>5, <2>6 DEF Sound
<1> QED
  BY <1>1, <1>2, <1>4, <1>5, <1>6, FinishRegisterSound, VerifySound, ResendSound,
     JoinWorkspaceSound
  DEF Next, RequestStep, Rest, vars, tables

-----------------------------------------------------------------------------
(***************************************************************************)
(* What a request holds it keeps to its end.                               *)
(***************************************************************************)

\* A request goes on with what it holds, or ends.
Continues(r) ==
    \/ request'[r] = request[r]
    \/ request'[r] = Idle
    \/ /\ \/ request[r].pc \in RegisterPc /\ request'[r].pc \in RegisterPc
          \/ request[r].pc = "workspace" /\ request'[r].pc = "join"
       /\ request'[r] = [request[r] EXCEPT !.pc = request'[r].pc]

\* The tables take nothing away that r holds.
Spared(r) ==
    /\ Accounts \subseteq Accounts'
    /\ \A u \in Accounts : /\ users'[u].email = users[u].email
                           /\ users[u].verified => users'[u].verified
                           /\ home'[u] = home[u]
    /\ \A v \in Verifications :
         verifications[v].user # None => verifications'[v].user = verifications[v].user
    /\ request[r].pc \in RegisterPc =>
         /\ request[r].user \notin Accounts'
         /\ \A w \in Accounts' : AddressOf[users'[w].email] # AddressOf[request[r].email]
    /\ request[r].pc \in RegisterPc \cup {"resend"} =>
         verifications'[request[r].token].user = None
    /\ request[r].pc \in RegisterPc \cup {"workspace", "join"} =>
         tenants'[request[r].tenant] = None
    /\ request[r].pc = "resend" =>
         \A v \in Verifications :
             /\ verifications'[v].user = request[r].user
             /\ verifications'[v].status # "used"
             => v \in Unused(request[r].user)

LEMMA HoldsKept ==
  ASSUME IInv, TypeOK', \A o \in Requests : Continues(o), NEW r \in Requests, Spared(r)
  PROVE  Holds(r)'
<1>n. None \notin Users \cup Tenants \cup Verifications
  BY RegistrationAssumption
<1>h. Holds(r)
  BY DEF IInv, Reserved
<1>t. request \in [Requests -> RequestRecord]
  BY DEF IInv, TypeOK
<1>i. /\ Idle.pc = "idle" /\ Idle.user = None /\ Idle.tenant = None /\ Idle.token = None
      /\ "idle" \notin RegisterPc \cup {"resend", "workspace", "join", "login", "open", "verify"}
      /\ RegisterPc \cap {"resend", "workspace", "join", "login", "open", "verify"} = {}
  BY DEF Idle, RegisterPc
\* No request takes what another one holds.
<1>o. ASSUME NEW o \in Requests
      PROVE  /\ request'[o].user \in {request[o].user, None}
             /\ request'[o].tenant \in {request[o].tenant, None}
             /\ request'[o].token \in {request[o].token, None}
             /\ request'[o].pc \in RegisterPc => /\ request[o].pc \in RegisterPc
                                                 /\ request'[o].email = request[o].email
             /\ request'[o].pc = "resend" => request'[o] = request[o]
  <2>1. CASE request'[o] = request[o]
    BY <2>1
  <2>2. CASE request'[o] = Idle
    BY <1>i, <2>2
  <2>3. CASE /\ \/ request[o].pc \in RegisterPc /\ request'[o].pc \in RegisterPc
                \/ request[o].pc = "workspace" /\ request'[o].pc = "join"
             /\ request'[o] = [request[o] EXCEPT !.pc = request'[o].pc]
    <3>1. request[o] \in RequestRecord
      BY <1>t
    <3>2. /\ request'[o].user = request[o].user /\ request'[o].tenant = request[o].tenant
          /\ request'[o].token = request[o].token /\ request'[o].email = request[o].email
      BY <2>3, <3>1 DEF RequestRecord
    <3>3. QED  BY <1>i, <2>3, <3>2
  <2>4. QED  BY <2>1, <2>2, <2>3 DEF Continues
<1>1. CASE request'[r] = Idle
  BY <1>1, <1>i DEF Holds, HoldsAddress, HoldsToken, HoldsTenant, HoldsTokens, ActsForAccount,
     KnowsHome
<1>2. CASE request'[r] # Idle
  <2>1. /\ request'[r].email = request[r].email /\ request'[r].slug = request[r].slug
        /\ request'[r].user = request[r].user /\ request'[r].tenant = request[r].tenant
        /\ request'[r].token = request[r].token /\ request'[r].hit = request[r].hit
        /\ request'[r].old = request[r].old
        /\ \/ request'[r].pc = request[r].pc
           \/ request[r].pc \in RegisterPc /\ request'[r].pc \in RegisterPc
           \/ request[r].pc = "workspace" /\ request'[r].pc = "join"
    <3>1. CASE request'[r] = request[r]
      BY <3>1
    <3>2. CASE /\ \/ request[r].pc \in RegisterPc /\ request'[r].pc \in RegisterPc
                  \/ request[r].pc = "workspace" /\ request'[r].pc = "join"
               /\ request'[r] = [request[r] EXCEPT !.pc = request'[r].pc]
      <4>1. request[r] \in RequestRecord
        BY <1>t
      <4>2. QED  BY <3>2, <4>1 DEF RequestRecord
    <3>3. QED  BY <1>2, <3>1, <3>2 DEF Continues
  <2>2. HoldsAddress(r)'
    <3> SUFFICES ASSUME request'[r].pc \in RegisterPc
                 PROVE  HoldsAddress(r)'
      BY DEF HoldsAddress
    <3>1. request[r].pc \in RegisterPc
      BY <1>i, <2>1
    <3>2. /\ request[r].user \notin Accounts'
          /\ \A w \in Accounts' : AddressOf[users'[w].email] # AddressOf[request'[r].email]
      BY <2>1, <3>1 DEF Spared
    <3>3. Found(request[r].email)' = {}
      BY <3>2 DEF Found
    <3>4. /\ request[r].email \in Emails /\ request[r].user \in Users
          /\ \A o \in Requests \ {r} :
               /\ request[o].user # request[r].user
               /\ request[o].pc \in RegisterPc =>
                    AddressOf[request[o].email] # AddressOf[request[r].email]
      BY <1>h, <3>1 DEF Holds, HoldsAddress
    <3>5. \A o \in Requests \ {r} :
               /\ request'[o].user # request'[r].user
               /\ request'[o].pc \in RegisterPc =>
                    AddressOf[request'[o].email] # AddressOf[request'[r].email]
      BY <1>n, <1>o, <2>1, <3>4
    <3>6. QED  BY <2>1, <3>2, <3>3, <3>4, <3>5 DEF HoldsAddress
  <2>3. HoldsToken(r)'
    BY <1>h, <1>i, <1>n, <1>o, <2>1 DEF Holds, HoldsToken, Spared
  <2>4. HoldsTenant(r)'
    BY <1>h, <1>i, <1>n, <1>o, <2>1 DEF Holds, HoldsTenant, Spared
  <2>5. HoldsTokens(r)'
    <3> SUFFICES ASSUME request'[r].pc = "resend"
                 PROVE  HoldsTokens(r)'
      BY DEF HoldsTokens
    <3>1. request[r].pc = "resend"
      BY <1>i, <2>1
    <3>2. /\ request[r].email \in Emails
          /\ request[r].user \in Accounts
          /\ AddressOf[users[request[r].user].email] = AddressOf[request[r].email]
          /\ Unused(request[r].user) \subseteq request[r].hit
          /\ \A v \in request[r].hit : verifications[v].user = request[r].user
          /\ \A o \in Requests \ {r} :
               request[o].pc = "resend" =>
                 AddressOf[request[o].email] # AddressOf[request[r].email]
      BY <1>h, <3>1 DEF Holds, HoldsTokens
    <3>3. request[r].user # None /\ request[r].hit \subseteq Verifications
      BY <1>n, <1>t, <3>2 DEF Accounts, RequestRecord
    <3>4. \A v \in Verifications :
            verifications'[v].user = request'[r].user /\ verifications'[v].status # "used"
              => v \in request'[r].hit
      BY <2>1, <3>1, <3>2 DEF Spared
    <3>5. \A v \in request'[r].hit : verifications'[v].user = request'[r].user
      BY <2>1, <3>2, <3>3 DEF Spared
    <3>6. /\ request'[r].user \in Accounts'
          /\ AddressOf[users'[request'[r].user].email] = AddressOf[request'[r].email]
      BY <2>1, <3>2 DEF Spared
    <3>7. \A o \in Requests \ {r} :
               request'[o].pc = "resend" =>
                 AddressOf[request'[o].email] # AddressOf[request'[r].email]
      BY <1>o, <2>1, <3>2
    <3>8. Unused(request[r].user)' \subseteq request'[r].hit
      BY <3>4 DEF Unused
    <3>9. QED  BY <2>1, <3>2, <3>5, <3>6, <3>7, <3>8 DEF HoldsTokens
  <2>6. ActsForAccount(r)'
    BY <1>h, <1>i, <2>1 DEF Holds, ActsForAccount, Spared
  <2>7. KnowsHome(r)'
    BY <1>h, <1>i, <2>1 DEF Holds, ActsForAccount, KnowsHome, Spared
  <2>8. QED  BY <2>2, <2>3, <2>4, <2>5, <2>6, <2>7 DEF Holds
<1> QED
  BY <1>1, <1>2

\* A step that leaves users and tokens as they are spares everybody.
LEMMA TablesSpare ==
  ASSUME IInv, UNCHANGED <<users, verifications, home>>, NEW r \in Requests,
         request[r].pc \in RegisterPc \cup {"workspace", "join"} =>
           tenants'[request[r].tenant] = None
  PROVE  Spared(r)
<1>1. Accounts' = Accounts
  BY DEF Accounts
<1>2. Holds(r)
  BY DEF IInv, Reserved
<1>3. request[r].pc \in RegisterPc =>
        /\ request[r].user \notin Accounts'
        /\ \A w \in Accounts' : AddressOf[users'[w].email] # AddressOf[request[r].email]
  BY <1>1, <1>2 DEF Holds, HoldsAddress, Found
<1>4. QED
  BY <1>1, <1>2, <1>3 DEF Spared, Holds, HoldsToken, Unused

LEMMA FinishRegisterSpares ==
  ASSUME IInv, NEW r \in Requests, FinishRegister(r), NEW o \in Requests \ {r}
  PROVE  Spared(o)
<1>t. TypeOK
  BY DEF IInv
<1>n. None \notin Emails /\ None \notin Users
  BY RegistrationAssumption
<1>0. Holds(r) /\ Holds(o) /\ request[r].pc = "finish"
  BY DEF IInv, Reserved, FinishRegister
<1>1. PICK u \in Users, e \in Emails, t \in Tenants, v \in Verifications :
        request[r].user = u /\ request[r].email = e
          /\ request[r].tenant = t /\ request[r].token = v
  BY <1>0 DEF Holds, HoldsAddress, HoldsToken, HoldsTenant, RegisterPc
<1>2. /\ u \notin Accounts /\ verifications[v].user = None
      /\ request[o].user # u /\ request[o].token # v /\ request[o].tenant # t
      /\ request[o].pc \in RegisterPc => AddressOf[request[o].email] # AddressOf[e]
  BY <1>0, <1>1 DEF Holds, HoldsAddress, HoldsToken, HoldsTenant, RegisterPc
<1>3. /\ users'[u] = [email |-> e, verified |-> FALSE]
      /\ \A w \in Users \ {u} : users'[w] = users[w] /\ home'[w] = home[w]
      /\ \A x \in Tenants \ {t} : tenants'[x] = tenants[x]
      /\ verifications'[v] = [user |-> u, status |-> "unused"]
      /\ \A x \in Verifications \ {v} : verifications'[x] = verifications[x]
  BY <1>1, <1>t DEF FinishRegister, Join, Issued, TypeOK
<1>4. Accounts' = Accounts \cup {u}
  BY <1>3, <1>n DEF Accounts
<1>5. ASSUME request[o].pc \in RegisterPc
      PROVE  /\ request[o].user \notin Accounts'
             /\ \A w \in Accounts' : AddressOf[users'[w].email] # AddressOf[request[o].email]
  <2>1. \A w \in Accounts : AddressOf[users[w].email] # AddressOf[request[o].email]
    BY <1>0, <1>5 DEF Holds, HoldsAddress, Found
  <2>2. request[o].user \notin Accounts /\ Accounts \subseteq Users
    BY <1>0, <1>5 DEF Holds, HoldsAddress, Accounts
  <2>3. QED  BY <1>2, <1>3, <1>4, <1>5, <2>1, <2>2
<1>6. request[o].pc = "resend" =>
         \A x \in Verifications :
             /\ verifications'[x].user = request[o].user
             /\ verifications'[x].status # "used"
             => x \in Unused(request[o].user)
  BY <1>2, <1>3 DEF Unused
<1>7. /\ request[o].pc \in RegisterPc \cup {"resend"} =>
           verifications'[request[o].token].user = None
      /\ request[o].pc \in RegisterPc \cup {"workspace", "join"} =>
           tenants'[request[o].tenant] = None
  BY <1>0, <1>2, <1>3 DEF Holds, HoldsToken, HoldsTenant
<1>8. /\ Accounts \subseteq Accounts'
      /\ \A w \in Accounts : users'[w] = users[w] /\ home'[w] = home[w]
      /\ \A x \in Verifications :
           verifications[x].user # None => verifications'[x].user = verifications[x].user
  BY <1>2, <1>3, <1>4 DEF Accounts
<1> QED
  BY <1>5, <1>6, <1>7, <1>8 DEF Spared

\* A token that is used up or runs out is nobody's reservation.
LEMMA TokenSpares ==
  ASSUME IInv, UNCHANGED <<tenants, home>>,
         \A u \in Users : /\ users'[u].email = users[u].email
                          /\ users[u].verified => users'[u].verified,
         \A v \in Verifications :
             /\ verifications'[v].user = verifications[v].user
             /\ verifications'[v].status # "used" => verifications[v].status # "used",
         NEW o \in Requests
  PROVE  Spared(o)
<1>1. Accounts' = Accounts /\ Accounts \subseteq Users
  BY DEF Accounts
<1>2. Holds(o)
  BY DEF IInv, Reserved
<1>3. ASSUME request[o].pc \in RegisterPc
      PROVE  /\ request[o].user \notin Accounts'
             /\ \A w \in Accounts' : AddressOf[users'[w].email] # AddressOf[request[o].email]
  BY <1>1, <1>2, <1>3 DEF Holds, HoldsAddress, Found
<1>4. /\ request[o].pc \in RegisterPc \cup {"resend"} =>
           verifications'[request[o].token].user = None
      /\ request[o].pc \in RegisterPc \cup {"workspace", "join"} =>
           tenants'[request[o].tenant] = None
  BY <1>2 DEF Holds, HoldsToken, HoldsTenant
<1>5. QED
  BY <1>1, <1>3, <1>4 DEF Spared, Unused

LEMMA VerifySpares ==
  ASSUME IInv, NEW r \in Requests, Verify(r), NEW o \in Requests
  PROVE  Spared(o)
<1>1. TypeOK
  BY DEF IInv
<1>2. \A u \in Users : /\ users'[u].email = users[u].email
                       /\ users[u].verified => users'[u].verified
  BY <1>1 DEF Verify, TypeOK, UserRecord
<1>3. \A v \in Verifications :
        /\ verifications'[v].user = verifications[v].user
        /\ verifications'[v].status # "used" => verifications[v].status # "used"
  BY <1>1 DEF Verify, TypeOK, VerificationRecord
<1>4. UNCHANGED <<tenants, home>>
  BY DEF Verify
<1>5. QED  BY <1>2, <1>3, <1>4, TokenSpares

LEMMA ResendSpares ==
  ASSUME IInv, NEW r \in Requests, Resend(r), NEW o \in Requests \ {r}
  PROVE  Spared(o)
<1>t. TypeOK
  BY DEF IInv
<1>n. None \notin Users
  BY RegistrationAssumption
<1>0. Holds(r) /\ Holds(o) /\ request[r].pc = "resend"
  BY DEF IInv, Reserved, Resend
<1>1. PICK v \in Verifications, u \in Accounts : request[r].token = v /\ request[r].user = u
  BY <1>0 DEF Holds, HoldsToken, HoldsTokens
<1> DEFINE hit == request[r].hit
<1>2. /\ verifications[v].user = None
      /\ AddressOf[users[u].email] = AddressOf[request[r].email]
      /\ request[o].token # v
      /\ \A x \in hit : verifications[x].user = u
  BY <1>0, <1>1 DEF Holds, HoldsToken, HoldsTokens
<1>3. UNCHANGED <<users, tenants, memberships, older, home, sessions>>
  BY DEF Resend
<1>4. verifications' = Issued(v, u, hit)
  BY <1>1 DEF Resend
<1> HIDE DEF hit
<1>5. /\ verifications'[v] = [user |-> u, status |-> "unused"]
      /\ \A x \in Verifications \ {v} :
           /\ verifications'[x].user = verifications[x].user
           /\ verifications'[x].status = IF x \in hit THEN "used" ELSE verifications[x].status
  BY <1>4, <1>t DEF Issued, TypeOK, VerificationRecord
<1>6. Accounts' = Accounts
  BY <1>3 DEF Accounts
<1>7. ASSUME request[o].pc \in RegisterPc
      PROVE  /\ request[o].user \notin Accounts'
             /\ \A w \in Accounts' : AddressOf[users'[w].email] # AddressOf[request[o].email]
  BY <1>0, <1>3, <1>6, <1>7 DEF Holds, HoldsAddress, Found
<1>8. /\ request[o].pc \in RegisterPc \cup {"resend"} =>
           verifications'[request[o].token].user = None
      /\ request[o].pc \in RegisterPc \cup {"workspace", "join"} =>
           tenants'[request[o].tenant] = None
  BY <1>0, <1>2, <1>3, <1>5 DEF Holds, HoldsToken, HoldsTenant
<1>9. ASSUME request[o].pc = "resend", NEW x \in Verifications,
             verifications'[x].user = request[o].user, verifications'[x].status # "used"
      PROVE  x \in Unused(request[o].user)
  <2>1. request[o].user # u
    BY <1>0, <1>1, <1>2, <1>9 DEF Holds, HoldsTokens
  <2>2. x # v
    BY <1>5, <1>9, <2>1
  <2>3. QED  BY <1>5, <1>9, <2>2 DEF Unused
<1>10. \A x \in Verifications :
           verifications[x].user # None => verifications'[x].user = verifications[x].user
  BY <1>2, <1>5
<1> QED
  BY <1>3, <1>6, <1>7, <1>8, <1>9, <1>10 DEF Spared

\* A request that begins takes nothing that another one holds.
LEMMA BeginHolds ==
  ASSUME IInv, UNCHANGED tables, NEW r \in Requests, NEW q,
         request' = [request EXCEPT ![r] = q], Holds(r)',
         \A o \in Requests \ {r} :
             /\ request[o].pc \in RegisterPc =>
                  /\ q.user # request[o].user
                  /\ q.pc \in RegisterPc => AddressOf[q.email] # AddressOf[request[o].email]
             /\ request[o].pc \in RegisterPc \cup {"resend"} => q.token # request[o].token
             /\ request[o].pc \in RegisterPc \cup {"workspace", "join"} =>
                  q.tenant # request[o].tenant
             /\ request[o].pc = "resend" /\ q.pc = "resend" =>
                  AddressOf[q.email] # AddressOf[request[o].email]
  PROVE  Reserved'
<1> SUFFICES ASSUME NEW o \in Requests \ {r} PROVE Holds(o)'
  BY DEF Reserved
<1>t. request \in [Requests -> RequestRecord]
  BY DEF IInv, TypeOK
<1>1. /\ request'[r] = q
      /\ \A p \in Requests \ {r} : request'[p] = request[p]
  BY <1>t
<1>2. Holds(o)
  BY DEF IInv, Reserved
<1>3. UNCHANGED <<users, tenants, verifications, home>>
  BY DEF tables
<1>4. Accounts' = Accounts
  BY <1>3 DEF Accounts
<1>5. request'[o] = request[o]
  BY <1>1
<1>6. HoldsAddress(o)'
  <2>1. Found(request[o].email)' = Found(request[o].email)
    BY <1>3, <1>4, <1>5 DEF Found
  <2>2. QED  BY <1>1, <1>2, <1>4, <1>5, <2>1 DEF Holds, HoldsAddress
<1>7. HoldsToken(o)'
  BY <1>1, <1>2, <1>3 DEF Holds, HoldsToken
<1>8. HoldsTenant(o)'
  BY <1>1, <1>2, <1>3 DEF Holds, HoldsTenant
<1>9. HoldsTokens(o)'
  <2>1. Unused(request[o].user)' = Unused(request[o].user)
    BY <1>3, <1>5 DEF Unused
  <2>2. QED  BY <1>1, <1>2, <1>3, <1>4, <1>5, <2>1 DEF Holds, HoldsTokens
<1>10. ActsForAccount(o)' /\ KnowsHome(o)'
  BY <1>2, <1>3, <1>4, <1>5 DEF Holds, ActsForAccount, KnowsHome
<1> QED
  BY <1>6, <1>7, <1>8, <1>9, <1>10 DEF Holds

LEMMA ClientHolds ==
  ASSUME IInv, NEW r \in Requests, ClientStep(r)
  PROVE  Reserved'
<1>n. None \notin Users \cup Tenants \cup Verifications
  BY RegistrationAssumption
<1>t. TypeOK
  BY DEF IInv
<1>h. \A o \in Requests : Holds(o)
  BY DEF IInv, Reserved
<1>a. Accounts \subseteq Users
  BY DEF Accounts
<1> DEFINE Untaken(q) ==
         \A o \in Requests \ {r} :
             /\ request[o].pc \in RegisterPc =>
                  /\ q.user # request[o].user
                  /\ q.pc \in RegisterPc => AddressOf[q.email] # AddressOf[request[o].email]
             /\ request[o].pc \in RegisterPc \cup {"resend"} => q.token # request[o].token
             /\ request[o].pc \in RegisterPc \cup {"workspace", "join"} =>
                  q.tenant # request[o].tenant
             /\ request[o].pc = "resend" /\ q.pc = "resend" =>
                  AddressOf[q.email] # AddressOf[request[o].email]
\* What no request of another kind can clash with.
<1>c. \A o \in Requests :
        /\ request[o].pc \in RegisterPc =>
             request[o].user \in Users \ Accounts
        /\ request[o].pc \in RegisterPc \cup {"resend"} =>
             request[o].token # None /\ verifications[request[o].token].user = None
        /\ request[o].pc \in RegisterPc \cup {"workspace", "join"} =>
             request[o].tenant # None
  BY <1>h, <1>n DEF Holds, HoldsAddress, HoldsToken, HoldsTenant
<1>1. ASSUME NEW e \in Emails, BeginResend(r, e) PROVE Reserved'
  <2>1. PICK u \in Found(e), v \in Verifications :
          /\ FreshToken(v)
          /\ request' = [request EXCEPT ![r] =
               [Idle EXCEPT !.pc = "resend", !.email = e, !.user = u, !.token = v,
                            !.hit = Unused(u)]]
    BY <1>1 DEF BeginResend
  <2> DEFINE q == [Idle EXCEPT !.pc = "resend", !.email = e, !.user = u, !.token = v,
                               !.hit = Unused(u)]
  <2>2. /\ q.pc = "resend" /\ q.email = e /\ q.user = u /\ q.token = v
        /\ q.hit = Unused(u) /\ q.tenant = None
    BY DEF Idle
  <2>3. request' = [request EXCEPT ![r] = q]
    BY <2>1
  <2> HIDE DEF q
  <2>4. /\ UNCHANGED tables /\ u \in Accounts
        /\ AddressOf[users[u].email] = AddressOf[e]
        /\ verifications[v].user = None
        /\ \A o \in Requests : request[o].token # v
        /\ \A o \in Requests \ {r} :
             request[o].pc = "resend" => AddressOf[request[o].email] # AddressOf[e]
    BY <1>1, <2>1 DEF BeginResend, Found, FreshToken, SubjectFree
  <2>5. /\ request'[r] = q
        /\ \A o \in Requests \ {r} : request'[o] = request[o]
        /\ UNCHANGED <<users, tenants, verifications, home>>
        /\ Accounts' = Accounts
    BY <1>t, <2>3, <2>4 DEF TypeOK, tables, Accounts
  <2>6. Untaken(q)
    BY <1>c, <1>n, <2>2, <2>4 DEF RegisterPc
  <2>7. HoldsTokens(r)'
    <3>1. \A x \in Verifications : x \in Unused(u) <=>
            verifications[x].user = u /\ verifications[x].status # "used"
      BY DEF Unused
    <3>2. Unused(u)' = Unused(u)
      BY <2>5 DEF Unused
    <3>3. \A x \in Unused(u) : verifications'[x].user = u
      BY <2>5 DEF Unused
    <3>4. Unused(request[r].user)' = Unused(u)
      BY <2>2, <2>5 DEF Unused
    <3>5. QED  BY <2>2, <2>4, <2>5, <3>3, <3>4 DEF HoldsTokens
  <2>8. /\ HoldsAddress(r)' /\ HoldsToken(r)' /\ HoldsTenant(r)'
        /\ ActsForAccount(r)' /\ KnowsHome(r)'
    BY <2>2, <2>4, <2>5
    DEF HoldsAddress, HoldsToken, HoldsTenant, ActsForAccount, KnowsHome, RegisterPc
  <2>9. QED  BY <2>3, <2>4, <2>6, <2>7, <2>8, BeginHolds DEF Holds
<1>2. ASSUME NEW e \in Emails, BeginLogin(r, e) PROVE Reserved'
  <2>1. PICK u \in Found(e) :
          /\ MayLogin(u)
          /\ request' = [request EXCEPT ![r] =
               [Idle EXCEPT !.pc = "login", !.email = e, !.user = u]]
    BY <1>2 DEF BeginLogin
  <2> DEFINE q == [Idle EXCEPT !.pc = "login", !.email = e, !.user = u]
  <2>2. q.pc = "login" /\ q.user = u /\ q.tenant = None /\ q.token = None
    BY DEF Idle
  <2>3. request' = [request EXCEPT ![r] = q]
    BY <2>1
  <2> HIDE DEF q
  <2>4. UNCHANGED tables /\ u \in Accounts /\ users[u].verified
    BY <1>2, <2>1 DEF BeginLogin, Found, MayLogin
  <2>5. request'[r] = q /\ UNCHANGED users /\ Accounts' = Accounts
    BY <1>t, <2>3, <2>4 DEF TypeOK, tables, Accounts
  <2>6. Untaken(q)
    BY <1>c, <1>n, <2>2, <2>4 DEF RegisterPc
  <2>7. Holds(r)'
    BY <2>2, <2>4, <2>5
    DEF Holds, HoldsAddress, HoldsToken, HoldsTenant, HoldsTokens, ActsForAccount, KnowsHome,
        RegisterPc
  <2>8. QED  BY <2>3, <2>4, <2>6, <2>7, BeginHolds
<1>3. ASSUME NEW e \in Emails, NEW g \in Slugs, BeginRegister(r, e, g) PROVE Reserved'
  <2>1. PICK u \in Users, t \in Tenants, v \in Verifications :
          /\ FreshUser(u) /\ FreshTenant(t) /\ FreshToken(v)
          /\ request' = [request EXCEPT ![r] =
               [Idle EXCEPT !.pc = "user", !.email = e, !.slug = g,
                            !.user = u, !.tenant = t, !.token = v]]
    BY <1>3 DEF BeginRegister
  <2> DEFINE q == [Idle EXCEPT !.pc = "user", !.email = e, !.slug = g,
                               !.user = u, !.tenant = t, !.token = v]
  <2>2. /\ q.pc = "user" /\ q.email = e /\ q.slug = g
        /\ q.user = u /\ q.tenant = t /\ q.token = v /\ q.old = {}
    BY DEF Idle
  <2>3. request' = [request EXCEPT ![r] = q]
    BY <2>1
  <2> HIDE DEF q
  <2>4. /\ UNCHANGED tables /\ Found(e) = {}
        /\ u \notin Accounts /\ tenants[t] = None /\ verifications[v].user = None
        /\ \A o \in Requests :
             request[o].user # u /\ request[o].tenant # t /\ request[o].token # v
        /\ \A o \in Requests \ {r} :
             request[o].pc \in RegisterPc => AddressOf[request[o].email] # AddressOf[e]
    BY <1>3, <2>1 DEF BeginRegister, FreshUser, FreshTenant, FreshToken, SubjectFree
  <2>5. /\ request'[r] = q
        /\ \A o \in Requests \ {r} : request'[o] = request[o]
        /\ UNCHANGED <<users, tenants, verifications, home>>
        /\ Accounts' = Accounts
    BY <1>t, <2>3, <2>4 DEF TypeOK, tables, Accounts
  <2>6. Untaken(q)
    BY <2>2, <2>4
  <2>7. Found(request[r].email)' = {}
    BY <2>2, <2>4, <2>5 DEF Found
  <2>8. HoldsAddress(r)' /\ HoldsToken(r)' /\ HoldsTenant(r)'
    BY <2>2, <2>4, <2>5, <2>7 DEF HoldsAddress, HoldsToken, HoldsTenant
  <2>9. HoldsTokens(r)' /\ ActsForAccount(r)' /\ KnowsHome(r)'
    BY <2>2, <2>5 DEF HoldsTokens, ActsForAccount, KnowsHome
  <2>10. QED  BY <2>3, <2>4, <2>6, <2>8, <2>9, BeginHolds DEF Holds
<1>4. ASSUME NEW v \in Verifications, BeginVerify(r, v) PROVE Reserved'
  <2> DEFINE q == [Idle EXCEPT !.pc = "verify", !.token = v]
  <2>1. q.pc = "verify" /\ q.token = v /\ q.user = None /\ q.tenant = None
    BY DEF Idle
  <2>2. /\ request' = [request EXCEPT ![r] = q]
        /\ UNCHANGED tables /\ verifications[v].user # None
    BY <1>4 DEF BeginVerify
  <2> HIDE DEF q
  <2>3. request'[r] = q /\ UNCHANGED verifications
    BY <1>t, <2>2 DEF TypeOK, tables
  <2>4. Untaken(q)
    BY <1>c, <1>n, <2>1, <2>2 DEF RegisterPc
  <2>5. Holds(r)'
    BY <2>1, <2>2, <2>3
    DEF Holds, HoldsAddress, HoldsToken, HoldsTenant, HoldsTokens, ActsForAccount, KnowsHome,
        RegisterPc
  <2>6. QED  BY <2>2, <2>4, <2>5, BeginHolds
<1>5. ASSUME NEW s \in Sessions, NEW g \in Slugs, BeginWorkspace(r, s, g) PROVE Reserved'
  <2>1. PICK t \in Tenants :
          /\ FreshTenant(t)
          /\ request' = [request EXCEPT ![r] =
               [Idle EXCEPT !.pc = "workspace", !.slug = g, !.tenant = t,
                            !.user = sessions[s].user, !.old = Begun(sessions[s].user)]]
    BY <1>5 DEF BeginWorkspace
  <2>2. PICK u \in Accounts : u = sessions[s].user
    BY <1>5 DEF BeginWorkspace, IInv, Sound, SignedIn
  <2> DEFINE q == [Idle EXCEPT !.pc = "workspace", !.slug = g, !.tenant = t, !.user = u,
                               !.old = Begun(u)]
  <2>3. /\ q.pc = "workspace" /\ q.slug = g /\ q.tenant = t /\ q.user = u /\ q.token = None
        /\ q.old = Begun(u)
    BY DEF Idle
  <2>4. request' = [request EXCEPT ![r] = q]
    BY <2>1, <2>2
  <2> HIDE DEF q
  <2>5. /\ UNCHANGED tables /\ tenants[t] = None
        /\ \A o \in Requests : request[o].tenant # t
    BY <1>5, <2>1 DEF BeginWorkspace, FreshTenant
  <2>6. /\ request'[r] = q
        /\ \A o \in Requests \ {r} : request'[o] = request[o]
        /\ UNCHANGED <<tenants, home>> /\ Accounts' = Accounts
    BY <1>t, <2>4, <2>5 DEF TypeOK, tables, Accounts
  <2>7. Untaken(q)
    BY <1>c, <1>n, <2>2, <2>3, <2>5 DEF RegisterPc
  <2>8. home[u] \in q.old
    BY <2>2, <2>3 DEF Begun, IInv, Sound, Homes
  <2>9. Holds(r)'
    BY <2>2, <2>3, <2>5, <2>6, <2>8
    DEF Holds, HoldsAddress, HoldsToken, HoldsTenant, HoldsTokens, ActsForAccount, KnowsHome,
        RegisterPc
  <2>10. QED  BY <2>4, <2>5, <2>7, <2>9, BeginHolds
<1> QED
  BY <1>1, <1>2, <1>3, <1>4, <1>5 DEF ClientStep

LEMMA ReadTenantsHolds ==
  ASSUME IInv, NEW r \in Requests, ReadTenants(r)
  PROVE  Reserved'
<1>t. request \in [Requests -> RequestRecord]
  BY DEF IInv, TypeOK
<1>h. \A o \in Requests : Holds(o)
  BY DEF IInv, Reserved
<1>1. PICK u \in Accounts : request[r].user = u
  BY <1>h DEF ReadTenants, Holds, ActsForAccount
<1>2. FirstTenant(u) = home[u] /\ home[u] \in Tenants /\ tenants[home[u]] # None
  BY FirstIsHome
<1> DEFINE q == [request[r] EXCEPT !.pc = "open", !.tenant = home[u]]
<1>3. /\ q.pc = "open" /\ q.user = u /\ q.tenant = home[u] /\ q.token = request[r].token
  BY <1>1, <1>t DEF RequestRecord
<1>4. request' = [request EXCEPT ![r] = q] /\ UNCHANGED tables
  BY <1>1, <1>2 DEF ReadTenants
<1> HIDE DEF q
<1>5. request'[r] = q /\ UNCHANGED <<users, home>> /\ Accounts' = Accounts
  BY <1>4, <1>t DEF tables, Accounts
<1>6. users[u].verified
  BY <1>1, <1>h DEF ReadTenants, Holds, ActsForAccount
<1>7. Holds(r)'
  BY <1>3, <1>5, <1>6
  DEF Holds, HoldsAddress, HoldsToken, HoldsTenant, HoldsTokens, ActsForAccount, KnowsHome,
      RegisterPc
\* The home is committed, so nobody is about to create it.
<1>8. ASSUME NEW o \in Requests \ {r}
      PROVE  /\ request[o].pc \in RegisterPc =>
                  /\ q.user # request[o].user
                  /\ q.pc \in RegisterPc => AddressOf[q.email] # AddressOf[request[o].email]
             /\ request[o].pc \in RegisterPc \cup {"resend"} => q.token # request[o].token
             /\ request[o].pc \in RegisterPc \cup {"workspace", "join"} =>
                  q.tenant # request[o].tenant
             /\ request[o].pc = "resend" /\ q.pc = "resend" =>
                  AddressOf[q.email] # AddressOf[request[o].email]
  BY <1>2, <1>3, <1>h DEF Holds, HoldsAddress, HoldsToken, HoldsTenant, RegisterPc
<1> QED
  BY <1>4, <1>7, <1>8, BeginHolds

LEMMA ReservedStep == IInv /\ [Next]_vars => Reserved'
<1> SUFFICES ASSUME IInv, [Next]_vars PROVE Reserved'
  OBVIOUS
<1>t. TypeOK' /\ request \in [Requests -> RequestRecord]
  BY TypeStep DEF IInv, TypeOK
<1>h. \A o \in Requests : Holds(o)
  BY DEF IInv, Reserved
\* A request that ends, while the others are spared.
<1>1. ASSUME NEW r \in Requests, End(r), \A o \in Requests \ {r} : Spared(o)
      PROVE  Reserved'
  <2>1. request'[r] = Idle /\ \A o \in Requests \ {r} : request'[o] = request[o]
    BY <1>1, <1>t DEF End
  <2>2. \A o \in Requests : Continues(o)
    BY <2>1 DEF Continues
  <2>3. Holds(r)'
    BY <2>1 DEF Holds, HoldsAddress, HoldsToken, HoldsTenant, HoldsTokens, ActsForAccount,
       KnowsHome, Idle, RegisterPc
  <2>4. QED  BY <1>1, <1>t, <2>2, <2>3, HoldsKept DEF Reserved
\* Tables that nobody reserves a row of.
<1>2. ASSUME UNCHANGED <<users, tenants, verifications, home>>, \A o \in Requests : Continues(o)
      PROVE  Reserved'
  <2>1. ASSUME NEW o \in Requests PROVE Spared(o)
    BY <1>2, <1>h, TablesSpare DEF Holds, HoldsTenant
  <2>2. QED  BY <1>2, <1>t, <2>1, HoldsKept DEF Reserved
<1>3. ASSUME NEW r \in Requests, InsertUser(r) \/ InsertTenant(r) \/ Abort(r) \/ OpenSession(r)
      PROVE  Reserved'
  <2>1. UNCHANGED <<users, tenants, verifications, home>>
    BY <1>3 DEF InsertUser, InsertTenant, SlugConflict, Abort, OpenSession, tables
  <2>2. ASSUME End(r) PROVE \A o \in Requests : Continues(o)
    BY <1>t, <2>2 DEF End, Continues
  <2>3. ASSUME NEW pc, Proceed(r, pc),
               \/ request[r].pc \in RegisterPc /\ pc \in RegisterPc
               \/ request[r].pc = "workspace" /\ pc = "join"
        PROVE  \A o \in Requests : Continues(o)
    <3>1. \A o \in Requests \ {r} : request'[o] = request[o]
      BY <1>t, <2>3 DEF Proceed
    <3>2. request'[r] = [request[r] EXCEPT !.pc = pc]
      BY <1>t, <2>3 DEF Proceed
    <3>3. request'[r].pc = pc
      BY <1>t, <3>2 DEF RequestRecord
    <3>4. QED  BY <2>3, <3>1, <3>2, <3>3 DEF Continues
  <2>4. \A o \in Requests : Continues(o)
    BY <1>3, <2>2, <2>3, Pcs DEF InsertUser, InsertTenant, SlugConflict, Abort, OpenSession
  <2>5. QED  BY <1>2, <2>1, <2>4
<1>4. ASSUME NEW r \in Requests, JoinWorkspace(r), NEW o \in Requests \ {r} PROVE Spared(o)
  <2>1. request[r].tenant \in Tenants /\ UNCHANGED <<users, verifications, home>>
    BY <1>4, <1>h DEF JoinWorkspace, Holds, HoldsTenant
  <2>2. tenants' = [tenants EXCEPT ![request[r].tenant] = request[r].slug]
    BY <1>4 DEF JoinWorkspace, Join
  <2>3. request[o].pc \in RegisterPc \cup {"workspace", "join"} =>
          tenants'[request[o].tenant] = None
    BY <1>4, <1>h, <2>1, <2>2 DEF Holds, HoldsTenant, IInv, TypeOK, JoinWorkspace
  <2>4. QED  BY <2>1, <2>3, TablesSpare
<1>5. ASSUME NEW r \in Requests,
             FinishRegister(r) \/ Verify(r) \/ Resend(r) \/ JoinWorkspace(r)
      PROVE  Reserved'
  <2>1. End(r)
    BY <1>5 DEF FinishRegister, Verify, Resend, JoinWorkspace
  <2>2. \A o \in Requests \ {r} : Spared(o)
    BY <1>4, <1>5, FinishRegisterSpares, VerifySpares, ResendSpares
  <2>3. QED  BY <1>1, <2>1, <2>2
<1>6. ASSUME NEW v \in Verifications, ExpireToken(v) PROVE Reserved'
  <2>1. UNCHANGED <<users, tenants, home, request>>
    BY <1>6 DEF ExpireToken
  <2>2. \A x \in Verifications :
          /\ verifications'[x].user = verifications[x].user
          /\ verifications'[x].status # "used" => verifications[x].status # "used"
    BY <1>6 DEF ExpireToken, IInv, TypeOK, VerificationRecord
  <2>3. \A o \in Requests : Spared(o)
    BY <2>1, <2>2, TokenSpares
  <2>4. \A o \in Requests : Continues(o)
    BY <2>1 DEF Continues
  <2>5. QED  BY <1>t, <2>3, <2>4, HoldsKept DEF Reserved
<1>7. ASSUME UNCHANGED <<users, tenants, verifications, home, request>> PROVE Reserved'
  BY <1>2, <1>7 DEF Continues
<1> QED
  BY <1>3, <1>5, <1>6, <1>7, ClientHolds, ReadTenantsHolds
  DEF Next, RequestStep, EndSession, Rest, vars, tables

-----------------------------------------------------------------------------
(***************************************************************************)
(* The theorems.                                                           *)
(***************************************************************************)

LEMMA InitIInv == Init => IInv
<1> SUFFICES ASSUME Init PROVE IInv
  OBVIOUS
<1>1. Accounts = {}
  BY DEF Init, Accounts, NoUser
<1>2. TypeOK
  BY Pcs DEF Init, TypeOK, NoUser, NoVerification, NoSession, Idle, UserRecord,
     VerificationRecord, SessionRecord, RequestRecord
<1>3. Sound
  BY <1>1 DEF Init, Sound, Whole, Owned, OneAccountPerAddress, OneLiveVerification,
     VerifiedByToken, SignedIn, Homes, InTenant, NoUser, NoVerification, NoSession
<1>4. Reserved
  BY DEF Init, Reserved, Holds, HoldsAddress, HoldsToken, HoldsTenant, HoldsTokens,
     ActsForAccount, KnowsHome, Idle, RegisterPc
<1> QED
  BY <1>2, <1>3, <1>4 DEF IInv

THEOREM Invariant == Spec => []IInv
<1>1. IInv /\ [Next]_vars => IInv'
  BY TypeStep, SoundStep, ReservedStep DEF IInv
<1> QED
  BY <1>1, InitIInv, PTL DEF Spec

\* The tables and the requests keep their types.
THEOREM TypeCorrect == Spec => []TypeOK
  BY Invariant, PTL DEF IInv

\* However many registrations of however many spellings of an address run at once,
\* the address has one account.
THEOREM AddressesCorrect == Spec => []OneAccountPerAddress
<1>1. IInv => OneAccountPerAddress
  BY DEF IInv, Sound
<1> QED
  BY <1>1, Invariant, PTL

\* An account is committed with its tenant and its token, and a tenant with its one
\* owner, whichever requests are aborted where.
THEOREM AccountsCorrect == Spec => []AccountsComeWhole
<1>1. ASSUME IInv PROVE AccountsComeWhole
  <2> DEFINE Owners(t) == {u \in Accounts : t \in memberships[u]}
  <2>1. Whole /\ Owned
    BY <1>1 DEF IInv, Sound
  <2>2. ASSUME NEW t \in Tenants, tenants[t] # None PROVE Cardinality(Owners(t)) = 1
    <3>1. PICK u \in Accounts : InTenant(u, t)
      BY <2>1, <2>2 DEF Owned
    <3>2. \A w \in Accounts : InTenant(w, t) => w = u
      BY <2>1, <3>1 DEF Owned, Accounts
    <3>3. Owners(t) = {u}
      BY <3>1, <3>2 DEF InTenant
    <3>4. QED  BY <3>3, FS_Singleton
  <2>3. QED  BY <2>1, <2>2 DEF AccountsComeWhole, Whole
<1> QED
  BY <1>1, Invariant, PTL

\* However renewals, verifications and the end of tokens interleave, at most one mail
\* with a working token is out for an account.
THEOREM VerificationsCorrect == Spec => []OneLiveVerification
<1>1. IInv => OneLiveVerification
  BY DEF IInv, Sound
<1> QED
  BY <1>1, Invariant, PTL

\* Who is signed in has verified his address with a token that was mailed to it.
THEOREM SessionsVerified == Spec => []SessionsAreVerified
<1>1. IInv => SessionsAreVerified
  BY DEF IInv, Sound, SignedIn, VerifiedByToken, SessionsAreVerified
<1> QED
  BY <1>1, Invariant, PTL

\* A session is of the tenant its user registered with, in whatever order the tenants
\* he creates are begun and committed around the login.
THEOREM SessionsHome == Spec => []SessionsStayHome
<1>1. IInv => SessionsStayHome
  BY DEF IInv, Sound, Homes, SignedIn, SessionsStayHome
<1> QED
  BY <1>1, Invariant, PTL

=============================================================================
