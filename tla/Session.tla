------------------------------- MODULE Session -------------------------------
(***************************************************************************)
(* One browser's session and the accounts of the server.                   *)
(*                                                                         *)
(* The browser (frontend/src/api/client.ts, context/AuthContext.tsx) keeps *)
(* a token in localStorage and shows a user; the server checks the token   *)
(* of every request and reads the account again (auth/jwt.strategy.ts,     *)
(* common/guards).  Several requests are in flight at once, their answers  *)
(* arrive in any order, an answer may be lost, the page may be reloaded,   *)
(* and accounts change under a running session.                            *)
(***************************************************************************)
EXTENDS Integers, FiniteSets

CONSTANTS
    User,           \* accounts
    Role,           \* their roles (common/enums.ts)
    InitialRole,    \* the role of every account at the start
    RolesFor,       \* the roles that each restricted operation asks for
    MaxRequests,    \* bound: requests that are ever sent
    MaxChanges,     \* bound: changes of an account, tokens that expire
    None            \* no token, no user, no operation

Operation == DOMAIN RolesFor

ASSUME SessionAssumption ==
    /\ InitialRole \in [User -> Role]
    /\ \A op \in Operation : RolesFor[op] \subseteq Role
    /\ MaxRequests \in Nat \ {0} /\ MaxChanges \in Nat
    /\ None \notin User \cup Operation \cup Nat

RequestId == 1 .. MaxRequests

\* A token is known by the login that issued it; 0 is from an earlier visit.
Token == 0 .. MaxRequests

Account == [role : Role, isActive : BOOLEAN]

\* What the browser knows of the user it shows (AuthUser).
Profile == [id : User, role : Role]

\* A request, from its fetch to its answer.  For a login, user is the account
\* that signs in; for an operation it is the user on the screen.
Request ==
    [kind : {"none", "login", "me", "act", "load"},
     step : {"unsent", "sent", "admitted", "answered"},
     op : Operation \cup {None},
     token : Token \cup {None},
     user : User \cup {None},
     account : Account \cup {None},       \* as read by JwtStrategy.validate
     seen : SUBSET Account,               \* what the account was meanwhile
     answer : {"none", "ok", "unauthorized", "forbidden"},
     profile : Profile \cup {None},
     mixed : BOOLEAN,                     \* sent while overlapped
     awaited : BOOLEAN]                   \* the page still waits for it

VARIABLES
    accounts,       \* the users table
    issued,         \* whose each token is, None until it is issued
    expired,        \* tokens past their lifetime
    changes,        \* how often accounts and tokens have changed
    request,        \* every request
    sent,           \* how many have been sent
    stored,         \* the token in localStorage
    shown,          \* the user in the state of AuthProvider
    restoring,      \* its flag loading: the stored token is being validated
    form,           \* the login that the form on the screen waits for
    overlapped,     \* a login was begun while the old session was restored
    acted           \* what was done, for whom, and who was on the screen

server == <<accounts, issued, expired, changes>>
page == <<stored, shown, restoring, form, overlapped>>
vars == <<server, request, sent, page, acted>>

Unsent == [kind |-> "none", step |-> "unsent", op |-> None, token |-> None,
           user |-> None, account |-> None, seen |-> {}, answer |-> "none",
           profile |-> None, mixed |-> FALSE, awaited |-> FALSE]

AccountsOf(token) == IF token = None THEN {} ELSE {accounts[issued[token]]}

\* Mutant: loading is false at first and nothing sets it.
NotLoading(token) == FALSE

\* loading: nothing is shown until the stored token has been validated.
Loading(token) == token # None

\* fetch: the token is the one that is stored now.
Fetch(kind, op, user, token) ==
    [kind |-> kind, step |-> "sent", op |-> op, token |-> token,
     user |-> user, account |-> None, seen |-> AccountsOf(token),
     answer |-> "none", profile |-> None, mixed |-> overlapped,
     awaited |-> TRUE]

Send(kind, op, user, token) ==
    /\ sent < MaxRequests
    /\ sent' = sent + 1
    /\ request' = [request EXCEPT ![sent + 1] =
                     Fetch(kind, op, user, token)]

Awaited(r, kind, answer) ==
    /\ request[r].awaited
    /\ request[r].step = "answered"
    /\ request[r].kind = kind
    /\ request[r].answer = answer

\* The request is over and forgotten.
Settled(r) == [request EXCEPT ![r] = Unsent]

-----------------------------------------------------------------------------
(* The server.                                                             *)

Answered(r, answer, profile) ==
    request' = [request EXCEPT ![r].step = "answered", ![r].answer = answer,
                               ![r].profile = profile]

\* Mutant: the row of the account is sent, without its id.
ProfileOfRow(u) == accounts[u]

ProfileOf(u) == [id |-> u, role |-> accounts[u].role]

\* POST /auth/login
Login(r) ==
    LET u == request[r].user
    IN  /\ request[r].step = "sent"
        /\ request[r].kind = "login"
        /\ \/ /\ accounts[u].isActive
              /\ issued' = [issued EXCEPT ![r] = u]
              /\ Answered(r, "ok", ProfileOf(u))
           \/ /\ Answered(r, "unauthorized", None)  \* a wrong password, or no
              /\ UNCHANGED issued                   \* longer active
        /\ UNCHANGED <<accounts, expired, changes, sent, page, acted>>

\* Mutant: the role is taken from the token's payload.
ValidatedByToken(u) == [role |-> InitialRole[u], isActive |-> TRUE]

\* JwtStrategy.validate reads the account, whatever the token says.
Validated(u) == accounts[u]

\* A route without @Roles() is for every role.
Required(op) == IF op = None THEN Role ELSE RolesFor[op]

Allows(op, account) == account.role \in Required(op)

\* JwtAuthGuard, then RolesGuard.
Guard(r) ==
    LET token == request[r].token
        account == Validated(issued[token])
    IN  /\ request[r].step = "sent"
        /\ request[r].kind # "login"
        /\ \/ /\ token = None \/ token \in expired
              /\ Answered(r, "unauthorized", None)
           \/ /\ token \notin {None} \cup expired
              /\ ~account.isActive
              /\ Answered(r, "unauthorized", None)
           \/ /\ token \notin {None} \cup expired
              /\ account.isActive
              /\ ~Allows(request[r].op, account)
              /\ Answered(r, "forbidden", None)
           \/ /\ token \notin {None} \cup expired
              /\ account.isActive
              /\ Allows(request[r].op, account)
              /\ request' = [request EXCEPT ![r].step = "admitted",
                                            ![r].account = account]
        /\ UNCHANGED <<server, sent, page, acted>>

\* The handler behind the guards; an operation is recorded for the account of
\* the token (createdBy), GET /auth/me reads the profile once more.
Handle(r) ==
    LET u == issued[request[r].token]
    IN  /\ request[r].step = "admitted"
        /\ Answered(r, "ok", ProfileOf(u))
        /\ acted' = IF request[r].kind = "act"
                    THEN acted \cup {[by |-> u, screen |-> request[r].user,
                                      mixed |-> request[r].mixed]}
                    ELSE acted
        /\ UNCHANGED <<server, sent, page>>

\* The role of an account changes, or it is deactivated or activated again.
ChangeAccount(u, account) ==
    /\ changes < MaxChanges
    /\ account # accounts[u]
    /\ changes' = changes + 1
    /\ accounts' = [accounts EXCEPT ![u] = account]
    /\ request' = [r \in RequestId |->
                     IF request[r].token # None /\ issued[request[r].token] = u
                     THEN [request[r] EXCEPT !.seen = @ \cup {account}]
                     ELSE request[r]]
    /\ UNCHANGED <<issued, expired, sent, page, acted>>

Expire(token) ==
    /\ changes < MaxChanges
    /\ changes' = changes + 1
    /\ issued[token] # None
    /\ token \notin expired
    /\ expired' = expired \cup {token}
    /\ UNCHANGED <<accounts, issued, request, sent, page, acted>>

-----------------------------------------------------------------------------
(* The browser.                                                            *)

\* A page that is gone waits for none of its requests.
Forgotten == [r \in RequestId |-> [request[r] EXCEPT !.awaited = FALSE]]

\* GET /auth/me with the stored token.
Validate ==
    /\ stored # None
    /\ sent < MaxRequests
    /\ sent' = sent + 1
    /\ request' = [Forgotten EXCEPT ![sent + 1] =
                     Fetch("me", None, None, stored)]

\* The mount of AuthProvider.
Mount ==
    /\ shown' = None /\ form' = None /\ overlapped' = FALSE
    /\ restoring' = Loading(stored)
    /\ \/ Validate
       \/ stored = None /\ request' = Forgotten /\ UNCHANGED sent
    /\ UNCHANGED <<server, stored, acted>>

\* The page is reloaded, or the browser comes back after a crash.
Reload == Mount

\* The login page is there while nobody is shown, at /login even before the
\* stored token has been validated.
SubmitLogin(u) ==
    /\ shown = None
    /\ form = None
    /\ Send("login", None, u, stored)
    /\ form' = sent + 1
    /\ overlapped' = (overlapped \/ restoring)
    /\ UNCHANGED <<server, stored, shown, restoring, acted>>

\* A page behind RequireAuth; it has a button only for the roles of its
\* operation, as far as the browser knows the role.
Click(op) ==
    /\ shown # None
    /\ ~restoring
    /\ shown.role \in RolesFor[op]
    /\ Send("act", op, shown.id, stored)
    /\ UNCHANGED <<server, page, acted>>

\* A page is opened or its filter changed: a listing that any role may read.
Browse ==
    /\ shown # None
    /\ ~restoring
    /\ Send("load", None, shown.id, stored)
    /\ UNCHANGED <<server, page, acted>>

SignOut ==
    /\ shown # None
    /\ ~restoring
    /\ stored' = None
    /\ shown' = None
    /\ UNCHANGED <<server, request, sent, restoring, form, overlapped, acted>>

\* Mutant: loading is reset by then() instead of finally().
ConcludedForm(r) ==
    /\ UNCHANGED restoring
    /\ form' = IF form = r THEN None ELSE form

\* What follows an answer, or the lack of one: finally and setBusy(false).
Concluded(r) ==
    /\ restoring' = (restoring /\ request[r].kind # "me")
    /\ form' = IF form = r THEN None ELSE form

\* Mutant: any refusal of the request calls onUnauthorized.
EndsSessionAlways(answer) == answer \in {"unauthorized", "forbidden"}

\* The status for which onUnauthorized is called.
EndsSession(answer) == answer = "unauthorized"

\* 401, whichever request it answers and whatever token that one carried.
Unauthorized(r) ==
    /\ request[r].awaited
    /\ request[r].step = "answered"
    /\ EndsSession(request[r].answer)
    /\ stored' = None
    /\ shown' = None
    /\ Concluded(r)
    /\ request' = Settled(r)
    /\ UNCHANGED <<server, sent, overlapped, acted>>

SignedIn(r) ==
    /\ Awaited(r, "login", "ok")
    /\ stored' = r
    /\ shown' = request[r].profile
    /\ form' = None
    /\ request' = Settled(r)
    /\ UNCHANGED <<server, sent, restoring, overlapped, acted>>

Restored(r) ==
    /\ Awaited(r, "me", "ok")
    /\ shown' = request[r].profile
    /\ restoring' = FALSE
    /\ form' = None
    /\ request' = Settled(r)
    /\ UNCHANGED <<server, stored, sent, overlapped, acted>>

\* An operation succeeds: the page loads its list again, even if the user has
\* left it meanwhile.
Done(r) ==
    /\ Awaited(r, "act", "ok")
    /\ \/ /\ sent < MaxRequests
          /\ sent' = sent + 1
          /\ request' = [Settled(r) EXCEPT ![sent + 1] =
               Fetch("load", None, IF shown = None THEN None ELSE shown.id,
                     stored)]
       \/ /\ sent = MaxRequests
          /\ request' = Settled(r)
          /\ UNCHANGED sent
    /\ UNCHANGED <<server, page, acted>>

\* Rows arrive, or the page says that the role is not allowed.
Displayed(r) ==
    /\ \/ Awaited(r, "load", "ok")
       \/ Awaited(r, "act", "forbidden")
    /\ request' = Settled(r)
    /\ UNCHANGED <<server, sent, page, acted>>

Broke(r) == [request EXCEPT ![r].awaited = FALSE]

\* The connection breaks or the server answers 5xx: the promise is rejected,
\* and what the server makes of the request is not known here.
Broken(r) ==
    /\ request[r].awaited
    /\ request' = Broke(r)
    /\ stored' = IF request[r].kind = "me" THEN None ELSE stored
    /\ Concluded(r)
    /\ UNCHANGED <<server, sent, shown, overlapped, acted>>

-----------------------------------------------------------------------------
\* The page has just been mounted, with or without a token of an earlier visit.
Init ==
    /\ accounts = [u \in User |-> [role |-> InitialRole[u], isActive |-> TRUE]]
    /\ expired = {} /\ changes = 0 /\ acted = {}
    /\ shown = None /\ form = None /\ overlapped = FALSE
    /\ \E u \in User \cup {None} :
         /\ issued = [k \in Token |-> IF k = 0 THEN u ELSE None]
         /\ stored = IF u = None THEN None ELSE 0
    /\ restoring = Loading(stored)
    /\ \/ /\ stored = None /\ sent = 0
          /\ request = [r \in RequestId |-> Unsent]
       \/ /\ stored = 0 /\ sent = 1
          /\ request = [r \in RequestId |->
               IF r = 1 THEN Fetch("me", None, None, 0) ELSE Unsent]

Server(r) == Login(r) \/ Guard(r) \/ Handle(r)

Delivery(r) ==
    \/ Unauthorized(r)
    \/ SignedIn(r)
    \/ Restored(r)
    \/ Done(r)
    \/ Displayed(r)
    \/ Broken(r)

Next ==
    \/ \E r \in RequestId : Server(r) \/ Delivery(r)
    \/ \E u \in User, account \in Account : ChangeAccount(u, account)
    \/ \E token \in Token : Expire(token)
    \/ \E u \in User : SubmitLogin(u)
    \/ \E op \in Operation : Click(op)
    \/ Reload
    \/ Browse
    \/ SignOut

Spec == Init /\ [][Next]_vars

\* fetch has no timeout here: the server answers every request, or its
\* connection breaks.  Nothing is assumed of the user or the administrator.
FairSpec == Spec /\ \A r \in RequestId : WF_vars(Server(r) \/ Delivery(r))

-----------------------------------------------------------------------------
SessionTypeOK ==
    /\ accounts \in [User -> Account]
    /\ issued \in [Token -> User \cup {None}]
    /\ expired \subseteq Token
    /\ request \in [RequestId -> Request]
    /\ sent \in 0 .. MaxRequests
    /\ changes \in 0 .. MaxChanges
    /\ stored \in Token \cup {None}
    /\ stored # None => issued[stored] # None
    /\ shown \in Profile \cup {None}
    /\ form \in RequestId \cup {None}
    /\ restoring \in BOOLEAN /\ overlapped \in BOOLEAN

\* "A deactivated account or a role change takes effect immediately"
\* (jwt.strategy.ts:26): what a request is admitted with is what the account
\* was at some moment since the request was sent, never an earlier state of it,
\* and that account was active and had a role the route asks for.
RightsAreCurrent ==
    \A r \in RequestId :
        request[r].step = "admitted" =>
            /\ request[r].account \in request[r].seen
            /\ request[r].account.isActive
            /\ Allows(request[r].op, request[r].account)

\* An operation is booked for the user who was on the screen when its button
\* was pressed, although the token and the user are stored apart and requests
\* of several sessions overlap; only a login at /login before the stored token
\* has been validated can mix them (AuthContext.tsx:38-42).
ActsAsShown == \A a \in acted : a.mixed \/ a.by = a.screen

\* The screen comes back: the restoring of a session ends, and so does the
\* login that the form waits for, whatever becomes of their requests.
ScreenIsReleased ==
    /\ restoring ~> ~restoring
    /\ form # None ~> form = None

\* "Called when the API reports the session is no longer valid" (client.ts:22):
\* the answer to a request that carried the current token ends the session only
\* if that token has expired or its account was, while the request was under
\* way, not active.  Not so for a login that fails, for a connection that breaks
\* while the session is restored, nor for the answer to a request of an earlier
\* token, which ends a later session too.
SessionEndsForAReason ==
    [][ \A r \in RequestId :
          /\ request[r].step = "answered"
          /\ request[r].kind # "login"
          /\ request[r].token = stored
          /\ request[r].awaited /\ ~request'[r].awaited
          /\ stored # None /\ stored' = None
          => \/ stored \in expired
             \/ \E a \in request[r].seen : ~a.isActive
             \/ request[r].kind = "me" /\ request' = Broke(r) ]_vars

=============================================================================
