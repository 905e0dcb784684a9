---------------------------- MODULE SessionProofs ----------------------------
(***************************************************************************)
(* Theorems about Session, for any accounts, roles, operations and number  *)
(* of requests.                                                            *)
(*                                                                         *)
(* Who is on the screen and whose token is stored are two variables that   *)
(* different answers set, so that they agree is not inductive by itself.   *)
(* The invariant follows a user from the login that issued the token,      *)
(* through the profile in its answer or in that of GET /auth/me, to the    *)
(* screen and to the requests that are sent from there.                    *)
(***************************************************************************)
EXTENDS Session, TLAPS

\* Only a request that has been sent is under way.
OnlySent(r) == request[r].step # "unsent" => r <= sent

\* A token that a request carries has been issued, and what its account is now
\* is among what it has been since.
TokenIsIssued(r) ==
    request[r].token # None =>
        /\ issued[request[r].token] # None
        /\ accounts[issued[request[r].token]] \in request[r].seen

\* A login is for an account, and has issued no token before the server sees
\* it.
LoginIsOpen(r) ==
    request[r].kind = "login" =>
        /\ request[r].user \in User
        /\ request[r].step = "sent" => issued[r] = None

\* What the guards have let through.
AdmittedWithRights(r) ==
    request[r].step = "admitted" =>
        /\ request[r].kind # "login"
        /\ request[r].token # None
        /\ request[r].account \in request[r].seen
        /\ request[r].account.isActive
        /\ Allows(request[r].op, request[r].account)

\* The profile of an answer is that of the owner of the token it is about.
ProfileOfOwner(r) ==
    request[r].step = "answered" /\ request[r].answer = "ok" =>
        /\ request[r].profile \in Profile
        /\ request[r].kind = "login" => issued[r] = request[r].profile.id
        /\ request[r].kind # "login" =>
             /\ request[r].token # None
             /\ issued[request[r].token] = request[r].profile.id

\* The guards refuse a token only if it has expired or its account has been
\* inactive.
RefusedForAReason(r) ==
    /\ request[r].step = "answered"
    /\ request[r].answer = "unauthorized"
    /\ request[r].kind # "login"
    /\ request[r].token # None
    => \/ request[r].token \in expired
       \/ \E a \in request[r].seen : ~a.isActive

\* An operation carries the token of the user it is sent for.
SentForOwner(r) ==
    request[r].kind = "act" =>
        \/ request[r].mixed
        \/ request[r].token = None
        \/ issued[request[r].token] = request[r].user

RequestOK(r) ==
    /\ OnlySent(r)
    /\ TokenIsIssued(r)
    /\ LoginIsOpen(r)
    /\ AdmittedWithRights(r)
    /\ ProfileOfOwner(r)
    /\ RefusedForAReason(r)
    /\ SentForOwner(r)

AwaitsLogin(r) == request[r].awaited /\ request[r].kind = "login"

AwaitsProfile(r) == request[r].awaited /\ request[r].kind = "me"

\* The stored token is that of the user on the screen, and stays so when an
\* answer arrives that the page waits for.
ScreenOK ==
    /\ shown # None =>
         overlapped \/ stored = None \/ issued[stored] = shown.id
    /\ \A r \in RequestId : AwaitsLogin(r) /\ restoring => overlapped
    /\ \A r \in RequestId : AwaitsProfile(r) =>
         /\ restoring
         /\ overlapped \/ stored = None \/ stored = request[r].token
    /\ \A r, s \in RequestId : AwaitsProfile(r) /\ AwaitsProfile(s) => r = s

\* A request that has not been sent has issued no token.
NotYetIssued == \A k \in Token : k > sent => issued[k] = None

SessionInv ==
    /\ SessionTypeOK
    /\ \A r \in RequestId : RequestOK(r)
    /\ ScreenOK
    /\ NotYetIssued
    /\ ActsAsShown

-----------------------------------------------------------------------------
(* The operators of the model.                                             *)

\* None is neither a user nor a token.
LEMMA NoneIsNeither == None \notin User /\ None \notin Token
BY SessionAssumption DEF Token

\* A request that nothing was sent for is well formed, and nobody waits for it.
LEMMA UnsentRequest ==
    /\ Unsent \in Request
    /\ Unsent.kind = "none" /\ Unsent.step = "unsent" /\ Unsent.token = None
    /\ ~Unsent.awaited
BY DEF Unsent, Request

\* What fetch sends: the stored token, and what its account is at that moment.
LEMMA FetchedRequest ==
    ASSUME SessionTypeOK,
           NEW kind \in {"login", "me", "act", "load"},
           NEW op \in Operation \cup {None},
           NEW user \in User \cup {None}
    PROVE  LET f == Fetch(kind, op, user, stored)
           IN  /\ f \in Request
               /\ f.kind = kind /\ f.step = "sent" /\ f.op = op
               /\ f.user = user /\ f.token = stored
               /\ stored # None => accounts[issued[stored]] \in f.seen
               /\ f.mixed = overlapped /\ f.awaited
<1>1. AccountsOf(stored) \in SUBSET Account
  BY DEF AccountsOf, SessionTypeOK
<1>2. Fetch(kind, op, user, stored) =
        [kind |-> kind, step |-> "sent", op |-> op, token |-> stored,
         user |-> user, account |-> None, seen |-> AccountsOf(stored),
         answer |-> "none", profile |-> None, mixed |-> overlapped,
         awaited |-> TRUE]
  BY DEF Fetch
<1>3. stored # None => accounts[issued[stored]] \in AccountsOf(stored)
  BY DEF AccountsOf
<1>4. overlapped \in BOOLEAN /\ stored \in Token \cup {None}
  BY DEF SessionTypeOK
<1> QED
  BY <1>1, <1>2, <1>3, <1>4 DEF Request

\* The server answers a request: the others are as they were.
LEMMA AnsweredRequest ==
    ASSUME request \in [RequestId -> Request],
           NEW r \in RequestId,
           NEW answer \in {"none", "ok", "unauthorized", "forbidden"},
           NEW profile \in Profile \cup {None},
           Answered(r, answer, profile)
    PROVE  /\ request' \in [RequestId -> Request]
           /\ \A s \in RequestId : s # r => request'[s] = request[s]
           /\ request'[r].step = "answered"
           /\ request'[r].answer = answer
           /\ request'[r].profile = profile
           /\ request'[r].kind = request[r].kind
           /\ request'[r].op = request[r].op
           /\ request'[r].token = request[r].token
           /\ request'[r].user = request[r].user
           /\ request'[r].account = request[r].account
           /\ request'[r].seen = request[r].seen
           /\ request'[r].mixed = request[r].mixed
           /\ request'[r].awaited = request[r].awaited
<1>1. PICK q \in Request : q = request[r]
  OBVIOUS
<1>2. request' = [request EXCEPT ![r] =
                    [q EXCEPT !.step = "answered", !.answer = answer,
                              !.profile = profile]]
  BY <1>1 DEF Answered
<1>3. [q EXCEPT !.step = "answered", !.answer = answer, !.profile = profile]
        \in Request
  BY DEF Request
<1> QED
  BY <1>1, <1>2, <1>3 DEF Request

\* The page has dealt with an answer: the request is over, the others are as
\* they were.
LEMMA SettledRequest ==
    ASSUME request \in [RequestId -> Request],
           NEW r \in RequestId,
           request' = Settled(r)
    PROVE  /\ request' \in [RequestId -> Request]
           /\ request'[r] = Unsent
           /\ \A s \in RequestId : s # r => request'[s] = request[s]
BY UnsentRequest DEF Settled

\* The page stops to wait for a request: the rest of it is as it was.
LEMMA AbandonedRequest ==
    ASSUME request \in [RequestId -> Request], NEW r \in RequestId
    PROVE  LET q == [request[r] EXCEPT !.awaited = FALSE]
           IN  /\ q \in Request /\ ~q.awaited
               /\ q.kind = request[r].kind /\ q.step = request[r].step
               /\ q.op = request[r].op /\ q.token = request[r].token
               /\ q.user = request[r].user /\ q.account = request[r].account
               /\ q.seen = request[r].seen /\ q.answer = request[r].answer
               /\ q.profile = request[r].profile
               /\ q.mixed = request[r].mixed
<1>1. request[r] \in Request
  OBVIOUS
<1> QED
  BY <1>1 DEF Request

\* Nothing about a request changes but that the page may stop waiting for it.
SameRequest(r) ==
    /\ request'[r].kind = request[r].kind
    /\ request'[r].step = request[r].step
    /\ request'[r].op = request[r].op
    /\ request'[r].token = request[r].token
    /\ request'[r].user = request[r].user
    /\ request'[r].account = request[r].account
    /\ request'[r].seen = request[r].seen
    /\ request'[r].answer = request[r].answer
    /\ request'[r].profile = request[r].profile
    /\ request'[r].mixed = request[r].mixed
    /\ request'[r].awaited => request[r].awaited

\* A request that is the same, or over, stays in order as long as the server's
\* tables do; tokens that expire do not matter to it.
LEMMA RequestKept ==
    ASSUME SessionTypeOK,
           NEW r \in RequestId,
           RequestOK(r),
           SameRequest(r) \/ request'[r] = request[r] \/ request'[r] = Unsent,
           accounts' = accounts, issued' = issued,
           expired \subseteq expired',
           sent' \in Nat, sent <= sent'
    PROVE  RequestOK(r)'
<1>1. CASE request'[r] = Unsent
  BY <1>1, UnsentRequest
  DEF RequestOK, OnlySent, TokenIsIssued, LoginIsOpen, AdmittedWithRights,
      ProfileOfOwner, RefusedForAReason, SentForOwner
<1>2. CASE SameRequest(r) \/ request'[r] = request[r]
  <2>1. OnlySent(r)'
    BY <1>2 DEF RequestOK, OnlySent, SameRequest, SessionTypeOK, RequestId
  <2>2. TokenIsIssued(r)' /\ LoginIsOpen(r)' /\ SentForOwner(r)'
    BY <1>2
    DEF RequestOK, TokenIsIssued, LoginIsOpen, SentForOwner, SameRequest
  <2>3. AdmittedWithRights(r)' /\ ProfileOfOwner(r)'
    BY <1>2
    DEF RequestOK, AdmittedWithRights, ProfileOfOwner, SameRequest, Allows,
        Required
  <2>4. RefusedForAReason(r)'
    BY <1>2 DEF RequestOK, RefusedForAReason, SameRequest
  <2> QED
    BY <2>1, <2>2, <2>3, <2>4 DEF RequestOK
<1> QED
  BY <1>1, <1>2

\* A request that has just been sent with the stored token is in order; an
\* operation must be sent for the owner of that token.
LEMMA FetchedIsOK ==
    ASSUME SessionInv,
           NEW kind \in {"login", "me", "act", "load"},
           NEW op \in Operation \cup {None},
           NEW user \in User \cup {None},
           sent < MaxRequests, sent' = sent + 1,
           NEW r, r = sent + 1,
           request'[r] = Fetch(kind, op, user, stored),
           kind = "login" => user \in User,
           kind = "act" => \/ overlapped
                           \/ stored = None
                           \/ issued[stored] = user,
           UNCHANGED <<accounts, issued>>
    PROVE  RequestOK(r)'
<1> DEFINE f == Fetch(kind, op, user, stored)
<1>1. stored # None => issued[stored] # None
  BY DEF SessionInv, SessionTypeOK
<1>2. /\ f.kind = kind /\ f.step = "sent" /\ f.user = user
      /\ f.token = stored
      /\ stored # None => accounts[issued[stored]] \in f.seen
      /\ f.mixed = overlapped
  BY <1>1, FetchedRequest DEF SessionInv
<1>3. request'[r] = f
  OBVIOUS
<1>4. sent \in Nat /\ r \in Token /\ r > sent
  BY SessionAssumption DEF SessionInv, SessionTypeOK, Token
<1>5. issued[r] = None
  BY <1>4 DEF SessionInv, NotYetIssued
<1> HIDE DEF f
<1>6. OnlySent(r)' /\ TokenIsIssued(r)' /\ LoginIsOpen(r)' /\ SentForOwner(r)'
  BY <1>1, <1>2, <1>3, <1>4, <1>5
  DEF OnlySent, TokenIsIssued, LoginIsOpen, SentForOwner
<1>7. AdmittedWithRights(r)' /\ ProfileOfOwner(r)' /\ RefusedForAReason(r)'
  BY <1>2, <1>3 DEF AdmittedWithRights, ProfileOfOwner, RefusedForAReason
<1> QED
  BY <1>6, <1>7 DEF RequestOK

-----------------------------------------------------------------------------
(* The server.                                                             *)

\* POST /auth/login keeps the invariant: the token it issues is new, and its
\* answer has the profile of the account it is for.
LEMMA LoginKeeps ==
    ASSUME SessionInv, NEW r \in RequestId, Login(r)
    PROVE  SessionInv'
<1> DEFINE u == request[r].user
<1>1. SessionTypeOK
  BY DEF SessionInv
<1>2. /\ request[r].step = "sent" /\ request[r].kind = "login"
      /\ UNCHANGED <<accounts, expired, changes, sent, page, acted>>
  BY DEF Login
<1>3. /\ RequestOK(r) /\ issued[r] = None /\ r <= sent /\ r \in Token
      /\ u \in User
  BY <1>2, SessionAssumption
  DEF SessionInv, RequestOK, OnlySent, LoginIsOpen, RequestId, Token
<1>4. PICK answer \in {"ok", "unauthorized"}, profile \in Profile \cup {None} :
        /\ Answered(r, answer, profile)
        /\ \/ /\ answer = "ok" /\ profile = ProfileOf(u)
              /\ issued' = [issued EXCEPT ![r] = u]
           \/ answer = "unauthorized" /\ issued' = issued
  <2>1. ProfileOf(u) \in Profile
    BY <1>1, <1>3 DEF ProfileOf, Profile, SessionTypeOK, Account
  <2> QED
    BY <2>1 DEF Login
<1>5. /\ request' \in [RequestId -> Request]
      /\ \A s \in RequestId : s # r => request'[s] = request[s]
      /\ request'[r].step = "answered"
      /\ request'[r].answer = answer
      /\ request'[r].profile = profile
      /\ request'[r].kind = request[r].kind
      /\ request'[r].token = request[r].token
      /\ request'[r].user = request[r].user
      /\ request'[r].seen = request[r].seen
      /\ \A s \in RequestId : request'[s].awaited = request[s].awaited
      /\ \A s \in RequestId : request'[s].kind = request[s].kind
      /\ \A s \in RequestId : request'[s].token = request[s].token
  <2>1. request \in [RequestId -> Request]
    BY <1>1 DEF SessionTypeOK
  <2> QED
    BY <1>4, <2>1, AnsweredRequest
<1>6. /\ issued' \in [Token -> User \cup {None}]
      /\ \A k \in Token : k # r => issued'[k] = issued[k]
      /\ \A k \in Token : issued[k] # None => issued'[k] = issued[k]
      /\ answer = "ok" => issued'[r] = u /\ profile.id = u
                          /\ profile \in Profile
  BY <1>1, <1>3, <1>4 DEF SessionTypeOK, ProfileOf, Profile, Account
<1>7. SessionTypeOK'
  BY <1>1, <1>2, <1>5, <1>6 DEF SessionTypeOK, page
<1>8. \A s \in RequestId : RequestOK(s)'
  <2> SUFFICES ASSUME NEW s \in RequestId PROVE RequestOK(s)'
    OBVIOUS
  <2>1. /\ RequestOK(s)
        /\ request[s].token \in Token \cup {None}
        /\ request[s] \in Request
    BY <1>1 DEF SessionInv, SessionTypeOK, Request
  <2>2. CASE s = r
    <3>1. OnlySent(s)' /\ TokenIsIssued(s)' /\ LoginIsOpen(s)'
      BY <1>2, <1>3, <1>5, <1>6, <2>1, <2>2
      DEF RequestOK, OnlySent, TokenIsIssued, LoginIsOpen
    <3>2. AdmittedWithRights(s)' /\ RefusedForAReason(s)' /\ SentForOwner(s)'
      BY <1>2, <1>5, <2>2
      DEF AdmittedWithRights, RefusedForAReason, SentForOwner
    <3>3. ProfileOfOwner(s)'
      BY <1>2, <1>5, <1>6, <2>2, <1>4 DEF ProfileOfOwner
    <3> QED
      BY <3>1, <3>2, <3>3 DEF RequestOK
  <2>3. CASE s # r
    <3>1. request'[s] = request[s] /\ s \in Token
      BY <1>5, <2>3, SessionAssumption DEF RequestId, Token
    <3>2. request[s].token # None =>
            issued'[request[s].token] = issued[request[s].token]
      BY <1>6, <2>1 DEF RequestOK, TokenIsIssued
    <3>3. issued'[s] = issued[s]
      BY <1>6, <2>3, <3>1
    <3>4. OnlySent(s)' /\ TokenIsIssued(s)' /\ LoginIsOpen(s)'
      BY <1>2, <2>1, <3>1, <3>2, <3>3
      DEF RequestOK, OnlySent, TokenIsIssued, LoginIsOpen
    <3>5. AdmittedWithRights(s)' /\ RefusedForAReason(s)' /\ SentForOwner(s)'
      BY <1>2, <2>1, <3>1, <3>2
      DEF RequestOK, AdmittedWithRights, RefusedForAReason, SentForOwner,
          Allows, Required
    <3>6. ProfileOfOwner(s)'
      BY <2>1, <3>1, <3>2, <3>3 DEF RequestOK, ProfileOfOwner
    <3> QED
      BY <3>4, <3>5, <3>6 DEF RequestOK
  <2> QED
    BY <2>2, <2>3
<1>9. ScreenOK'
  <2>1. stored # None => issued'[stored] = issued[stored]
    BY <1>1, <1>6 DEF SessionTypeOK
  <2> QED
    BY <1>2, <1>5, <2>1
    DEF SessionInv, ScreenOK, AwaitsLogin, AwaitsProfile, page
<1>10. NotYetIssued'
  BY <1>2, <1>3, <1>6 DEF SessionInv, NotYetIssued, SessionTypeOK, RequestId,
     Token
<1>11. ActsAsShown'
  BY <1>2 DEF SessionInv, ActsAsShown
<1> QED
  BY <1>7, <1>8, <1>9, <1>10, <1>11 DEF SessionInv

\* The server's tables and the screen are as they were, one request has been
\* dealt with by the server, and nobody has stopped or begun to wait.
LEMMA ServedKeeps ==
    ASSUME SessionInv, NEW r \in RequestId,
           UNCHANGED <<server, sent, page>>,
           request' \in [RequestId -> Request],
           \A s \in RequestId : s # r => request'[s] = request[s],
           request'[r].kind = request[r].kind,
           request'[r].token = request[r].token,
           request'[r].awaited = request[r].awaited,
           RequestOK(r)',
           ActsAsShown'
    PROVE  SessionInv'
<1>1. SessionTypeOK'
  BY DEF SessionInv, SessionTypeOK, server, page
<1>2. \A s \in RequestId : RequestOK(s)'
  <2> SUFFICES ASSUME NEW s \in RequestId, s # r PROVE RequestOK(s)'
    OBVIOUS
  <2>1. sent' \in Nat /\ sent <= sent'
    BY DEF SessionInv, SessionTypeOK
  <2>2. /\ SessionTypeOK /\ RequestOK(s) /\ request'[s] = request[s]
        /\ accounts' = accounts /\ issued' = issued /\ expired \subseteq expired'
    BY DEF SessionInv, server
  <2> QED
    BY <2>1, <2>2, RequestKept
<1>3. ScreenOK'
  <2>1. \A s \in RequestId : /\ request'[s].kind = request[s].kind
                             /\ request'[s].token = request[s].token
                             /\ request'[s].awaited = request[s].awaited
    OBVIOUS
  <2> QED
    BY <2>1 DEF SessionInv, ScreenOK, AwaitsLogin, AwaitsProfile, page, server
<1>4. NotYetIssued'
  BY DEF SessionInv, NotYetIssued, server
<1> QED
  BY <1>1, <1>2, <1>3, <1>4 DEF SessionInv

\* The guards keep the invariant: they admit only on what the account is now,
\* and refuse only what has expired or is inactive.
LEMMA GuardKeeps ==
    ASSUME SessionInv, NEW r \in RequestId, Guard(r)
    PROVE  SessionInv'
<1> DEFINE token == request[r].token
           account == Validated(issued[token])
<1>1. SessionTypeOK /\ RequestOK(r) /\ request \in [RequestId -> Request]
  BY DEF SessionInv, SessionTypeOK
<1>2. /\ request[r].step = "sent" /\ request[r].kind # "login"
      /\ UNCHANGED <<server, sent, page, acted>>
  BY DEF Guard
<1>3. token \in Token \cup {None}
  BY <1>1 DEF Request
<1>4. UNCHANGED <<accounts, issued, expired>>
  BY <1>2 DEF server
<1>5. ActsAsShown'
  BY <1>2 DEF SessionInv, ActsAsShown
<1>6. CASE /\ token \notin {None} \cup expired
           /\ account.isActive
           /\ Allows(request[r].op, account)
           /\ request' = [request EXCEPT ![r].step = "admitted",
                                         ![r].account = account]
  <2>1. /\ account \in Account /\ account \in request[r].seen
        /\ token # None /\ issued[token] \in User
        /\ accounts[issued[token]] \in request[r].seen
    BY <1>1, <1>3, <1>6
    DEF Validated, SessionTypeOK, RequestOK, TokenIsIssued
  <2>2. PICK q \in Request : q = request[r]
    BY <1>1
  <2>3. request' = [request EXCEPT ![r] =
                      [q EXCEPT !.step = "admitted", !.account = account]]
    BY <1>6, <2>2
  <2>4. [q EXCEPT !.step = "admitted", !.account = account] \in Request
    BY <2>1 DEF Request
  <2>5. /\ request' \in [RequestId -> Request]
        /\ \A s \in RequestId : s # r => request'[s] = request[s]
        /\ request'[r].step = "admitted"
        /\ request'[r].account = account
        /\ request'[r].kind = request[r].kind
        /\ request'[r].op = request[r].op
        /\ request'[r].token = request[r].token
        /\ request'[r].user = request[r].user
        /\ request'[r].seen = request[r].seen
        /\ request'[r].mixed = request[r].mixed
        /\ request'[r].awaited = request[r].awaited
    BY <1>1, <2>2, <2>3, <2>4 DEF Request
  <2> HIDE DEF account
  <2>6. OnlySent(r)' /\ TokenIsIssued(r)' /\ LoginIsOpen(r)'
    BY <1>1, <1>2, <1>4, <2>1, <2>5
    DEF RequestOK, OnlySent, TokenIsIssued, LoginIsOpen
  <2>7. AdmittedWithRights(r)'
    BY <1>2, <1>6, <2>1, <2>5 DEF AdmittedWithRights, Allows, Required
  <2>8. ProfileOfOwner(r)' /\ RefusedForAReason(r)' /\ SentForOwner(r)'
    BY <1>1, <1>4, <2>5
    DEF RequestOK, ProfileOfOwner, RefusedForAReason, SentForOwner
  <2>9. RequestOK(r)'
    BY <2>6, <2>7, <2>8 DEF RequestOK
  <2> QED
    BY <1>2, <1>5, <2>5, <2>9, ServedKeeps
<1>7. ASSUME NEW answer \in {"unauthorized", "forbidden"},
             Answered(r, answer, None),
             answer = "unauthorized" /\ token # None =>
                 token \in expired \/ ~account.isActive
      PROVE  SessionInv'
  <2>1. /\ request' \in [RequestId -> Request]
        /\ \A s \in RequestId : s # r => request'[s] = request[s]
        /\ request'[r].step = "answered"
        /\ request'[r].answer = answer
        /\ request'[r].kind = request[r].kind
        /\ request'[r].op = request[r].op
        /\ request'[r].token = request[r].token
        /\ request'[r].user = request[r].user
        /\ request'[r].seen = request[r].seen
        /\ request'[r].mixed = request[r].mixed
        /\ request'[r].awaited = request[r].awaited
    BY <1>1, <1>7, AnsweredRequest
  <2>2. /\ OnlySent(r)' /\ TokenIsIssued(r)' /\ LoginIsOpen(r)'
        /\ AdmittedWithRights(r)' /\ SentForOwner(r)'
    BY <1>1, <1>2, <1>4, <2>1
    DEF RequestOK, OnlySent, TokenIsIssued, LoginIsOpen, AdmittedWithRights,
        SentForOwner
  <2>3. ProfileOfOwner(r)' /\ RefusedForAReason(r)'
    BY <1>1, <1>4, <1>7, <2>1
    DEF RequestOK, TokenIsIssued, ProfileOfOwner, RefusedForAReason, Validated
  <2>4. RequestOK(r)'
    BY <2>2, <2>3 DEF RequestOK
  <2> QED
    BY <1>2, <1>5, <2>1, <2>4, ServedKeeps
<1>8. \/ Answered(r, "unauthorized", None)
         /\ (token # None => token \in expired \/ ~account.isActive)
      \/ Answered(r, "forbidden", None)
      \/ /\ token \notin {None} \cup expired
         /\ account.isActive
         /\ Allows(request[r].op, account)
         /\ request' = [request EXCEPT ![r].step = "admitted",
                                       ![r].account = account]
  BY DEF Guard
<1> QED
  BY <1>6, <1>7, <1>8

\* The handler keeps the invariant: it books for the owner of the token, whom
\* the request was sent for, and answers with the owner's profile.
LEMMA HandleKeeps ==
    ASSUME SessionInv, NEW r \in RequestId, Handle(r)
    PROVE  SessionInv'
<1> DEFINE u == issued[request[r].token]
<1>1. SessionTypeOK /\ RequestOK(r) /\ request \in [RequestId -> Request]
  BY DEF SessionInv, SessionTypeOK
<1>2. /\ request[r].step = "admitted"
      /\ Answered(r, "ok", ProfileOf(u))
      /\ UNCHANGED <<server, sent, page>>
  BY DEF Handle
<1>3. /\ request[r].token \in Token /\ request[r].kind # "login"
      /\ u \in User
  <2>1. request[r].token \in Token \cup {None}
    BY <1>1 DEF Request
  <2> QED
    BY <1>1, <1>2, <2>1
    DEF RequestOK, AdmittedWithRights, TokenIsIssued, SessionTypeOK
<1>4. ProfileOf(u) \in Profile /\ ProfileOf(u).id = u
  BY <1>1, <1>3 DEF ProfileOf, Profile, SessionTypeOK, Account
<1>5. /\ request' \in [RequestId -> Request]
      /\ \A s \in RequestId : s # r => request'[s] = request[s]
      /\ request'[r].step = "answered"
      /\ request'[r].answer = "ok"
      /\ request'[r].profile = ProfileOf(u)
      /\ request'[r].kind = request[r].kind
      /\ request'[r].op = request[r].op
      /\ request'[r].token = request[r].token
      /\ request'[r].user = request[r].user
      /\ request'[r].seen = request[r].seen
      /\ request'[r].mixed = request[r].mixed
      /\ request'[r].awaited = request[r].awaited
  BY <1>1, <1>2, <1>4, AnsweredRequest
<1>6. UNCHANGED <<accounts, issued, expired>>
  BY <1>2 DEF server
<1>7. RequestOK(r)'
  <2>1. /\ OnlySent(r)' /\ TokenIsIssued(r)' /\ LoginIsOpen(r)'
        /\ AdmittedWithRights(r)' /\ SentForOwner(r)'
    BY <1>1, <1>2, <1>3, <1>5, <1>6
    DEF RequestOK, OnlySent, TokenIsIssued, LoginIsOpen, AdmittedWithRights,
        SentForOwner
  <2>2. ProfileOfOwner(r)' /\ RefusedForAReason(r)'
    BY <1>3, <1>4, <1>5, <1>6, NoneIsNeither
    DEF ProfileOfOwner, RefusedForAReason
  <2> QED
    BY <2>1, <2>2 DEF RequestOK
<1>8. ActsAsShown'
  <2>1. request[r].kind = "act" =>
          request[r].mixed \/ u = request[r].user
    BY <1>1, <1>3, NoneIsNeither DEF RequestOK, SentForOwner
  <2>2. ActsAsShown
    BY DEF SessionInv
  <2>3. acted' = IF request[r].kind = "act"
                 THEN acted \cup {[by |-> u, screen |-> request[r].user,
                                   mixed |-> request[r].mixed]}
                 ELSE acted
    BY DEF Handle
  <2> QED
    BY <2>1, <2>2, <2>3 DEF ActsAsShown
<1> QED
  BY <1>2, <1>5, <1>7, <1>8, ServedKeeps

\* An account changes: a request that is under way for it sees both versions,
\* and what has been admitted or refused stays so.
LEMMA ChangeAccountKeeps ==
    ASSUME SessionInv, NEW u \in User, NEW account \in Account,
           ChangeAccount(u, account)
    PROVE  SessionInv'
<1>1. SessionTypeOK
  BY DEF SessionInv
<1>2. /\ changes < MaxChanges /\ changes' = changes + 1
      /\ accounts' = [accounts EXCEPT ![u] = account]
      /\ UNCHANGED <<issued, expired, sent, page, acted>>
  BY DEF ChangeAccount
<1>3. ASSUME NEW r \in RequestId
      PROVE  /\ request'[r] \in Request
             /\ request'[r].kind = request[r].kind
             /\ request'[r].step = request[r].step
             /\ request'[r].op = request[r].op
             /\ request'[r].token = request[r].token
             /\ request'[r].user = request[r].user
             /\ request'[r].account = request[r].account
             /\ request[r].seen \subseteq request'[r].seen
             /\ request[r].token # None /\ issued[request[r].token] = u
                  => account \in request'[r].seen
             /\ request'[r].answer = request[r].answer
             /\ request'[r].profile = request[r].profile
             /\ request'[r].mixed = request[r].mixed
             /\ request'[r].awaited = request[r].awaited
  <2>1. PICK q \in Request : q = request[r]
    BY <1>1 DEF SessionTypeOK
  <2>2. [q EXCEPT !.seen = @ \cup {account}] \in Request
    BY DEF Request
  <2>3. request'[r] = IF q.token # None /\ issued[q.token] = u
                      THEN [q EXCEPT !.seen = @ \cup {account}]
                      ELSE q
    BY <2>1 DEF ChangeAccount
  <2> QED
    BY <2>1, <2>2, <2>3 DEF Request
<1>4. SessionTypeOK'
  <2>1. request' \in [RequestId -> Request]
    <3>1. request' = [r \in RequestId |-> request'[r]]
      BY DEF ChangeAccount
    <3> QED
      BY <1>3, <3>1
  <2>2. changes' \in 0 .. MaxChanges
    BY <1>1, <1>2, SessionAssumption DEF SessionTypeOK
  <2> QED
    BY <1>1, <1>2, <2>1, <2>2 DEF SessionTypeOK, page
<1>5. \A r \in RequestId : RequestOK(r)'
  <2> SUFFICES ASSUME NEW r \in RequestId PROVE RequestOK(r)'
    OBVIOUS
  <2>1. RequestOK(r) /\ request[r].token \in Token \cup {None}
    BY <1>1 DEF SessionInv, SessionTypeOK, Request
  <2>2. OnlySent(r)' /\ LoginIsOpen(r)' /\ ProfileOfOwner(r)' /\ SentForOwner(r)'
    BY <1>2, <1>3, <2>1
    DEF RequestOK, OnlySent, LoginIsOpen, ProfileOfOwner, SentForOwner
  <2>3. TokenIsIssued(r)'
    <3> SUFFICES ASSUME request[r].token # None
                 PROVE  TokenIsIssued(r)'
      BY <1>3 DEF TokenIsIssued
    <3>1. issued[request[r].token] \in User
      BY <1>1, <2>1 DEF RequestOK, TokenIsIssued, SessionTypeOK
    <3>2. accounts'[issued[request[r].token]] =
            IF issued[request[r].token] = u THEN account
            ELSE accounts[issued[request[r].token]]
      BY <1>1, <1>2, <3>1 DEF SessionTypeOK
    <3> QED
      BY <1>2, <1>3, <2>1, <3>2 DEF RequestOK, TokenIsIssued
  <2>4. AdmittedWithRights(r)' /\ RefusedForAReason(r)'
    BY <1>2, <1>3, <2>1
    DEF RequestOK, AdmittedWithRights, RefusedForAReason, Allows, Required
  <2> QED
    BY <2>2, <2>3, <2>4 DEF RequestOK
<1>6. ScreenOK'
  BY <1>2, <1>3 DEF SessionInv, ScreenOK, AwaitsLogin, AwaitsProfile, page
<1>7. NotYetIssued' /\ ActsAsShown'
  BY <1>2 DEF SessionInv, NotYetIssued, ActsAsShown
<1> QED
  BY <1>4, <1>5, <1>6, <1>7 DEF SessionInv

\* A token that expires keeps its owner, and disturbs nothing.
LEMMA ExpireKeeps ==
    ASSUME SessionInv, NEW token \in Token, Expire(token)
    PROVE  SessionInv'
<1>1. /\ changes < MaxChanges /\ changes' = changes + 1
      /\ expired' = expired \cup {token}
      /\ UNCHANGED <<accounts, issued, request, sent, page, acted>>
  BY DEF Expire
<1>2. SessionTypeOK /\ sent \in Nat
  BY DEF SessionInv, SessionTypeOK
<1>3. SessionTypeOK'
  BY <1>1, <1>2, SessionAssumption DEF SessionTypeOK, page
<1>4. \A r \in RequestId : RequestOK(r)'
  <2> SUFFICES ASSUME NEW r \in RequestId PROVE RequestOK(r)'
    OBVIOUS
  <2>1. RequestOK(r) /\ request'[r] = request[r] /\ sent' \in Nat
        /\ sent <= sent' /\ expired \subseteq expired'
    BY <1>1, <1>2 DEF SessionInv
  <2> QED
    BY <1>1, <1>2, <2>1, RequestKept
<1>5. ScreenOK' /\ NotYetIssued' /\ ActsAsShown'
  BY <1>1
  DEF SessionInv, ScreenOK, AwaitsLogin, AwaitsProfile, NotYetIssued,
      ActsAsShown, page
<1> QED
  BY <1>3, <1>4, <1>5 DEF SessionInv

-----------------------------------------------------------------------------
(* The browser.                                                            *)

\* The screen changes and the server does not: the requests stay in order if
\* each is the same, or over.
LEMMA RequestsKept ==
    ASSUME SessionInv,
           UNCHANGED <<server, sent, acted>>,
           \A s \in RequestId : SameRequest(s) \/ request'[s] = request[s]
                                \/ request'[s] = Unsent
    PROVE  /\ \A s \in RequestId : RequestOK(s)'
           /\ NotYetIssued' /\ ActsAsShown'
<1>1. SessionTypeOK /\ sent' \in Nat /\ sent <= sent'
      /\ accounts' = accounts /\ issued' = issued /\ expired \subseteq expired'
  BY DEF SessionInv, SessionTypeOK, server
<1>2. \A s \in RequestId : RequestOK(s)'
  <2> SUFFICES ASSUME NEW s \in RequestId PROVE RequestOK(s)'
    OBVIOUS
  <2>1. RequestOK(s)
    BY DEF SessionInv
  <2> QED
    BY <1>1, <2>1, RequestKept
<1> QED
  BY <1>1, <1>2 DEF SessionInv, NotYetIssued, ActsAsShown

\* One more request is sent, and the others are the same, or over.
LEMMA RequestsSent ==
    ASSUME SessionInv,
           UNCHANGED <<server, acted>>,
           NEW kind \in {"login", "me", "act", "load"},
           NEW op \in Operation \cup {None},
           NEW user \in User \cup {None},
           NEW base \in [RequestId -> Request],
           sent < MaxRequests, sent' = sent + 1,
           request' = [base EXCEPT ![sent + 1] =
                         Fetch(kind, op, user, stored)],
           \A s \in RequestId : s # sent + 1 =>
               SameRequest(s) \/ request'[s] = request[s]
               \/ request'[s] = Unsent,
           kind = "login" => user \in User,
           kind = "act" => \/ overlapped
                           \/ stored = None
                           \/ issued[stored] = user
    PROVE  /\ \A s \in RequestId : RequestOK(s)'
           /\ NotYetIssued' /\ ActsAsShown'
           /\ request' \in [RequestId -> Request]
           /\ sent' \in 0 .. MaxRequests
           /\ sent + 1 \in RequestId
           /\ request'[sent + 1].kind = kind
           /\ request'[sent + 1].token = stored
           /\ request'[sent + 1].awaited
           /\ \A s \in RequestId : s # sent + 1 => request'[s] = base[s]
<1> DEFINE f == Fetch(kind, op, user, stored)
<1>1. /\ SessionTypeOK /\ sent \in Nat /\ sent' \in 0 .. MaxRequests
      /\ sent + 1 \in RequestId
      /\ accounts' = accounts /\ issued' = issued /\ expired \subseteq expired'
  BY SessionAssumption DEF SessionInv, SessionTypeOK, RequestId, server
<1>2. stored # None => issued[stored] # None
  BY <1>1 DEF SessionTypeOK
<1>3. f \in Request /\ f.kind = kind /\ f.token = stored /\ f.awaited
  <2>1. SessionTypeOK
    BY <1>1
  <2> QED
    BY <2>1, FetchedRequest
<1>4. request' = [base EXCEPT ![sent + 1] = f]
  OBVIOUS
<1>5. PICK r \in RequestId : r = sent + 1
  BY <1>1
<1>6. request'[r] = f
  BY <1>4, <1>5
<1>7. RequestOK(r)'
  BY <1>1, <1>5, <1>6, FetchedIsOK
<1>8. ASSUME NEW s \in RequestId, s # r PROVE RequestOK(s)'
  <2>1. SameRequest(s) \/ request'[s] = request[s] \/ request'[s] = Unsent
    BY <1>5, <1>8
  <2>2. RequestOK(s) /\ sent' \in Nat /\ sent <= sent'
    BY <1>1 DEF SessionInv
  <2> QED
    BY <1>1, <2>1, <2>2, RequestKept
<1>9. NotYetIssued' /\ ActsAsShown'
  BY <1>1 DEF SessionInv, NotYetIssued, ActsAsShown, Token
<1> HIDE DEF f
<1> QED
  BY <1>1, <1>3, <1>4, <1>5, <1>7, <1>8, <1>9

\* A page that is gone waits for nothing; its requests go on.
LEMMA ForgottenRequests ==
    ASSUME request \in [RequestId -> Request]
    PROVE  /\ Forgotten \in [RequestId -> Request]
           /\ \A s \in RequestId : ~Forgotten[s].awaited
           /\ \A s \in RequestId :
                request'[s] = Forgotten[s] => SameRequest(s)
<1>1. \A s \in RequestId : Forgotten[s] = [request[s] EXCEPT !.awaited = FALSE]
  BY DEF Forgotten
<1>2. ASSUME NEW s \in RequestId
      PROVE  /\ Forgotten[s] \in Request /\ ~Forgotten[s].awaited
             /\ request'[s] = Forgotten[s] => SameRequest(s)
  <2> DEFINE q == [request[s] EXCEPT !.awaited = FALSE]
  <2>1. Forgotten[s] = q
    BY <1>1
  <2>2. /\ q \in Request /\ ~q.awaited
        /\ q.kind = request[s].kind /\ q.step = request[s].step
        /\ q.op = request[s].op /\ q.token = request[s].token
        /\ q.user = request[s].user /\ q.account = request[s].account
        /\ q.seen = request[s].seen /\ q.answer = request[s].answer
        /\ q.profile = request[s].profile /\ q.mixed = request[s].mixed
    BY AbandonedRequest
  <2> HIDE DEF q
  <2> QED
    BY <2>1, <2>2 DEF SameRequest
<1>3. Forgotten = [s \in RequestId |-> Forgotten[s]]
  BY DEF Forgotten
<1> QED
  BY <1>2, <1>3

\* AuthProvider is mounted: nobody is shown and nothing is awaited but the
\* profile of the token that is stored.
LEMMA MountKeeps ==
    ASSUME SessionInv, Mount
    PROVE  SessionInv'
<1>1. /\ SessionTypeOK /\ request \in [RequestId -> Request]
      /\ stored \in Token \cup {None}
  BY DEF SessionInv, SessionTypeOK
<1>2. /\ shown' = None /\ form' = None /\ overlapped' = FALSE
      /\ restoring' = (stored # None)
      /\ UNCHANGED <<server, stored, acted>>
  BY DEF Mount, Loading
<1>3. /\ Forgotten \in [RequestId -> Request]
      /\ \A s \in RequestId : ~Forgotten[s].awaited
      /\ \A s \in RequestId : request'[s] = Forgotten[s] => SameRequest(s)
  BY <1>1, ForgottenRequests
<1>4. CASE stored = None /\ request' = Forgotten /\ UNCHANGED sent
  <2>1. /\ \A s \in RequestId : RequestOK(s)'
        /\ NotYetIssued' /\ ActsAsShown'
    BY <1>2, <1>3, <1>4, RequestsKept
  <2>2. SessionTypeOK'
    BY <1>1, <1>2, <1>3, <1>4 DEF SessionTypeOK, server
  <2>3. ScreenOK'
    BY <1>2, <1>3, <1>4 DEF ScreenOK, AwaitsLogin, AwaitsProfile
  <2> QED
    BY <2>1, <2>2, <2>3 DEF SessionInv
<1>5. CASE Validate
  <2>1. /\ stored # None /\ sent < MaxRequests /\ sent' = sent + 1
        /\ request' = [Forgotten EXCEPT ![sent + 1] =
                         Fetch("me", None, None, stored)]
    BY <1>5 DEF Validate
  <2>2. \A s \in RequestId : s # sent + 1 => SameRequest(s)
    BY <1>3, <2>1
  <2>3. /\ \A s \in RequestId : RequestOK(s)'
        /\ NotYetIssued' /\ ActsAsShown'
        /\ request' \in [RequestId -> Request]
        /\ sent' \in 0 .. MaxRequests
        /\ sent + 1 \in RequestId
        /\ request'[sent + 1].kind = "me"
        /\ request'[sent + 1].token = stored
        /\ \A s \in RequestId : s # sent + 1 => request'[s] = Forgotten[s]
    BY <1>2, <1>3, <2>1, <2>2, RequestsSent
  <2>4. SessionTypeOK'
    BY <1>1, <1>2, <2>3 DEF SessionTypeOK, server
  <2>5. ScreenOK'
    BY <1>2, <1>3, <2>1, <2>3 DEF ScreenOK, AwaitsLogin, AwaitsProfile
  <2> QED
    BY <2>3, <2>4, <2>5 DEF SessionInv
<1> QED
  BY <1>4, <1>5 DEF Mount

\* A login is submitted: while a stored token is being validated, that is
\* remembered.
LEMMA SubmitLoginKeeps ==
    ASSUME SessionInv, NEW u \in User, SubmitLogin(u)
    PROVE  SessionInv'
<1>1. /\ SessionTypeOK /\ request \in [RequestId -> Request]
      /\ stored \in Token \cup {None}
      /\ overlapped \in BOOLEAN /\ restoring \in BOOLEAN
  BY DEF SessionInv, SessionTypeOK
<1>2. /\ shown = None /\ form' = sent + 1
      /\ sent < MaxRequests /\ sent' = sent + 1
      /\ request' = [request EXCEPT ![sent + 1] =
                       Fetch("login", None, u, stored)]
      /\ overlapped' = (overlapped \/ restoring)
      /\ UNCHANGED <<server, stored, shown, restoring, acted>>
  BY DEF SubmitLogin, Send
<1>3. \A s \in RequestId : s # sent + 1 => request'[s] = request[s]
  BY <1>1, <1>2
<1>4. /\ \A s \in RequestId : RequestOK(s)'
      /\ NotYetIssued' /\ ActsAsShown'
      /\ request' \in [RequestId -> Request]
      /\ sent' \in 0 .. MaxRequests
      /\ sent + 1 \in RequestId
      /\ request'[sent + 1].kind = "login"
  BY <1>1, <1>2, <1>3, RequestsSent
<1>5. SessionTypeOK'
  BY <1>1, <1>2, <1>4 DEF SessionTypeOK, server
<1>6. ScreenOK'
  BY <1>1, <1>2, <1>3, <1>4
  DEF SessionInv, ScreenOK, AwaitsLogin, AwaitsProfile
<1> QED
  BY <1>4, <1>5, <1>6 DEF SessionInv

\* A request is sent from a page that shows a user: it carries the token of
\* that user.
LEMMA SentFromPageKeeps ==
    ASSUME SessionInv,
           NEW kind \in {"act", "load"},
           NEW op \in Operation \cup {None},
           shown # None,
           Send(kind, op, shown.id, stored),
           UNCHANGED <<server, page, acted>>
    PROVE  SessionInv'
<1>1. /\ SessionTypeOK /\ request \in [RequestId -> Request]
      /\ shown.id \in User
  BY DEF SessionInv, SessionTypeOK, Profile
<1>2. /\ sent < MaxRequests /\ sent' = sent + 1
      /\ request' = [request EXCEPT ![sent + 1] =
                       Fetch(kind, op, shown.id, stored)]
  BY DEF Send
<1>3. \A s \in RequestId : s # sent + 1 => request'[s] = request[s]
  BY <1>1, <1>2
<1>4. overlapped \/ stored = None \/ issued[stored] = shown.id
  BY DEF SessionInv, ScreenOK
<1>5. /\ \A s \in RequestId : RequestOK(s)'
      /\ NotYetIssued' /\ ActsAsShown'
      /\ request' \in [RequestId -> Request]
      /\ sent' \in 0 .. MaxRequests
      /\ sent + 1 \in RequestId
      /\ request'[sent + 1].kind = kind
  BY <1>1, <1>2, <1>3, <1>4, RequestsSent
<1>6. SessionTypeOK'
  BY <1>1, <1>2, <1>5 DEF SessionTypeOK, server, page
<1>7. ScreenOK'
  BY <1>1, <1>2, <1>3, <1>5
  DEF SessionInv, ScreenOK, AwaitsLogin, AwaitsProfile, server, page
<1> QED
  BY <1>5, <1>6, <1>7 DEF SessionInv

\* The user signs out, when nothing is being restored.
LEMMA SignOutKeeps ==
    ASSUME SessionInv, SignOut
    PROVE  SessionInv'
<1>1. /\ ~restoring /\ stored' = None /\ shown' = None
      /\ UNCHANGED <<server, request, sent, restoring, form, overlapped, acted>>
  BY DEF SignOut
<1>2. /\ \A s \in RequestId : RequestOK(s)'
      /\ NotYetIssued' /\ ActsAsShown'
  BY <1>1, RequestsKept
<1>3. SessionTypeOK'
  BY <1>1 DEF SessionInv, SessionTypeOK, server
<1>4. ScreenOK'
  BY <1>1 DEF SessionInv, ScreenOK, AwaitsLogin, AwaitsProfile
<1> QED
  BY <1>2, <1>3, <1>4 DEF SessionInv

-----------------------------------------------------------------------------
(* The answers.                                                            *)

\* An answer is dealt with and its request is over.
LEMMA SettledKeeps ==
    ASSUME SessionInv, NEW r \in RequestId,
           request' = Settled(r),
           UNCHANGED <<server, sent, acted>>
    PROVE  /\ \A s \in RequestId : RequestOK(s)'
           /\ NotYetIssued' /\ ActsAsShown'
           /\ request' \in [RequestId -> Request]
           /\ ~request'[r].awaited
           /\ \A s \in RequestId : s # r => request'[s] = request[s]
<1>1. /\ request' \in [RequestId -> Request]
      /\ request'[r] = Unsent
      /\ \A s \in RequestId : s # r => request'[s] = request[s]
  BY SettledRequest DEF SessionInv, SessionTypeOK
<1> QED
  BY <1>1, UnsentRequest, RequestsKept

\* 401 ends the session, whatever was restored.
LEMMA UnauthorizedKeeps ==
    ASSUME SessionInv, NEW r \in RequestId, Unauthorized(r)
    PROVE  SessionInv'
<1>1. /\ request[r].awaited /\ stored' = None /\ shown' = None
      /\ restoring' = (restoring /\ request[r].kind # "me")
      /\ form' = IF form = r THEN None ELSE form
      /\ request' = Settled(r)
      /\ UNCHANGED <<server, sent, overlapped, acted>>
  BY DEF Unauthorized, Concluded
<1>2. /\ \A s \in RequestId : RequestOK(s)'
      /\ NotYetIssued' /\ ActsAsShown'
      /\ request' \in [RequestId -> Request]
      /\ ~request'[r].awaited
      /\ \A s \in RequestId : s # r => request'[s] = request[s]
  BY <1>1, SettledKeeps
<1>3. SessionTypeOK'
  BY <1>1, <1>2 DEF SessionInv, SessionTypeOK, server
<1>4. ScreenOK'
  BY <1>1, <1>2 DEF SessionInv, ScreenOK, AwaitsLogin, AwaitsProfile
<1> QED
  BY <1>2, <1>3, <1>4 DEF SessionInv

\* A login succeeds: the token it has issued and the owner's profile are set
\* together.
LEMMA SignedInKeeps ==
    ASSUME SessionInv, NEW r \in RequestId, SignedIn(r)
    PROVE  SessionInv'
<1>1. /\ request[r].awaited /\ request[r].step = "answered"
      /\ request[r].kind = "login" /\ request[r].answer = "ok"
      /\ stored' = r /\ shown' = request[r].profile /\ form' = None
      /\ request' = Settled(r)
      /\ UNCHANGED <<server, sent, restoring, overlapped, acted>>
  BY DEF SignedIn, Awaited
<1>2. /\ \A s \in RequestId : RequestOK(s)'
      /\ NotYetIssued' /\ ActsAsShown'
      /\ request' \in [RequestId -> Request]
      /\ ~request'[r].awaited
      /\ \A s \in RequestId : s # r => request'[s] = request[s]
  BY <1>1, SettledKeeps
<1>3. /\ request[r].profile \in Profile
      /\ issued[r] = request[r].profile.id
  BY <1>1 DEF SessionInv, RequestOK, ProfileOfOwner
<1>4. /\ r \in Token /\ issued[r] # None /\ issued' = issued
  BY <1>1, <1>3, NoneIsNeither, SessionAssumption
  DEF Profile, RequestId, Token, server
<1>5. SessionTypeOK'
  BY <1>1, <1>2, <1>3, <1>4 DEF SessionInv, SessionTypeOK, server
<1>6. ScreenOK'
  BY <1>1, <1>2, <1>3, <1>4
  DEF SessionInv, ScreenOK, AwaitsLogin, AwaitsProfile
<1> QED
  BY <1>2, <1>5, <1>6 DEF SessionInv

\* The session is restored: the profile is that of the owner of the token the
\* request carried, which is the stored one.
LEMMA RestoredKeeps ==
    ASSUME SessionInv, NEW r \in RequestId, Restored(r)
    PROVE  SessionInv'
<1>1. /\ request[r].awaited /\ request[r].step = "answered"
      /\ request[r].kind = "me" /\ request[r].answer = "ok"
      /\ shown' = request[r].profile /\ restoring' = FALSE /\ form' = None
      /\ request' = Settled(r)
      /\ UNCHANGED <<server, stored, sent, overlapped, acted>>
  BY DEF Restored, Awaited
<1>2. /\ \A s \in RequestId : RequestOK(s)'
      /\ NotYetIssued' /\ ActsAsShown'
      /\ request' \in [RequestId -> Request]
      /\ ~request'[r].awaited
      /\ \A s \in RequestId : s # r => request'[s] = request[s]
  BY <1>1, SettledKeeps
<1>3. /\ request[r].profile \in Profile
      /\ issued[request[r].token] = request[r].profile.id
  BY <1>1 DEF SessionInv, RequestOK, ProfileOfOwner
<1>4. overlapped \/ stored = None \/ stored = request[r].token
  BY <1>1 DEF SessionInv, ScreenOK, AwaitsProfile
<1>5. SessionTypeOK'
  BY <1>1, <1>2, <1>3 DEF SessionInv, SessionTypeOK, server
<1>6. ScreenOK'
  BY <1>1, <1>2, <1>3, <1>4
  DEF SessionInv, ScreenOK, AwaitsLogin, AwaitsProfile, server
<1> QED
  BY <1>2, <1>5, <1>6 DEF SessionInv

\* An operation has succeeded: its request is over and the list is loaded again
\* with the token that is stored by then.
LEMMA DoneKeeps ==
    ASSUME SessionInv, NEW r \in RequestId, Done(r)
    PROVE  SessionInv'
<1>1. /\ SessionTypeOK /\ request \in [RequestId -> Request]
      /\ shown \in Profile \cup {None}
  BY DEF SessionInv, SessionTypeOK
<1>2. UNCHANGED <<server, page, acted>>
  BY DEF Done
<1>3. CASE sent = MaxRequests /\ request' = Settled(r) /\ UNCHANGED sent
  <2>1. /\ \A s \in RequestId : RequestOK(s)'
        /\ NotYetIssued' /\ ActsAsShown'
        /\ request' \in [RequestId -> Request]
        /\ ~request'[r].awaited
        /\ \A s \in RequestId : s # r => request'[s] = request[s]
    BY <1>2, <1>3, SettledKeeps
  <2>2. SessionTypeOK'
    BY <1>1, <1>2, <1>3, <2>1 DEF SessionTypeOK, server, page
  <2>3. ScreenOK'
    BY <1>2, <2>1
    DEF SessionInv, ScreenOK, AwaitsLogin, AwaitsProfile, server, page
  <2> QED
    BY <2>1, <2>2, <2>3 DEF SessionInv
<1>4. ASSUME NEW user \in User \cup {None},
             sent < MaxRequests, sent' = sent + 1,
             request' = [Settled(r) EXCEPT ![sent + 1] =
                           Fetch("load", None, user, stored)]
      PROVE  SessionInv'
  <2>1. /\ Settled(r) \in [RequestId -> Request]
        /\ Settled(r)[r] = Unsent
        /\ \A s \in RequestId : s # r => Settled(r)[s] = request[s]
    BY <1>1, UnsentRequest DEF Settled
  <2>2. \A s \in RequestId : s # sent + 1 =>
            request'[s] = request[s] \/ request'[s] = Unsent
    BY <1>4, <2>1
  <2>3. /\ \A s \in RequestId : RequestOK(s)'
        /\ NotYetIssued' /\ ActsAsShown'
        /\ request' \in [RequestId -> Request]
        /\ sent' \in 0 .. MaxRequests
        /\ request'[sent + 1].kind = "load"
        /\ \A s \in RequestId : s # sent + 1 => request'[s] = Settled(r)[s]
    BY <1>2, <1>4, <2>1, <2>2, RequestsSent
  <2>4. SessionTypeOK'
    BY <1>1, <1>2, <2>3 DEF SessionTypeOK, server, page
  <2>5. ScreenOK'
    <3>1. \A s \in RequestId :
            \/ request'[s] = request[s]
            \/ ~request'[s].awaited
            \/ request'[s].kind = "load"
      BY <2>2, <2>3, UnsentRequest
    <3> QED
      BY <1>2, <3>1
      DEF SessionInv, ScreenOK, AwaitsLogin, AwaitsProfile, server, page
  <2> QED
    BY <2>3, <2>4, <2>5 DEF SessionInv
<1>5. (IF shown = None THEN None ELSE shown.id) \in User \cup {None}
  BY <1>1 DEF Profile
<1> QED
  BY <1>3, <1>4, <1>5 DEF Done

\* Rows or a refusal are displayed: nothing but their request is over.
LEMMA DisplayedKeeps ==
    ASSUME SessionInv, NEW r \in RequestId, Displayed(r)
    PROVE  SessionInv'
<1>1. request' = Settled(r) /\ UNCHANGED <<server, sent, page, acted>>
  BY DEF Displayed
<1>2. /\ \A s \in RequestId : RequestOK(s)'
      /\ NotYetIssued' /\ ActsAsShown'
      /\ request' \in [RequestId -> Request]
      /\ ~request'[r].awaited
      /\ \A s \in RequestId : s # r => request'[s] = request[s]
  BY <1>1, SettledKeeps
<1>3. SessionTypeOK'
  BY <1>1, <1>2 DEF SessionInv, SessionTypeOK, server, page
<1>4. ScreenOK'
  BY <1>1, <1>2
  DEF SessionInv, ScreenOK, AwaitsLogin, AwaitsProfile, server, page
<1> QED
  BY <1>2, <1>3, <1>4 DEF SessionInv

\* A connection breaks: the page stops to wait, and gives up a session that it
\* was restoring.
LEMMA BrokenKeeps ==
    ASSUME SessionInv, NEW r \in RequestId, Broken(r)
    PROVE  SessionInv'
<1>1. /\ request[r].awaited /\ request' = Broke(r)
      /\ stored' = IF request[r].kind = "me" THEN None ELSE stored
      /\ restoring' = (restoring /\ request[r].kind # "me")
      /\ form' = IF form = r THEN None ELSE form
      /\ UNCHANGED <<server, sent, shown, overlapped, acted>>
  BY DEF Broken, Concluded
<1>2. request \in [RequestId -> Request]
  BY DEF SessionInv, SessionTypeOK
<1>3. /\ request' \in [RequestId -> Request]
      /\ SameRequest(r) /\ ~request'[r].awaited
      /\ \A s \in RequestId : s # r => request'[s] = request[s]
  <2> DEFINE q == [request[r] EXCEPT !.awaited = FALSE]
  <2>1. request' = [request EXCEPT ![r] = q]
    BY <1>1 DEF Broke
  <2>2. q \in Request
    BY <1>2, AbandonedRequest
  <2>3. request'[r] = q
    BY <1>2, <2>1
  <2>4. SameRequest(r) /\ ~request'[r].awaited
    BY <1>2, <2>3, AbandonedRequest DEF SameRequest
  <2> HIDE DEF q
  <2> QED
    BY <1>2, <2>1, <2>2, <2>4
<1>4. /\ \A s \in RequestId : RequestOK(s)'
      /\ NotYetIssued' /\ ActsAsShown'
  BY <1>1, <1>3, RequestsKept
<1>5. SessionTypeOK'
  BY <1>1, <1>3 DEF SessionInv, SessionTypeOK, server
<1>6. ScreenOK'
  BY <1>1, <1>3
  DEF SessionInv, ScreenOK, AwaitsLogin, AwaitsProfile, server
<1> QED
  BY <1>4, <1>5, <1>6 DEF SessionInv

-----------------------------------------------------------------------------
(* The theorems.                                                           *)

\* The page has just been mounted: at most one request, for the profile of the
\* stored token.
LEMMA SessionStarts == Init => SessionInv
<1> SUFFICES ASSUME Init PROVE SessionInv
  OBVIOUS
<1>1. PICK u \in User \cup {None} :
        /\ issued = [k \in Token |-> IF k = 0 THEN u ELSE None]
        /\ stored = IF u = None THEN None ELSE 0
  BY DEF Init
<1>2. /\ accounts = [v \in User |->
                       [role |-> InitialRole[v], isActive |-> TRUE]]
      /\ expired = {} /\ changes = 0 /\ acted = {}
      /\ shown = None /\ form = None /\ overlapped = FALSE
      /\ restoring = (stored # None)
  BY DEF Init, Loading
<1>3. 0 \in Token /\ None # 0 /\ 1 \in RequestId /\ None \notin Nat
  BY SessionAssumption DEF Token, RequestId
<1>4. /\ accounts \in [User -> Account]
      /\ issued \in [Token -> User \cup {None}]
      /\ stored \in Token \cup {None}
      /\ stored # None => issued[stored] # None
  BY <1>1, <1>2, <1>3, SessionAssumption DEF Account
<1>5. NotYetIssued
  BY <1>1, <1>3, SessionAssumption DEF NotYetIssued, Token, Init
<1>6. CASE stored = None /\ sent = 0 /\ request = [r \in RequestId |-> Unsent]
  <2>1. \A r \in RequestId : RequestOK(r)
    BY <1>6, UnsentRequest
    DEF RequestOK, OnlySent, TokenIsIssued, LoginIsOpen, AdmittedWithRights,
        ProfileOfOwner, RefusedForAReason, SentForOwner
  <2>2. ScreenOK
    BY <1>2, <1>6, UnsentRequest DEF ScreenOK, AwaitsLogin, AwaitsProfile
  <2>3. SessionTypeOK
    <3>1. request \in [RequestId -> Request]
      BY <1>6, UnsentRequest
    <3>2. sent \in 0 .. MaxRequests /\ changes \in 0 .. MaxChanges
      BY <1>2, <1>6, SessionAssumption
    <3> QED
      BY <1>2, <1>4, <3>1, <3>2 DEF SessionTypeOK
  <2> QED
    BY <1>2, <1>5, <2>1, <2>2, <2>3 DEF SessionInv, ActsAsShown
<1>7. CASE /\ stored = 0 /\ sent = 1
           /\ request = [r \in RequestId |->
                IF r = 1 THEN Fetch("me", None, None, 0) ELSE Unsent]
  <2> DEFINE f == Fetch("me", None, None, 0)
  <2>1. f = [kind |-> "me", step |-> "sent", op |-> None, token |-> 0,
             user |-> None, account |-> None,
             seen |-> {accounts[issued[0]]}, answer |-> "none",
             profile |-> None, mixed |-> FALSE, awaited |-> TRUE]
    BY <1>2, <1>3 DEF Fetch, AccountsOf
  <2>2. PICK a \in Account : a = accounts[issued[0]]
    BY <1>3, <1>4, <1>7
  <2>3. f \in Request
    <3>1. f = [kind |-> "me", step |-> "sent", op |-> None, token |-> 0,
               user |-> None, account |-> None, seen |-> {a},
               answer |-> "none", profile |-> None, mixed |-> FALSE,
               awaited |-> TRUE]
      BY <2>1, <2>2
    <3> HIDE DEF f
    <3>2. {a} \in SUBSET Account
      BY <2>2
    <3> QED
      BY <1>3, <3>1, <3>2 DEF Request
  <2>4. request = [r \in RequestId |-> IF r = 1 THEN f ELSE Unsent]
    BY <1>7
  <2> HIDE DEF f
  <2>5. \A r \in RequestId : RequestOK(r)
    <3>1. RequestOK(1)
      BY <1>3, <1>4, <1>7, <2>1, <2>4
      DEF RequestOK, OnlySent, TokenIsIssued, LoginIsOpen, AdmittedWithRights,
          ProfileOfOwner, RefusedForAReason, SentForOwner
    <3>2. \A r \in RequestId : r # 1 => RequestOK(r)
      BY <2>4, UnsentRequest
      DEF RequestOK, OnlySent, TokenIsIssued, LoginIsOpen, AdmittedWithRights,
          ProfileOfOwner, RefusedForAReason, SentForOwner
    <3> QED
      BY <3>1, <3>2
  <2>6. ScreenOK
    <3>1. /\ request[1].kind = "me" /\ request[1].token = stored
          /\ restoring
      <4>1. request[1] = f
        BY <1>3, <2>4
      <4>2. restoring
        BY <1>2, <1>3, <1>7
      <4> QED
        BY <1>7, <2>1, <4>1, <4>2
    <3>2. \A r \in RequestId : r # 1 => ~request[r].awaited
      BY <2>4, UnsentRequest
    <3> QED
      BY <1>2, <3>1, <3>2 DEF ScreenOK, AwaitsLogin, AwaitsProfile
  <2>7. SessionTypeOK
    <3>1. request \in [RequestId -> Request]
      BY <2>3, <2>4, UnsentRequest
    <3>2. sent \in 0 .. MaxRequests /\ changes \in 0 .. MaxChanges
      BY <1>2, <1>7, SessionAssumption
    <3> QED
      BY <1>2, <1>4, <3>1, <3>2 DEF SessionTypeOK
  <2> QED
    BY <1>2, <1>5, <2>5, <2>6, <2>7 DEF SessionInv, ActsAsShown
<1> QED
  BY <1>6, <1>7 DEF Init

\* Every step of the server, of an administrator, of the user and of the
\* network keeps the invariant.
LEMMA SessionKept == SessionInv /\ [Next]_vars => SessionInv'
<1> SUFFICES ASSUME SessionInv, [Next]_vars PROVE SessionInv'
  OBVIOUS
<1>1. ASSUME NEW r \in RequestId, Server(r) PROVE SessionInv'
  BY <1>1, LoginKeeps, GuardKeeps, HandleKeeps DEF Server
<1>2. ASSUME NEW r \in RequestId, Delivery(r) PROVE SessionInv'
  BY <1>2, UnauthorizedKeeps, SignedInKeeps, RestoredKeeps, DoneKeeps,
     DisplayedKeeps, BrokenKeeps
  DEF Delivery
<1>3. ASSUME NEW u \in User, NEW account \in Account, ChangeAccount(u, account)
      PROVE  SessionInv'
  BY <1>3, ChangeAccountKeeps
<1>4. ASSUME NEW token \in Token, Expire(token) PROVE SessionInv'
  BY <1>4, ExpireKeeps
<1>5. ASSUME NEW u \in User, SubmitLogin(u) PROVE SessionInv'
  BY <1>5, SubmitLoginKeeps
<1>6. ASSUME NEW op \in Operation, Click(op) PROVE SessionInv'
  <2>1. /\ shown # None /\ Send("act", op, shown.id, stored)
        /\ UNCHANGED <<server, page, acted>>
    BY <1>6 DEF Click
  <2> QED
    BY <2>1, SentFromPageKeeps
<1>7. CASE Browse
  <2>1. /\ shown # None /\ Send("load", None, shown.id, stored)
        /\ UNCHANGED <<server, page, acted>>
    BY <1>7 DEF Browse
  <2> QED
    BY <2>1, SentFromPageKeeps
<1>8. CASE Reload
  BY <1>8, MountKeeps DEF Reload
<1>9. CASE SignOut
  BY <1>9, SignOutKeeps
<1>10. CASE UNCHANGED vars
  BY <1>10
  DEF vars, server, page, SessionInv, SessionTypeOK, RequestOK, OnlySent,
      TokenIsIssued, LoginIsOpen, AdmittedWithRights, ProfileOfOwner,
      RefusedForAReason, SentForOwner, ScreenOK, AwaitsLogin, AwaitsProfile,
      NotYetIssued, ActsAsShown, Allows, Required
<1> QED
  BY <1>1, <1>2, <1>3, <1>4, <1>5, <1>6, <1>7, <1>8, <1>9, <1>10 DEF Next

\* Whoever is on the screen, whatever was sent and answered meanwhile, in any
\* order: the invariant holds.
THEOREM SessionIsOrderly == Spec => []SessionInv
BY SessionStarts, SessionKept, PTL DEF Spec

\* The tables, the requests and the screen stay well formed; in particular the
\* stored token is one that a login has issued.
THEOREM SessionTypes == Spec => []SessionTypeOK
<1>1. SessionInv => SessionTypeOK
  BY DEF SessionInv
<1> QED
  BY <1>1, SessionIsOrderly, PTL

\* JwtStrategy and RolesGuard: a request is admitted with what its account was
\* at a moment since it was sent, however accounts change and requests overlap.
THEOREM RightsAreNeverOlder == Spec => []RightsAreCurrent
<1>1. SessionInv => RightsAreCurrent
  BY DEF SessionInv, RequestOK, AdmittedWithRights, RightsAreCurrent
<1> QED
  BY <1>1, SessionIsOrderly, PTL

\* What is booked is booked for the user on the screen, unless a login was begun
\* while the old session was restored.
THEOREM BookedForTheUserShown == Spec => []ActsAsShown
<1>1. SessionInv => ActsAsShown
  BY DEF SessionInv
<1> QED
  BY <1>1, SessionIsOrderly, PTL

\* What an answer to a request with the current token may do to the session:
\* AuthContext ends it only for an expired token, an inactive account, or a
\* connection that breaks while it is restored.
EndsForAReason ==
    \A r \in RequestId :
        /\ request[r].step = "answered"
        /\ request[r].kind # "login"
        /\ request[r].token = stored
        /\ request[r].awaited /\ ~request'[r].awaited
        /\ stored # None /\ stored' = None
        => \/ stored \in expired
           \/ \E a \in request[r].seen : ~a.isActive
           \/ request[r].kind = "me" /\ request' = Broke(r)

\* Among all the steps that give up the token and stop waiting for an answer,
\* only a 401 and a broken restore are left.
LEMMA SessionEndsSo == SessionInv /\ [Next]_vars => EndsForAReason
<1> SUFFICES ASSUME SessionInv, [Next]_vars, NEW r \in RequestId,
                    request[r].step = "answered",
                    request[r].kind # "login",
                    request[r].token = stored,
                    request[r].awaited, ~request'[r].awaited,
                    stored # None, stored' = None
             PROVE  \/ stored \in expired
                    \/ \E a \in request[r].seen : ~a.isActive
                    \/ request[r].kind = "me" /\ request' = Broke(r)
  BY DEF EndsForAReason
<1>1. request \in [RequestId -> Request] /\ RefusedForAReason(r)
  BY DEF SessionInv, SessionTypeOK, RequestOK
<1>2. \E s \in RequestId : Unauthorized(s) \/ Broken(s)
  <2>1. ASSUME NEW s \in RequestId, Server(s) PROVE FALSE
    BY <2>1 DEF Server, Login, Guard, Handle, page
  <2>2. ASSUME NEW s \in RequestId, Restored(s) \/ Done(s) \/ Displayed(s)
        PROVE  FALSE
    BY <2>2 DEF Restored, Done, Displayed, page
  <2>3. ASSUME NEW s \in RequestId, SignedIn(s) PROVE FALSE
    BY <2>3, SessionAssumption DEF SignedIn, RequestId
  <2>4. ASSUME NEW u \in User, NEW account \in Account, ChangeAccount(u, account)
        PROVE  FALSE
    BY <2>4 DEF ChangeAccount, page
  <2>5. ASSUME NEW token \in Token, Expire(token) PROVE FALSE
    BY <2>5 DEF Expire, page
  <2>6. ASSUME NEW u \in User, SubmitLogin(u) PROVE FALSE
    BY <2>6 DEF SubmitLogin
  <2>7. ASSUME NEW op \in Operation, Click(op) PROVE FALSE
    BY <2>7 DEF Click, page
  <2>8. ~Reload /\ ~Browse
    BY DEF Reload, Mount, Browse, page
  <2>9. ~SignOut
    BY DEF SignOut
  <2>10. ~UNCHANGED vars
    BY DEF vars, page
  <2> QED
    BY <2>1, <2>2, <2>3, <2>4, <2>5, <2>6, <2>7, <2>8, <2>9, <2>10
    DEF Next, Delivery
<1>3. PICK s \in RequestId : Unauthorized(s) \/ Broken(s)
  BY <1>2
<1>4. CASE Unauthorized(s)
  <2>1. request' = Settled(s) /\ request[s].answer = "unauthorized"
    BY <1>4 DEF Unauthorized, EndsSession
  <2>2. s = r
    BY <1>1, <2>1, SettledRequest
  <2> QED
    BY <1>1, <2>1, <2>2 DEF RefusedForAReason
<1>5. CASE Broken(s)
  <2>1. /\ request' = Broke(s)
        /\ stored' = IF request[s].kind = "me" THEN None ELSE stored
    BY <1>5 DEF Broken
  <2>2. s = r
    BY <1>1, <2>1 DEF Broke
  <2> QED
    BY <2>1, <2>2
<1> QED
  BY <1>3, <1>4, <1>5

\* "Called when the API reports the session is no longer valid": the answer to
\* a request with the current token ends the session for no other reason.
THEOREM SessionsEndForAReason == Spec => SessionEndsForAReason
<1>1. SessionInv /\ [Next]_vars => [EndsForAReason]_vars
  BY SessionEndsSo
<1> QED
  BY <1>1, SessionIsOrderly, PTL DEF Spec, SessionEndsForAReason, EndsForAReason
=============================================================================
